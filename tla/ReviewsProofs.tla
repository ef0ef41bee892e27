---------------------------- MODULE ReviewsProofs ----------------------------
(***************************************************************************)
(* Proofs about what operators do to finished runs, for every set of       *)
(* requests, runs, keys and messages and any number of reviews, decisions, *)
(* proposals and restarts: OperatorReviews first, then ReviewChat and the  *)
(* words of its messages, WorkOrderRevision.                               *)
(***************************************************************************)
EXTENDS OperatorReviews, ReviewChat, WorkOrderRevision, FiniteSetTheorems, SequenceTheorems,
        WellFoundedInduction, TLAPS

(* A review of a completed run was recorded after its completion, which    *)
(* happens once; a task that carries a review is there and is not taken    *)
(* again.  A decision that was read is either the candidate as it is or of *)
(* an earlier version.                                                     *)
TaskStatus == {"pending", "approved", "corrected", "rejected"}
Entries == [key : ReviewKeys, body : ReviewBodies, task : Nat, done : BOOLEAN]
Candidates == [version : Nat, history : Seq(Nat)]
Recording(c) == OperatorAt(c, "record")
Deciding(c) == OperatorAt(c, "decide")

RunsOK ==
  /\ executing \subseteq Runs
  /\ given \in [Runs -> Seq(Entries)]
  /\ tasks \in Seq(TaskStatus)
  /\ filed \in [Runs -> 0..Len(tasks)]
  /\ current \in [Runs -> 0..Len(tasks)]
  /\ shown \in [Runs -> {"not_ready", "pending", "approved", "corrected"}]
  /\ candidates \in Seq(Candidates) /\ reruns \in Seq(Runs \X Nat)
  /\ \A r \in Runs : Len(given[r]) <= MaxReviews
RequestsOK ==
  /\ operator = [c \in Reviewers |-> operator[c]]
  /\ \A c \in Reviewers :
       /\ operator[c].step \in {"idle", "record", "decide"}
       /\ Recording(c) => /\ operator[c].run \in Runs /\ operator[c].key \in ReviewKeys
                          /\ operator[c].body \in ReviewBodies
                          /\ LatestReview(operator[c].run) < MaxReviews
  /\ \A c, d \in Reviewers :
       Recording(c) /\ Recording(d) /\ operator[c].run = operator[d].run => c = d
ReviewedTasks ==
  \A x \in Recorded : /\ Review(x).task \in DOMAIN tasks
                      /\ Review(x).done => x[1] \notin executing
ReviewInv == RunsOK /\ RequestsOK /\ ReviewedTasks /\ StatusFollowsLatestReview

LEMMA ReviewInitInv == ReviewInit => ReviewInv
  BY ReviewsAssumption
    DEF ReviewInit, ReviewInv, RunsOK, RequestsOK, ReviewedTasks, StatusFollowsLatestReview,
        OneReviewPerTask, RecordedOnce, Recorded, LatestReview, Recording, OperatorAt, NotReviewing,
        NoTask

LEMMA RecordedIs ==
  \A x : x \in Recorded <=> \E r \in Runs : \E i \in DOMAIN given[r] : x = <<r, i>>
  BY DEF Recorded

(* What the parts of the invariant say of reviews that stay.               *)
LatestShown ==
  \A r \in Runs : LET n == LatestReview(r) IN
    n > 0 /\ given[r][n].done => /\ shown[r] = RunStatus(given[r][n].body.decision)
                                 /\ current[r] = given[r][n].task
OneKeyPerReview == \A x, y \in Recorded : Review(x).key = Review(y).key => x = y
OneRerun == \A i, j \in DOMAIN reruns : reruns[i] = reruns[j] => i = j

LEMMA StatusParts ==
  /\ StatusFollowsLatestReview <=> LatestShown /\ OneReviewPerTask /\ OneKeyPerReview /\ OneRerun
  /\ StatusFollowsLatestReview' <=>
       LatestShown' /\ OneReviewPerTask' /\ OneKeyPerReview' /\ OneRerun'
  BY DEF StatusFollowsLatestReview, LatestShown, RecordedOnce, OneKeyPerReview, OneRerun

LEMMA ReviewsStay ==
  ASSUME ReviewInv, UNCHANGED <<given, tasks>>
  PROVE  /\ Recorded' = Recorded /\ \A x : Review(x)' = Review(x)
         /\ OneReviewPerTask' /\ OneKeyPerReview'
  <1>1. Recorded' = Recorded /\ \A x : Review(x)' = Review(x)
    BY DEF Recorded, Review
  <1>2. QED
    BY <1>1, StatusParts DEF ReviewInv, OneReviewPerTask, OneKeyPerReview

(* create_targeted_child_run requests the rerun of a review once.          *)
LEMMA RerunOnce ==
  ASSUME ReviewInv, NEW x \in Runs \X Nat, NEW body, RequestRerun(x, body)
  PROVE  OneRerun' /\ reruns' \in Seq(Runs \X Nat)
  <1>1. reruns \in Seq(Runs \X Nat) /\ OneRerun
    BY StatusParts DEF ReviewInv, RunsOK
  <1>2. CASE reruns' = reruns
    BY <1>1, <1>2 DEF OneRerun
  <1>3. CASE reruns' = Append(reruns, x) /\ ~RerunExists(x)
    BY <1>1, <1>3 DEF OneRerun, RerunExists
  <1>4. QED
    BY <1>2, <1>3 DEF RequestRerun

LEMMA RecordedType ==
  ASSUME ReviewInv, NEW x \in Recorded
  PROVE  /\ x \in Runs \X Nat /\ x[1] \in Runs /\ x[2] \in 1..Len(given[x[1]])
         /\ Review(x) \in Entries
  <1>1. PICK r \in Runs : \E i \in DOMAIN given[r] : x = <<r, i>>
    BY RecordedIs
  <1>2. PICK i \in DOMAIN given[r] : x = <<r, i>>
    BY <1>1
  <1>3. given[r] \in Seq(Entries)
    BY DEF ReviewInv, RunsOK
  <1>4. i \in 1..Len(given[r]) /\ i \in Nat /\ given[r][i] \in Entries
    BY <1>2, <1>3
  <1>5. QED
    BY <1>2, <1>4 DEF Review

(* Requests that begin, end or read leave the runs as they are.            *)
LEMMA OnlyRequests ==
  ASSUME ReviewInv, UNCHANGED <<executing, given, tasks, filed, current, shown, candidates>>,
         RequestsOK', OneRerun', reruns' \in Seq(Runs \X Nat)
  PROVE  ReviewInv'
  <1>1. RunsOK'
    BY DEF ReviewInv, RunsOK
  <1>2. ReviewedTasks'
    BY ReviewsStay DEF ReviewInv, ReviewedTasks
  <1>3. LatestShown'
    BY StatusParts DEF ReviewInv, LatestShown, LatestReview
  <1>4. StatusFollowsLatestReview'
    BY <1>3, ReviewsStay, StatusParts
  <1>5. QED
    BY <1>1, <1>2, <1>4 DEF ReviewInv

LEMMA RepeatInv ==
  ASSUME ReviewInv, NEW c \in Reviewers, NEW r \in Runs, NEW k \in ReviewKeys,
         NEW body \in ReviewBodies, RepeatReview(c, r, k, body)
  PROVE  ReviewInv'
  <1>1. UNCHANGED <<executing, given, tasks, filed, current, shown, candidates, operator>>
    BY DEF RepeatReview
  <1>2. PICK x \in OfKey(k) : RequestRerun(x, body) \/ UNCHANGED reruns
    BY DEF RepeatReview
  <1>3. x \in Runs \X Nat
    BY RecordedType DEF OfKey
  <1>4. OneRerun' /\ reruns' \in Seq(Runs \X Nat)
    <2>1. CASE UNCHANGED reruns
      BY <2>1, StatusParts DEF ReviewInv, RunsOK, OneRerun
    <2>2. CASE RequestRerun(x, body)
      BY <1>3, <2>2, RerunOnce
    <2>3. QED
      BY <1>2, <2>1, <2>2
  <1>5. RequestsOK'
    BY <1>1 DEF ReviewInv, RequestsOK, Recording, OperatorAt, LatestReview
  <1>6. QED
    BY <1>1, <1>4, <1>5, OnlyRequests

LEMMA BeginReviewInv ==
  ASSUME ReviewInv, NEW c \in Reviewers, NEW r \in Runs, NEW k \in ReviewKeys,
         NEW body \in ReviewBodies, BeginReview(c, r, k, body)
  PROVE  ReviewInv'
  <1> DEFINE u == [step |-> "record", run |-> r, key |-> k, body |-> body]
  <1>1. /\ UNCHANGED <<executing, given, tasks, filed, current, shown, candidates, reruns>>
        /\ operator' = [operator EXCEPT ![c] = u] /\ LatestReview(r) < MaxReviews
        /\ \A d \in Reviewers : Recording(d) => operator[d].run # r
    BY DEF BeginReview, LocksRun, Recording
  <1>2. u.step = "record" /\ u.run = r /\ u.key = k /\ u.body = body
    OBVIOUS
  <1> HIDE DEF u
  <1>3. \A d \in Reviewers : operator'[d] = IF d = c THEN u ELSE operator[d]
    BY <1>1 DEF ReviewInv, RequestsOK
  <1>4. RequestsOK'
    BY <1>1, <1>2, <1>3 DEF ReviewInv, RequestsOK, Recording, OperatorAt, LatestReview
  <1>5. OneRerun' /\ reruns' \in Seq(Runs \X Nat)
    BY <1>1, StatusParts DEF ReviewInv, RunsOK, OneRerun
  <1>6. QED
    BY <1>1, <1>4, <1>5, OnlyRequests

(* A request that is answered holds no lock.                               *)
LEMMA EndsReview ==
  ASSUME ReviewInv, NEW c \in Reviewers, AnswersOperator(c),
         \A r \in Runs : LatestReview(r)' = LatestReview(r)
                         \/ (Recording(c) /\ operator[c].run = r)
  PROVE  RequestsOK'
  <1>1. \A d \in Reviewers : operator'[d] = IF d = c THEN NotReviewing ELSE operator[d]
    BY DEF AnswersOperator, ReviewInv, RequestsOK
  <1>2. operator' = [d \in Reviewers |-> operator'[d]]
    BY DEF AnswersOperator, ReviewInv, RequestsOK
  <1>3. \A d \in Reviewers : Recording(d)' => d # c /\ Recording(d)
    BY <1>1 DEF Recording, OperatorAt, NotReviewing
  <1>4. ASSUME NEW d \in Reviewers, Recording(d)' PROVE LatestReview(operator[d].run)' < MaxReviews
    <2>1. d # c /\ Recording(d) /\ operator'[d] = operator[d]
      BY <1>1, <1>3, <1>4
    <2>2. operator[d].run \in Runs /\ LatestReview(operator[d].run) < MaxReviews
          /\ ~(Recording(c) /\ operator[c].run = operator[d].run)
      BY <2>1 DEF ReviewInv, RequestsOK
    <2>3. LatestReview(operator[d].run)' = Len(given'[operator[d].run])
      BY <2>1 DEF LatestReview
    <2>4. \A r \in Runs : ~(Recording(c) /\ operator[c].run = r) => Len(given'[r]) = Len(given[r])
      BY DEF LatestReview
    <2>5. QED
      BY <2>2, <2>3, <2>4 DEF LatestReview
  <1>5. \A d \in Reviewers : operator'[d].step \in {"idle", "record", "decide"}
    BY <1>1 DEF ReviewInv, RequestsOK, NotReviewing
  <1>6. QED
    BY <1>1, <1>2, <1>3, <1>4, <1>5 DEF ReviewInv, RequestsOK

(* A request whose review is refused, or was recorded before.              *)
LEMMA RefusedInv ==
  ASSUME ReviewInv, NEW c \in Reviewers, RecordReview(c), UNCHANGED given,
         UNCHANGED <<tasks, current, shown, candidates>>,
         UNCHANGED reruns \/ \E y \in Recorded : \E body : RequestRerun(y, body)
  PROVE  ReviewInv'
  <1>1. UNCHANGED <<executing, filed>> /\ AnswersOperator(c)
    BY DEF RecordReview
  <1>2. RequestsOK'
    BY <1>1, EndsReview DEF LatestReview
  <1>3. OneRerun' /\ reruns' \in Seq(Runs \X Nat)
    <2>1. CASE UNCHANGED reruns
      BY <2>1, StatusParts DEF ReviewInv, RunsOK, OneRerun
    <2>2. CASE \E y \in Recorded : \E body : RequestRerun(y, body)
      BY <2>2, RecordedType, RerunOnce
    <2>3. QED
      BY <2>1, <2>2
  <1>4. QED
    BY <1>1, <1>2, <1>3, OnlyRequests

(* The task of a review: a new one, or one that carries no review yet.     *)
LEMMA TaskIsFree ==
  ASSUME ReviewInv, NEW r \in Runs,
         NEW t, t = (IF TakesCurrent(r) THEN current[r] ELSE Len(tasks) + 1)
  PROVE  /\ t \in 1..Len(tasks) + 1 /\ Len(tasks) \in Nat
         /\ \A y \in Recorded : Review(y).task # t
  <1>1. Len(tasks) \in Nat /\ current[r] \in 0..Len(tasks)
    BY DEF ReviewInv, RunsOK
  <1>2. CASE TakesCurrent(r)
    BY <1>1, <1>2 DEF TakesCurrent, TaskUsed, NoTask
  <1>3. CASE ~TakesCurrent(r)
    BY <1>1, <1>3 DEF ReviewInv, ReviewedTasks, RunsOK
  <1>4. QED
    BY <1>2, <1>3

LEMMA TasksGrow ==
  ASSUME tasks \in Seq(TaskStatus), NEW t \in 1..Len(tasks) + 1, NEW d \in TaskStatus,
         tasks' = IF t \in DOMAIN tasks THEN [tasks EXCEPT ![t] = d] ELSE Append(tasks, d)
  PROVE  /\ tasks' \in Seq(TaskStatus) /\ Len(tasks') \in Nat /\ Len(tasks') >= Len(tasks)
         /\ t \in 1..Len(tasks') /\ DOMAIN tasks' = 1..Len(tasks') /\ tasks'[t] = d
         /\ \A u \in DOMAIN tasks : u # t => tasks'[u] = tasks[u]
  <1>1. CASE t \in DOMAIN tasks
    BY <1>1
  <1>2. CASE t \notin DOMAIN tasks
    BY <1>2
  <1>3. QED
    BY <1>1, <1>2

LEMMA DecidedAsType ==
  ASSUME NEW body \in ReviewBodies
  PROVE  /\ DecidedAs[body.decision] \in TaskStatus
         /\ RunStatus(body.decision) \in {"pending", "approved", "corrected"}
  <1>1. body.decision \in {"approve", "correct", "reject", "keep_human_review"}
    BY ReviewsAssumption DEF DecidedAs
  <1>2. QED
    BY <1>1 DEF DecidedAs, RunStatus, TaskStatus

(* A review that is recorded: the history of its run grows by one, its     *)
(* task and the run show its decision.                                     *)
LEMMA RecordedInv ==
  ASSUME ReviewInv, NEW c \in Reviewers, RecordReview(c),
         ~StaleVersion(operator[c].run, operator[c].body.expected), ~KeyTaken(operator[c].key)
  PROVE  ReviewInv'
  <1>1. PICK r \in Runs, k \in ReviewKeys, body \in ReviewBodies :
          operator[c].run = r /\ operator[c].key = k /\ operator[c].body = body
    BY DEF RecordReview, ReviewInv, RequestsOK, Recording
  <1>2. PICK t : t = (IF TakesCurrent(r) THEN current[r] ELSE Len(tasks) + 1)
    OBVIOUS
  <1>3. PICK n \in Nat : n = Len(given[r])
    BY DEF ReviewInv, RunsOK
  <1>4. PICK done \in BOOLEAN : done = (r \notin executing)
    OBVIOUS
  <1> DEFINE e == [key |-> k, body |-> body, task |-> t, done |-> done]
             x == <<r, n + 1>>
             d == DecidedAs[body.decision]
  <1>5. /\ given' = [given EXCEPT ![r] = Append(given[r], e)]
        /\ tasks' = IF t \in DOMAIN tasks THEN [tasks EXCEPT ![t] = d] ELSE Append(tasks, d)
        /\ current' = [current EXCEPT ![r] = t]
        /\ shown' = [shown EXCEPT ![r] = RunStatus(body.decision)]
        /\ candidates' = IF body.decision = "correct"
                         THEN Append(candidates, [version |-> 1, history |-> <<>>])
                         ELSE candidates
        /\ RequestRerun(x, body) /\ AnswersOperator(c) /\ UNCHANGED <<executing, filed>>
        /\ Recording(c) /\ n < MaxReviews
    BY <1>1, <1>2, <1>3, <1>4
      DEF RecordReview, LatestReview, Recording, ReviewInv, RequestsOK
  <1>6. t \in 1..Len(tasks) + 1 /\ Len(tasks) \in Nat /\ \A y \in Recorded : Review(y).task # t
    BY <1>2, TaskIsFree
  <1>7. d \in TaskStatus /\ RunStatus(body.decision) \in {"pending", "approved", "corrected"}
    BY DecidedAsType
  <1>8. e \in Entries /\ e.key = k /\ e.body = body /\ e.task = t /\ e.done = done
    BY <1>6 DEF Entries
  <1>9. x \in Runs \X Nat /\ x[1] = r /\ x[2] = n + 1
    OBVIOUS
  <1> HIDE DEF e, x, d
  <1>10. /\ tasks' \in Seq(TaskStatus) /\ Len(tasks') \in Nat /\ Len(tasks') >= Len(tasks)
         /\ t \in 1..Len(tasks') /\ DOMAIN tasks' = 1..Len(tasks') /\ tasks'[t] = d
         /\ \A u \in DOMAIN tasks : u # t => tasks'[u] = tasks[u]
    BY <1>5, <1>6, <1>7, TasksGrow DEF ReviewInv, RunsOK
  <1>11. given \in [Runs -> Seq(Entries)] /\ given[r] \in Seq(Entries)
    BY DEF ReviewInv, RunsOK
  <1>12. /\ given' \in [Runs -> Seq(Entries)]
         /\ \A s \in Runs : given'[s] = IF s = r THEN Append(given[r], e) ELSE given[s]
         /\ Len(given'[r]) = n + 1 /\ given'[r][n + 1] = e
         /\ DOMAIN given'[r] = 1..n + 1 /\ DOMAIN given[r] = 1..n
         /\ \A i \in 1..n : given'[r][i] = given[r][i]
    BY <1>3, <1>5, <1>8, <1>11
  <1>13. Recorded' = Recorded \cup {x} /\ x \notin Recorded
    <2>1. \A y : y \in Recorded' <=> \E s \in Runs : \E i \in DOMAIN given'[s] : y = <<s, i>>
      BY DEF Recorded
    <2>2. \A s \in Runs : \A i : i \in DOMAIN given'[s]
            <=> i \in DOMAIN given[s] \/ (s = r /\ i = n + 1)
      BY <1>12
    <2>3. \A y : y \in Recorded' <=> y \in Recorded \/ y = x
      BY <2>1, <2>2, RecordedIs DEF x
    <2>4. x \notin Recorded
      BY <1>12, RecordedIs DEF x
    <2>5. QED
      BY <2>3, <2>4
  <1>14. Review(x)' = e /\ \A y \in Recorded : Review(y)' = Review(y)
    <2>1. Review(x)' = given'[r][n + 1]
      BY <1>9 DEF Review
    <2>2. ASSUME NEW y \in Recorded PROVE Review(y)' = Review(y)
      BY <1>12, RecordedType DEF Review
    <2>3. QED
      BY <1>12, <2>1, <2>2
  <1>15. RunsOK'
    <2>1. candidates' \in Seq(Candidates)
      <3>1. [version |-> 1, history |-> <<>>] \in Candidates
        BY DEF Candidates
      <3>2. QED
        BY <1>5, <3>1 DEF ReviewInv, RunsOK
    <2>2. reruns' \in Seq(Runs \X Nat)
      BY <1>5, <1>9, RerunOnce
    <2>3. filed' \in [Runs -> 0..Len(tasks')] /\ current' \in [Runs -> 0..Len(tasks')]
      BY <1>5, <1>6, <1>10, SMTT(30) DEF ReviewInv, RunsOK
    <2>4. shown' \in [Runs -> {"not_ready", "pending", "approved", "corrected"}]
      BY <1>5, <1>7 DEF ReviewInv, RunsOK
    <2>5. \A s \in Runs : Len(given'[s]) <= MaxReviews
      BY <1>5, <1>12, ReviewsAssumption DEF ReviewInv, RunsOK
    <2>6. QED
      BY <1>5, <1>10, <1>12, <2>1, <2>2, <2>3, <2>4, <2>5 DEF ReviewInv, RunsOK
  <1>16. RequestsOK'
    <2>1. \A s \in Runs : LatestReview(s)' = LatestReview(s) \/ (Recording(c) /\ operator[c].run = s)
      BY <1>1, <1>5, <1>12 DEF LatestReview
    <2>2. QED
      BY <1>5, <2>1, EndsReview
  <1>17. ReviewedTasks'
    <2>1. \A y \in Recorded : Review(y).task \in 1..Len(tasks')
                              /\ (Review(y).done => y[1] \notin executing')
      BY <1>5, <1>6, <1>10, SMTT(30) DEF ReviewInv, RunsOK, ReviewedTasks
    <2>2. QED
      BY <1>4, <1>5, <1>8, <1>9, <1>10, <1>13, <1>14, <2>1, ZenonT(30) DEF ReviewedTasks
  <1>18. LatestShown'
    <2>1. ASSUME NEW s \in Runs, Len(given'[s]) > 0, given'[s][Len(given'[s])].done
          PROVE  /\ shown'[s] = RunStatus(given'[s][Len(given'[s])].body.decision)
                 /\ current'[s] = given'[s][Len(given'[s])].task
      <3>1. CASE s = r
        BY <1>5, <1>8, <1>12, <3>1 DEF ReviewInv, RunsOK
      <3>2. CASE s # r
        <4>1. given'[s] = given[s] /\ shown'[s] = shown[s] /\ current'[s] = current[s]
          BY <1>5, <1>12, <3>2 DEF ReviewInv, RunsOK
        <4>2. QED
          BY <2>1, <4>1, StatusParts DEF ReviewInv, LatestShown, LatestReview
      <3>3. QED
        BY <3>1, <3>2
    <2>2. QED
      BY <2>1 DEF LatestShown, LatestReview, RunStatus
  <1>19. OneReviewPerTask'
    <2>1. \A y \in Recorded : Review(y).task \in DOMAIN tasks /\ Review(y).task # t
            /\ tasks[Review(y).task] = DecidedAs[Review(y).body.decision]
      BY <1>6 DEF ReviewInv, ReviewedTasks, StatusFollowsLatestReview, OneReviewPerTask
    <2>2. \A y \in Recorded' : tasks'[Review(y)'.task] = DecidedAs[Review(y)'.body.decision]
      BY <1>8, <1>10, <1>13, <1>14, <2>1 DEF d
    <2>3. \A y, z \in Recorded' : Review(y)'.task = Review(z)'.task => y = z
      BY <1>8, <1>13, <1>14, <2>1
        DEF ReviewInv, StatusFollowsLatestReview, OneReviewPerTask
    <2>4. QED
      BY <2>2, <2>3 DEF OneReviewPerTask
  <1>20. OneKeyPerReview'
    <2>1. \A y \in Recorded : Review(y).key # k
      BY <1>1 DEF KeyTaken, OfKey
    <2>2. QED
      BY <1>8, <1>13, <1>14, <2>1, StatusParts DEF ReviewInv, OneKeyPerReview
  <1>21. OneRerun'
    BY <1>5, <1>9, RerunOnce
  <1>22. QED
    BY <1>15, <1>16, <1>17, <1>18, <1>19, <1>20, <1>21, StatusParts DEF ReviewInv

(* The review of the graph's result: filed, and shown by the completion,   *)
(* which is the only one: before it no review counts as one of a completed *)
(* run.                                                                    *)
LEMMA FiledInv ==
  ASSUME ReviewInv, NEW r \in Runs, CreateFinalReview(r)
  PROVE  ReviewInv'
  <1>1. /\ tasks' = Append(tasks, "pending") /\ filed' = [filed EXCEPT ![r] = Len(tasks')]
        /\ UNCHANGED <<executing, given, current, shown, candidates, reruns, operator>>
    BY DEF CreateFinalReview
  <1>2. tasks \in Seq(TaskStatus) /\ Len(tasks) \in Nat /\ "pending" \in TaskStatus
    BY DEF ReviewInv, RunsOK, TaskStatus
  <1>3. /\ tasks' \in Seq(TaskStatus) /\ Len(tasks') = Len(tasks) + 1
        /\ DOMAIN tasks' = 1..Len(tasks) + 1 /\ DOMAIN tasks = 1..Len(tasks)
        /\ \A t \in DOMAIN tasks : tasks'[t] = tasks[t]
    BY <1>1, <1>2
  <1>4. Recorded' = Recorded /\ \A x : Review(x)' = Review(x)
    BY <1>1 DEF Recorded, Review
  <1>5. RunsOK'
    BY <1>1, <1>2, <1>3 DEF ReviewInv, RunsOK
  <1>6. RequestsOK'
    BY <1>1 DEF ReviewInv, RequestsOK, Recording, OperatorAt, LatestReview
  <1>7. ReviewedTasks'
    BY <1>1, <1>2, <1>3, <1>4 DEF ReviewInv, ReviewedTasks
  <1>8. LatestShown' /\ OneRerun' /\ OneKeyPerReview'
    BY <1>1, <1>4, StatusParts
      DEF ReviewInv, LatestShown, LatestReview, OneRerun, OneKeyPerReview
  <1>9. OneReviewPerTask'
    BY <1>3, <1>4, StatusParts DEF ReviewInv, ReviewedTasks, OneReviewPerTask
  <1>10. QED
    BY <1>5, <1>6, <1>7, <1>8, <1>9, StatusParts DEF ReviewInv

LEMMA CompleteRunInv ==
  ASSUME ReviewInv, NEW r \in Runs, CompleteRun(r)
  PROVE  ReviewInv'
  <1>1. /\ current' = [current EXCEPT ![r] = filed[r]] /\ shown' = [shown EXCEPT ![r] = "pending"]
        /\ executing' = executing \ {r} /\ r \in executing
        /\ UNCHANGED <<given, tasks, filed, candidates, reruns, operator>>
    BY DEF CompleteRun, Completes
  <1>2. RunsOK'
    BY <1>1 DEF ReviewInv, RunsOK
  <1>3. RequestsOK'
    BY <1>1 DEF ReviewInv, RequestsOK, Recording, OperatorAt, LatestReview
  <1>4. ReviewedTasks'
    BY <1>1, ReviewsStay DEF ReviewInv, ReviewedTasks
  <1>5. LatestShown'
    <2>1. ASSUME NEW s \in Runs, Len(given[s]) > 0, given[s][Len(given[s])].done PROVE s # r
      <3>1. Len(given[s]) \in DOMAIN given[s]
        BY <2>1 DEF ReviewInv, RunsOK
      <3>2. <<s, Len(given[s])>> \in Recorded
        BY <3>1, RecordedIs
      <3>3. s \notin executing
        BY <2>1, <3>2 DEF ReviewInv, ReviewedTasks, Review
      <3>4. QED
        BY <1>1, <3>3
    <2>2. \A s \in Runs : s # r => current'[s] = current[s] /\ shown'[s] = shown[s]
      BY <1>1 DEF ReviewInv, RunsOK
    <2>3. QED
      BY <1>1, <2>1, <2>2, StatusParts DEF ReviewInv, LatestShown, LatestReview, RunStatus
  <1>6. OneRerun'
    BY <1>1, StatusParts DEF ReviewInv, OneRerun
  <1>7. QED
    BY <1>1, <1>2, <1>3, <1>4, <1>5, <1>6, ReviewsStay, StatusParts DEF ReviewInv

(* Decisions on policy candidates.                                         *)
LEMMA ReadCandidateInv ==
  ASSUME ReviewInv, NEW c \in Reviewers, NEW i \in DOMAIN candidates, ReadCandidate(c, i)
  PROVE  ReviewInv'
  <1> DEFINE u == [step |-> "decide", candidate |-> i, seen |-> candidates[i]]
  <1>1. /\ UNCHANGED <<executing, given, tasks, filed, current, shown, candidates, reruns>>
        /\ operator' = [operator EXCEPT ![c] = u] /\ u.step = "decide"
    BY DEF ReadCandidate
  <1> HIDE DEF u
  <1>2. \A d \in Reviewers : operator'[d] = IF d = c THEN u ELSE operator[d]
    BY <1>1 DEF ReviewInv, RequestsOK
  <1>3. RequestsOK'
    BY <1>1, <1>2 DEF ReviewInv, RequestsOK, Recording, OperatorAt, LatestReview
  <1>4. OneRerun' /\ reruns' \in Seq(Runs \X Nat)
    BY <1>1, StatusParts DEF ReviewInv, RunsOK, OneRerun
  <1>5. QED
    BY <1>1, <1>3, <1>4, OnlyRequests

(* What a decision has read, and the candidates' histories.                *)
DecisionInv ==
  /\ \A i \in DOMAIN candidates :
       /\ candidates[i].version = Len(candidates[i].history) + 1
       /\ \A v \in DOMAIN candidates[i].history : candidates[i].history[v] = v
  /\ \A c \in Reviewers : Deciding(c) =>
       LET i == operator[c].candidate IN
       /\ i \in DOMAIN candidates /\ operator[c].seen \in Candidates
       /\ operator[c].seen.version <= candidates[i].version
       /\ operator[c].seen.version = candidates[i].version => operator[c].seen = candidates[i]

LEMMA Decision ==
  ASSUME ReviewInv, DecisionInv, NEW c \in Reviewers, DecideCandidate(c)
  PROVE  /\ AnswersOperator(c) /\ UNCHANGED <<executing, given, tasks, filed, current, shown, reruns>>
         /\ \/ UNCHANGED candidates
            \/ \E i \in DOMAIN candidates : \E e \in Candidates :
                 /\ candidates' = [candidates EXCEPT ![i] = e]
                 /\ e.version = candidates[i].version + 1
                 /\ e.history = Append(candidates[i].history, candidates[i].version)
  <1>1. CASE ~SameVersion(c)
    BY <1>1 DEF DecideCandidate
  <1>2. CASE SameVersion(c)
    <2>1. PICK i \in DOMAIN candidates : i = operator[c].candidate
      BY DEF DecideCandidate, DecisionInv, Deciding
    <2>2. operator[c].seen = candidates[i] /\ candidates[i] \in Candidates
      BY <1>2, <2>1 DEF DecideCandidate, DecisionInv, Deciding, SameVersion, ReviewInv, RunsOK
    <2> DEFINE h == Append(candidates[i].history, candidates[i].version)
               w == candidates[i].version + 1
               e == [version |-> w, history |-> h]
    <2>3. candidates' = [candidates EXCEPT ![i] = e]
      BY <1>2, <2>1, <2>2 DEF DecideCandidate
    <2>4. h \in Seq(Nat) /\ w \in Nat
      BY <2>2 DEF Candidates
    <2>5. e \in Candidates /\ e.version = w /\ e.history = h
      BY <2>4 DEF Candidates
    <2> HIDE DEF e
    <2>6. QED
      BY <2>3, <2>5 DEF DecideCandidate
  <1>3. QED
    BY <1>1, <1>2

LEMMA DecideCandidateInv ==
  ASSUME ReviewInv, DecisionInv, NEW c \in Reviewers, DecideCandidate(c)
  PROVE  ReviewInv'
  <1>1. /\ AnswersOperator(c)
        /\ UNCHANGED <<executing, given, tasks, filed, current, shown, reruns>>
        /\ candidates' \in Seq(Candidates)
    <2>1. candidates \in Seq(Candidates)
      BY DEF ReviewInv, RunsOK
    <2>2. \A i \in DOMAIN candidates : \A e \in Candidates :
            [candidates EXCEPT ![i] = e] \in Seq(Candidates)
      BY <2>1
    <2>3. candidates' \in Seq(Candidates)
      BY <2>1, <2>2, Decision
    <2>4. QED
      BY <2>3, Decision
  <1>2. RequestsOK'
    BY <1>1, EndsReview DEF LatestReview
  <1>3. RunsOK'
    BY <1>1 DEF ReviewInv, RunsOK
  <1>4. ReviewedTasks'
    BY <1>1, ReviewsStay DEF ReviewInv, ReviewedTasks
  <1>5. LatestShown' /\ OneRerun'
    BY <1>1, StatusParts DEF ReviewInv, LatestShown, LatestReview, OneRerun
  <1>6. QED
    BY <1>1, <1>2, <1>3, <1>4, <1>5, ReviewsStay, StatusParts DEF ReviewInv

LEMMA ReviewStep ==
  ReviewInv /\ DecisionInv /\ [ReviewNext]_reviewVars => ReviewInv'
  <1> SUFFICES ASSUME ReviewInv, DecisionInv, [ReviewNext]_reviewVars PROVE ReviewInv'
    OBVIOUS
  <1>1. CASE UNCHANGED reviewVars
    <2>1. UNCHANGED <<executing, given, tasks, filed, current, shown, candidates, reruns, operator>>
      BY <1>1 DEF reviewVars
    <2>2. RequestsOK'
      BY <2>1 DEF ReviewInv, RequestsOK, Recording, OperatorAt, LatestReview
    <2>3. OneRerun' /\ reruns' \in Seq(Runs \X Nat)
      BY <2>1, StatusParts DEF ReviewInv, RunsOK, OneRerun
    <2>4. QED
      BY <2>1, <2>2, <2>3, OnlyRequests
  <1>2. ASSUME NEW c \in Reviewers, NEW r \in Runs, NEW k \in ReviewKeys, NEW b \in ReviewBodies,
               BeginReview(c, r, k, b) \/ RepeatReview(c, r, k, b)
        PROVE  ReviewInv'
    BY <1>2, BeginReviewInv, RepeatInv
  <1>3. ASSUME NEW c \in Reviewers, RecordReview(c) PROVE ReviewInv'
    <2>1. CASE StaleVersion(operator[c].run, operator[c].body.expected) \/ KeyTaken(operator[c].key)
      <3>1. UNCHANGED <<given, tasks, current, shown, candidates>>
        BY <1>3, <2>1 DEF RecordReview
      <3>2. UNCHANGED reruns \/ \E y \in OfKey(operator[c].key) : RequestRerun(y, operator[c].body)
        BY <1>3, <2>1 DEF RecordReview
      <3>3. UNCHANGED reruns \/ \E y \in Recorded : \E body : RequestRerun(y, body)
        BY <3>2 DEF OfKey
      <3>4. QED
        BY <1>3, <3>1, <3>3, RefusedInv
    <2>2. QED
      BY <1>3, <2>1, RecordedInv
  <1>4. ASSUME NEW c \in Reviewers, DecideCandidate(c) PROVE ReviewInv'
    BY <1>4, DecideCandidateInv
  <1>5. ASSUME NEW c \in Reviewers, NEW i \in DOMAIN candidates, ReadCandidate(c, i)
        PROVE  ReviewInv'
    BY <1>5, ReadCandidateInv
  <1>6. ASSUME NEW r \in Runs, CreateFinalReview(r) \/ CompleteRun(r) PROVE ReviewInv'
    BY <1>6, FiledInv, CompleteRunInv
  <1>7. QED
    BY <1>1, <1>2, <1>3, <1>4, <1>5, <1>6 DEF ReviewNext

LEMMA DecisionInitInv == ReviewInit => DecisionInv
  BY DEF ReviewInit, DecisionInv, Deciding, OperatorAt, NotReviewing

(* A decision is added to the history that was read only if the candidate  *)
(* still is what was read.                                                 *)
LEMMA DecisionStep ==
  ReviewInv /\ DecisionInv /\ [ReviewNext]_reviewVars => DecisionInv'
  <1> SUFFICES ASSUME ReviewInv, DecisionInv, [ReviewNext]_reviewVars PROVE DecisionInv'
    OBVIOUS
  <1> DEFINE HistoryOK(k) == /\ k.version = Len(k.history) + 1
                             /\ \A v \in DOMAIN k.history : k.history[v] = v
             SeenOK(u) == /\ u.candidate \in DOMAIN candidates /\ u.seen \in Candidates
                          /\ u.seen.version <= candidates[u.candidate].version
                          /\ u.seen.version = candidates[u.candidate].version
                               => u.seen = candidates[u.candidate]
             Kept == /\ \A i \in DOMAIN candidates' : HistoryOK(candidates[i])'
                     /\ \A d \in Reviewers : operator'[d].step = "decide" => SeenOK(operator[d])'
  <1>1. candidates \in Seq(Candidates) /\ \A i \in DOMAIN candidates : candidates[i] \in Candidates
    BY DEF ReviewInv, RunsOK
  <1>2. \A k \in Candidates : k.version \in Nat /\ k.history \in Seq(Nat)
    BY DEF Candidates
  <1>3. /\ \A i \in DOMAIN candidates : HistoryOK(candidates[i])
        /\ \A c \in Reviewers : operator[c].step = "decide" => SeenOK(operator[c])
    BY DEF DecisionInv, Deciding, OperatorAt
  <1>4. SUFFICES Kept
    BY DEF DecisionInv, Deciding, OperatorAt
  <1>5. operator = [c \in Reviewers |-> operator[c]]
    BY DEF ReviewInv, RequestsOK
  <1>6. ASSUME \A c \in Reviewers : operator'[c].step = "decide" => operator'[c] = operator[c],
               DOMAIN candidates \subseteq DOMAIN candidates',
               \A i \in DOMAIN candidates : candidates'[i] = candidates[i]
        PROVE  \A c \in Reviewers : operator'[c].step = "decide" => SeenOK(operator[c])'
    BY <1>3, <1>6
  <1>7. CASE UNCHANGED candidates /\ \A c \in Reviewers :
               operator'[c].step = "decide" => operator'[c] = operator[c]
    BY <1>3, <1>6, <1>7
  <1>8. CASE UNCHANGED reviewVars
    BY <1>7, <1>8 DEF reviewVars
  <1>9. ASSUME NEW c \in Reviewers, NEW r \in Runs, NEW k \in ReviewKeys, NEW b \in ReviewBodies,
               BeginReview(c, r, k, b) \/ RepeatReview(c, r, k, b)
        PROVE  UNCHANGED candidates /\ \A d \in Reviewers :
                 operator'[d].step = "decide" => operator'[d] = operator[d]
    <2> DEFINE u == [step |-> "record", run |-> r, key |-> k, body |-> b]
    <2>1. UNCHANGED candidates /\ (UNCHANGED operator \/ operator' = [operator EXCEPT ![c] = u])
      BY <1>9 DEF BeginReview, RepeatReview
    <2>2. u.step = "record"
      OBVIOUS
    <2> HIDE DEF u
    <2>3. QED
      BY <1>5, <2>1, <2>2
  <1>10. ASSUME NEW c \in Reviewers, RecordReview(c) \/ DecideCandidate(c)
         PROVE  /\ \A d \in Reviewers : operator'[d].step = "decide"
                                          => operator'[d] = operator[d] /\ d # c
    <2>1. operator' = [operator EXCEPT ![c] = NotReviewing]
      BY <1>10 DEF RecordReview, DecideCandidate, AnswersOperator
    <2>2. \A d \in Reviewers : operator'[d] = IF d = c THEN NotReviewing ELSE operator[d]
      BY <1>5, <2>1
    <2>3. QED
      BY <2>2 DEF NotReviewing
  <1>11. ASSUME NEW c \in Reviewers, RecordReview(c) PROVE Kept
    <2> DEFINE new == [version |-> 1, history |-> <<>>]
    <2>1. UNCHANGED candidates \/ candidates' = Append(candidates, new)
      BY <1>11 DEF RecordReview
    <2>2. HistoryOK(new)
      OBVIOUS
    <2> HIDE DEF new
    <2>3. CASE candidates' = Append(candidates, new)
      <3>1. /\ DOMAIN candidates' = 1..Len(candidates) + 1 /\ DOMAIN candidates = 1..Len(candidates)
            /\ Len(candidates) \in Nat
            /\ \A i \in DOMAIN candidates' :
                 candidates'[i] = IF i \in DOMAIN candidates THEN candidates[i] ELSE new
        BY <1>1, <2>3
      <3>2. \A i \in DOMAIN candidates' : HistoryOK(candidates[i])'
        BY <1>3, <2>2, <3>1
      <3>3. \A d \in Reviewers : operator'[d].step = "decide" => SeenOK(operator[d])'
        BY <1>6, <1>10, <1>11, <3>1
      <3>4. QED
        BY <3>2, <3>3
    <2>4. QED
      BY <1>7, <1>10, <1>11, <2>1, <2>3
  <1>12. ASSUME NEW c \in Reviewers, NEW i \in DOMAIN candidates, ReadCandidate(c, i)
         PROVE  Kept
    <2> DEFINE u == [step |-> "decide", candidate |-> i, seen |-> candidates[i]]
    <2>1. UNCHANGED candidates /\ operator' = [operator EXCEPT ![c] = u]
      BY <1>12 DEF ReadCandidate
    <2>2. u.candidate = i /\ u.seen = candidates[i]
      OBVIOUS
    <2> HIDE DEF u
    <2>3. \A d \in Reviewers : operator'[d] = IF d = c THEN u ELSE operator[d]
      BY <1>5, <2>1
    <2>4. SeenOK(u)
      BY <1>1, <1>2, <2>2
    <2>5. \A d \in Reviewers : operator'[d].step = "decide" => SeenOK(operator'[d])
      BY <1>3, <2>3, <2>4
    <2>6. QED
      BY <1>3, <2>1, <2>5
  <1>13. ASSUME NEW c \in Reviewers, DecideCandidate(c) PROVE Kept
    <2>1. CASE UNCHANGED candidates
      BY <1>7, <1>10, <1>13, <2>1
    <2>2. CASE ~UNCHANGED candidates
      <3>1. PICK i \in DOMAIN candidates, e \in Candidates :
              /\ candidates' = [candidates EXCEPT ![i] = e]
              /\ e.version = candidates[i].version + 1
              /\ e.history = Append(candidates[i].history, candidates[i].version)
        BY <1>13, <2>2, Decision
      <3>2. /\ DOMAIN candidates' = DOMAIN candidates
            /\ \A j \in DOMAIN candidates : candidates'[j] = IF j = i THEN e ELSE candidates[j]
        BY <1>1, <3>1
      <3>3. HistoryOK(e)
        BY <1>1, <1>2, <1>3, <3>1, SMTT(30)
      <3>4. \A j \in DOMAIN candidates' : HistoryOK(candidates[j])'
        BY <1>3, <3>2, <3>3
      <3>5. ASSUME NEW d \in Reviewers, operator'[d].step = "decide" PROVE SeenOK(operator[d])'
        <4>1. operator'[d] = operator[d] /\ SeenOK(operator[d])
          BY <1>3, <1>10, <1>13, <3>5
        <4>2. e.version \in Nat /\ candidates[i].version \in Nat /\ operator[d].seen.version \in Nat
          BY <1>1, <1>2, <4>1
        <4>3. CASE operator[d].candidate = i
          BY <3>1, <3>2, <4>1, <4>2, <4>3
        <4>4. CASE operator[d].candidate # i
          BY <3>2, <4>1, <4>4
        <4>5. QED
          BY <4>3, <4>4
      <3>6. QED
        BY <3>4, <3>5
    <2>3. QED
      BY <2>1, <2>2
  <1>14. ASSUME NEW r \in Runs, CreateFinalReview(r) \/ CompleteRun(r)
         PROVE  UNCHANGED <<candidates, operator>>
    BY <1>14 DEF CreateFinalReview, CompleteRun
  <1>15. QED
    BY <1>7, <1>8, <1>9, <1>11, <1>12, <1>13, <1>14 DEF ReviewNext

(* The requests at work on the reviews keep their records apart: the       *)
(* invariant of the operator reviews, with the requests and decisions in   *)
(* flight.                                                                 *)
THEOREM ReviewInvariance == ReviewSpec => [](ReviewInv /\ DecisionInv)
  <1>1. ReviewInit => ReviewInv /\ DecisionInv
    BY ReviewInitInv, DecisionInitInv
  <1>2. ReviewInv /\ DecisionInv /\ [ReviewNext]_reviewVars => (ReviewInv /\ DecisionInv)'
    BY ReviewStep, DecisionStep
  <1>3. QED
    BY <1>1, <1>2, PTL DEF ReviewSpec

(* The types of the review tables: agent_run_reviews, human_review_tasks   *)
(* and the columns of agent_runs that point to them.                       *)
THEOREM ReviewTypes == ReviewSpec => []ReviewTypeOK
  <1>1. ReviewInv => ReviewTypeOK
    <2> SUFFICES ASSUME ReviewInv PROVE ReviewTypeOK
      OBVIOUS
    <2>1. \A t \in DOMAIN tasks : tasks[t] \in TaskStatus
      BY DEF ReviewInv, RunsOK
    <2>2. QED
      BY <2>1 DEF ReviewInv, RunsOK, ReviewTypeOK, TaskStatus
  <1>2. QED
    BY <1>1, ReviewInvariance, PTL

(* A completed run shows its latest review, a review task is decided by    *)
(* one review, and a repeated request records one review and one rerun     *)
(* (record_review, complete_agent_run, create_targeted_child_run).         *)
THEOREM ReviewSafety == ReviewSpec => []StatusFollowsLatestReview
  <1>1. ReviewInv => StatusFollowsLatestReview
    BY DEF ReviewInv
  <1>2. QED
    BY <1>1, ReviewInvariance, PTL
-----------------------------------------------------------------------------
(* Histories as versioned records.                                         *)
LEMMA AppendIs ==
  ASSUME NEW S, NEW s \in Seq(S), NEW e \in S
  PROVE  Append(s, e) = [v \in 1..Len(s) + 1 |-> IF v \in 1..Len(s) THEN s[v] ELSE e]
  <1> DEFINE t == Append(s, e)
  <1>1. /\ t \in Seq(S) /\ DOMAIN t = 1..Len(s) + 1 /\ Len(t) = Len(s) + 1
        /\ \A v \in 1..Len(s) + 1 : t[v] = IF v \in 1..Len(s) THEN s[v] ELSE e
    OBVIOUS
  <1>2. \A u \in Seq(S) : u \in [1..Len(u) -> S]
    OBVIOUS
  <1> HIDE DEF t
  <1>3. t \in [1..Len(s) + 1 -> S]
    BY <1>1, <1>2
  <1>4. QED
    BY <1>1, <1>3 DEF t

LEMMA ReviewAppended ==
  ASSUME ReviewInv, NEW c \in Reviewers, RecordReview(c), given' # given
  PROVE  \E r \in Runs, e \in Entries :
           /\ given' = [given EXCEPT ![r] = Append(given[r], e)]
           /\ e.body.expected \in {AnyVersion, LatestReview(r)}
  <1>1. /\ operator[c].run \in Runs /\ operator[c].key \in ReviewKeys
        /\ operator[c].body \in ReviewBodies
    BY DEF RecordReview, ReviewInv, RequestsOK, Recording, OperatorAt
  <1> PICK r \in Runs, k \in ReviewKeys, b \in ReviewBodies :
        r = operator[c].run /\ k = operator[c].key /\ b = operator[c].body
    BY <1>1
  <1> DEFINE t == IF TakesCurrent(r) THEN current[r] ELSE Len(tasks) + 1
             d == r \notin executing
             e == [key |-> k, body |-> b, task |-> t, done |-> d]
  <1>2. given' = [given EXCEPT ![r] = Append(given[r], e)] /\ ~StaleVersion(r, b.expected)
    BY DEF RecordReview
  <1>3. t \in Nat /\ d \in BOOLEAN
    BY DEF ReviewInv, RunsOK
  <1> HIDE DEF t, d
  <1>4. e \in Entries /\ e.body = b
    BY <1>3 DEF Entries
  <1> HIDE DEF e
  <1>5. b.expected \in {AnyVersion, LatestReview(r)}
    BY <1>2 DEF StaleVersion
  <1>6. QED
    BY <1>2, <1>4, <1>5

LEMMA ReviewExtends ==
  ASSUME ReviewInv, NEW r \in Runs, NEW e \in Entries,
         given' = [given EXCEPT ![r] = Append(given[r], e)],
         e.body.expected \in {AnyVersion, LatestReview(r)}
  PROVE  /\ \A q \in Runs : q # r => ReviewLog(q)' = ReviewLog(q)
         /\ ReviewLog(r)' = Append(ReviewLog(r), Len(ReviewLog(r)))
  <1> DEFINE Base(x, i) == IF x.body.expected = AnyVersion THEN i - 1 ELSE x.body.expected
             n == Len(given[r])
  <1>1. given \in [Runs -> Seq(Entries)] /\ given[r] \in Seq(Entries)
    BY DEF ReviewInv, RunsOK
  <1>2. given'[r] = Append(given[r], e) /\ \A q \in Runs : q # r => given'[q] = given[q]
    BY <1>1
  <1>3. \A q \in Runs : q # r => ReviewLog(q)' = ReviewLog(q)
    BY <1>2 DEF ReviewLog
  <1>4. /\ n \in Nat /\ DOMAIN given[r] = 1..n /\ DOMAIN given'[r] = 1..n + 1
        /\ \A i \in 1..n + 1 : given'[r][i] = IF i \in 1..n THEN given[r][i] ELSE e
    BY <1>1, <1>2
  <1>5. \A x \in Entries : \A i \in 1..n + 1 : Base(x, i) \in Int
    BY <1>4, ReviewsAssumption DEF Entries, AnyVersion
  <1>6. Base(e, n + 1) = n
    BY <1>4 DEF LatestReview
  <1>7. ReviewLog(r) = [i \in 1..n |-> Base(given[r][i], i)]
    BY <1>4 DEF ReviewLog
  <1>8. ReviewLog(r)' = [i \in 1..n + 1 |-> Base(given'[r][i], i)]
    BY <1>4 DEF ReviewLog
  <1> HIDE DEF Base
  <1>9. ReviewLog(r) \in Seq(Int) /\ Len(ReviewLog(r)) = n
    BY <1>1, <1>4, <1>5, <1>7
  <1>10. Append(ReviewLog(r), n) =
           [i \in 1..n + 1 |-> IF i \in 1..n THEN ReviewLog(r)[i] ELSE n]
    BY <1>4, <1>9, AppendIs
  <1>11. \A i \in 1..n + 1 : Base(given'[r][i], i) = IF i \in 1..n THEN ReviewLog(r)[i] ELSE n
    BY <1>4, <1>6, <1>7
  <1>12. QED
    BY <1>3, <1>8, <1>9, <1>10, <1>11

(* The reviews of every run are a log to which only who has seen the       *)
(* latest review, or asks for no version, appends (record_review).         *)
RunReviews == INSTANCE VersionedRecord WITH Records <- Runs, log <- [r \in Runs |-> ReviewLog(r)]
THEOREM ReviewsAreVersioned == ReviewSpec => RunReviews!Spec
  <1> DEFINE L == [r \in Runs |-> ReviewLog(r)]
  <1>1. ReviewInit => RunReviews!Init
    <2> SUFFICES ASSUME ReviewInit PROVE L = [r \in Runs |-> <<>>]
      BY DEF RunReviews!Init
    <2>1. \A r \in Runs : ReviewLog(r) = <<>>
      BY DEF ReviewInit, ReviewLog
    <2>2. QED
      BY <2>1
  <1>2. ReviewInv /\ DecisionInv /\ [ReviewNext]_reviewVars => [RunReviews!Next]_L
    <2>1. SUFFICES ASSUME ReviewInv, [ReviewNext]_reviewVars, L' # L PROVE RunReviews!Next
      OBVIOUS
    <2>2. given' # given
      BY <2>1 DEF ReviewLog
    <2>3. PICK c \in Reviewers : RecordReview(c)
      BY <2>1, <2>2 DEF ReviewNext, reviewVars, BeginReview, RepeatReview, DecideCandidate,
                        ReadCandidate, CreateFinalReview, CompleteRun
    <2>4. PICK r \in Runs, e \in Entries :
            /\ given' = [given EXCEPT ![r] = Append(given[r], e)]
            /\ e.body.expected \in {AnyVersion, LatestReview(r)}
      BY <2>1, <2>2, <2>3, ReviewAppended
    <2>5. /\ \A q \in Runs : q # r => ReviewLog(q)' = ReviewLog(q)
          /\ ReviewLog(r)' = Append(ReviewLog(r), Len(ReviewLog(r)))
      BY <2>1, <2>4, ReviewExtends
    <2>6. L' = [L EXCEPT ![r] = Append(L[r], Len(L[r]))]
      BY <2>5
    <2>7. RunReviews!Extend(r, Len(L[r]))
      BY <2>6 DEF RunReviews!Extend
    <2>8. QED
      BY <2>7 DEF RunReviews!Next
  <1>3. QED
    BY <1>1, <1>2, ReviewInvariance, PTL DEF ReviewSpec, RunReviews!Spec

(* The decisions on a candidate are numbered: the log of one is 0, 1, ...  *)
Decisions(i) == IF i \in DOMAIN candidates THEN candidates[i].version - 1 ELSE 0

LEMMA DecisionLogIs ==
  ReviewInv /\ DecisionInv
    => \A i \in Nat \ {0} : /\ Decisions(i) \in Nat
                            /\ DecisionLog(i) = [v \in 1..Decisions(i) |-> v - 1]
  <1> SUFFICES ASSUME ReviewInv, DecisionInv, NEW i \in Nat \ {0}
               PROVE  /\ Decisions(i) \in Nat
                      /\ DecisionLog(i) = [v \in 1..Decisions(i) |-> v - 1]
    OBVIOUS
  <1>1. CASE i \notin DOMAIN candidates
    BY <1>1 DEF Decisions, DecisionLog
  <1>2. CASE i \in DOMAIN candidates
    <2> DEFINE k == candidates[i]
    <2>1. /\ k \in Candidates /\ k.version = Len(k.history) + 1
          /\ \A v \in DOMAIN k.history : k.history[v] = v
      BY <1>2 DEF ReviewInv, RunsOK, DecisionInv
    <2>2. Len(k.history) \in Nat /\ DOMAIN k.history = 1..Len(k.history)
      BY <2>1 DEF Candidates
    <2>3. k.version - 1 = Len(k.history)
      BY <2>1, <2>2
    <2> HIDE DEF k
    <2>4. DecisionLog(i) = [v \in 1..Len(k.history) |-> v - 1]
      BY <1>2, <2>1, <2>2, <2>3 DEF DecisionLog, k
    <2>5. Decisions(i) = Len(k.history)
      BY <1>2, <2>3 DEF Decisions, k
    <2>6. QED
      BY <2>2, <2>4, <2>5
  <1>3. QED
    BY <1>1, <1>2

LEMMA DecisionLogIsNext ==
  (ReviewInv /\ DecisionInv)'
    => (\A i \in Nat \ {0} : /\ Decisions(i) \in Nat
                             /\ DecisionLog(i) = [v \in 1..Decisions(i) |-> v - 1])'
  BY DecisionLogIs, PTL

LEMMA DecisionAppends ==
  ASSUME ReviewInv, DecisionInv, NEW c \in Reviewers, DecideCandidate(c) \/ RecordReview(c),
         candidates' # candidates
  PROVE  \/ \A i \in Nat \ {0} : Decisions(i)' = Decisions(i)
         \/ \E i \in Nat \ {0} : /\ Decisions(i)' = Decisions(i) + 1
                                 /\ \A j \in Nat \ {0} : j # i => Decisions(j)' = Decisions(j)
  <1>1. /\ candidates \in Seq(Candidates) /\ DOMAIN candidates \subseteq Nat \ {0}
        /\ \A i \in DOMAIN candidates : candidates[i].version \in Nat
    <2>1. candidates \in Seq(Candidates) /\ \A k \in Candidates : k.version \in Nat
      BY DEF ReviewInv, RunsOK, Candidates
    <2>2. \A i \in DOMAIN candidates : candidates[i] \in Candidates /\ i \in Nat \ {0}
      BY <2>1, SMTT(30)
    <2>3. QED
      BY <2>1, <2>2
  <1>2. CASE RecordReview(c)
    <2> DEFINE new == [version |-> 1, history |-> <<>>]
    <2>1. candidates' = Append(candidates, new) /\ new.version - 1 = 0
      BY <1>2, SMTT(30) DEF RecordReview
    <2> HIDE DEF new
    <2>2. /\ DOMAIN candidates' = DOMAIN candidates \cup {Len(candidates) + 1}
          /\ Len(candidates) + 1 \notin DOMAIN candidates
          /\ candidates'[Len(candidates) + 1] = new
          /\ \A i \in DOMAIN candidates : candidates'[i] = candidates[i]
      BY <1>1, <2>1
    <2>3. \A i \in Nat \ {0} : Decisions(i)' = Decisions(i)
      BY <2>1, <2>2 DEF Decisions
    <2>4. QED
      BY <2>3, SMTT(30)
  <1>3. CASE DecideCandidate(c)
    <2>1. PICK i \in DOMAIN candidates, e \in Candidates :
            /\ candidates' = [candidates EXCEPT ![i] = e]
            /\ e.version = candidates[i].version + 1
      BY <1>3, Decision
    <2>2. /\ DOMAIN candidates' = DOMAIN candidates
          /\ \A j \in DOMAIN candidates : candidates'[j] = IF j = i THEN e ELSE candidates[j]
      BY <1>1, <2>1
    <2>3. Decisions(i)' = Decisions(i) + 1
      BY <1>1, <2>1, <2>2 DEF Decisions
    <2>4. \A j \in Nat \ {0} : j # i => Decisions(j)' = Decisions(j)
      BY <2>2 DEF Decisions
    <2>5. QED
      BY <1>1, <2>3, <2>4
  <1>4. QED
    BY <1>2, <1>3

(* The decisions on every policy candidate are a log to which only who has *)
(* seen the latest decision appends (decide_policy_candidate).             *)
CandidateDecisions ==
  INSTANCE VersionedRecord
    WITH Records <- Nat \ {0}, log <- [i \in Nat \ {0} |-> DecisionLog(i)]
THEOREM DecisionsAreVersioned == ReviewSpec => CandidateDecisions!Spec
  <1> DEFINE L == [i \in Nat \ {0} |-> DecisionLog(i)]
  <1>1. ReviewInit => CandidateDecisions!Init
    <2> SUFFICES ASSUME ReviewInit PROVE L = [i \in Nat \ {0} |-> <<>>]
      BY DEF CandidateDecisions!Init
    <2>1. \A i \in Nat \ {0} : DecisionLog(i) = <<>>
      BY DEF ReviewInit, DecisionLog
    <2>2. QED
      BY <2>1
  <1>2. ReviewInv /\ DecisionInv /\ (ReviewInv /\ DecisionInv)' /\ [ReviewNext]_reviewVars
          => [CandidateDecisions!Next]_L
    <2>1. SUFFICES ASSUME ReviewInv, DecisionInv, ReviewInv', DecisionInv',
                          [ReviewNext]_reviewVars, L' # L
                   PROVE  CandidateDecisions!Next
      OBVIOUS
    <2>2. candidates' # candidates
      BY <2>1 DEF DecisionLog
    <2>3. PICK c \in Reviewers : DecideCandidate(c) \/ RecordReview(c)
      BY <2>1, <2>2 DEF ReviewNext, reviewVars, BeginReview, RepeatReview, ReadCandidate,
                        CreateFinalReview, CompleteRun
    <2>4. /\ \A i \in Nat \ {0} : /\ Decisions(i) \in Nat
                                  /\ DecisionLog(i) = [v \in 1..Decisions(i) |-> v - 1]
          /\ \A i \in Nat \ {0} : DecisionLog(i)' = [v \in 1..Decisions(i)' |-> v - 1]
      BY <2>1, DecisionLogIs, DecisionLogIsNext
    <2>5. ~ \A i \in Nat \ {0} : Decisions(i)' = Decisions(i)
      BY <2>1, <2>4
    <2>6. PICK i \in Nat \ {0} : /\ Decisions(i)' = Decisions(i) + 1
                                 /\ \A j \in Nat \ {0} : j # i => Decisions(j)' = Decisions(j)
      BY <2>1, <2>2, <2>3, <2>5, DecisionAppends
    <2>7. \A n \in Nat : Append([v \in 1..n |-> v - 1], n) = [v \in 1..n + 1 |-> v - 1]
      <3> TAKE n \in Nat
      <3> DEFINE s == [v \in 1..n |-> v - 1]
      <3>1. s \in Seq(Nat) /\ Len(s) = n /\ n \in Nat
        OBVIOUS
      <3>2. Append(s, n) = [v \in 1..n + 1 |-> IF v \in 1..n THEN s[v] ELSE n]
        BY <3>1, AppendIs
      <3>3. \A v \in 1..n + 1 : v - 1 = IF v \in 1..n THEN s[v] ELSE n
        OBVIOUS
      <3> HIDE DEF s
      <3>4. QED
        BY <3>2, <3>3 DEF s
    <2>8. /\ DecisionLog(i)' = Append(DecisionLog(i), Len(DecisionLog(i)))
          /\ \A j \in Nat \ {0} : j # i => DecisionLog(j)' = DecisionLog(j)
      <3>1. Len(DecisionLog(i)) = Decisions(i)
        BY <2>4
      <3>2. QED
        BY <2>4, <2>6, <2>7, <3>1, ZenonT(30)
    <2>9. L' = [L EXCEPT ![i] = Append(L[i], Len(L[i]))]
      BY <2>8
    <2>10. CandidateDecisions!Extend(i, Len(L[i]))
      BY <2>9 DEF CandidateDecisions!Extend
    <2>11. QED
      BY <2>10 DEF CandidateDecisions!Next
  <1>3. QED
    BY <1>1, <1>2, ReviewInvariance, PTL DEF ReviewSpec, CandidateDecisions!Spec
-----------------------------------------------------------------------------
(***************************************************************************)
(* ReviewChat                                                              *)
(***************************************************************************)
LEMMA LessIsWellFounded == IsWellFoundedOn({ss \in Nat \X Nat : ss[1] < ss[2]}, Nat)
  <1>1. OpToRel(<, Nat) = {ss \in Nat \X Nat : ss[1] < ss[2]}
    BY DEF OpToRel
  <1> QED
    BY <1>1, NatLessThanWellFounded

(* A set of numbers with a bound has a largest one.                        *)
LEMMA LargestOf ==
  ASSUME NEW n \in Nat, NEW T, T \subseteq 1..n, T # {}
  PROVE  \E x \in T : \A y \in T : y <= x
  <1> DEFINE R == {ss \in Nat \X Nat : ss[1] < ss[2]}
             U == {n - t : t \in T}
  <1>1. IsWellFoundedOn(R, Nat)
    BY LessIsWellFounded
  <1>2. \A x, y \in Nat : x < y => <<x, y>> \in R
    OBVIOUS
  <1>3. U \subseteq Nat /\ U # {}
    <2>1. ASSUME NEW t \in T PROVE n - t \in Nat
      <3>1. t \in 1..n
        OBVIOUS
      <3> QED
        BY <3>1, SMT
    <2> QED
      BY <2>1
  <1> HIDE DEF R
  <1>4. PICK x \in U : \A y \in U : ~(<<y, x>> \in R)
    <2> HIDE DEF U
    <2> QED
      BY <1>1, <1>3, WFMin
  <1>5. PICK t \in T : x = n - t
    OBVIOUS
  <1>6. ASSUME NEW y \in T PROVE y <= t
    <2>1. y \in Nat /\ t \in Nat /\ n - y \in Nat /\ x \in Nat
      BY <1>5, SMT
    <2>2. ~(<<n - y, x>> \in R)
      BY <1>4
    <2>3. ~(n - y < x)
      BY <1>2, <2>1, <2>2
    <2> QED
      BY <1>5, <2>1, <2>3, SMT
  <1> QED
    BY <1>6

(* Rows as the actions write them.                                         *)
RunRow == [parent : Nat, depth : 0..LineageLimit, status : {"queued", "completed"},
           request : {"none", "queued", "scheduled", "schedule_failed"}, live : BOOLEAN, by : Nat]
ReviewRow == [by : Nat, after : Nat]
DocumentRow == [parent : Nat, by : Nat]
ContextType == Nat \X Nat \X Nat
ProposalRow == [status : ProposalStatuses, key : MessageKeys, message : ChatMessages,
                context : ContextType, base : Nat, latest : Nat, due : BOOLEAN,
                blocked : BOOLEAN, child : Nat]
Requests ==
  {Idle} \cup [step : {"locked"}, key : MessageKeys, message : ChatMessages]
    \cup [step : {"draft"}, key : MessageKeys, message : ChatMessages, context : ContextType,
          base : Nat, latest : Nat]
    \cup [step : {"confirm", "persist"}, proposal : Nat]
    \cup [step : {"schedule"}, run : Nat]
ChatData ==
  /\ runs \in Seq(RunRow) /\ Len(runs) >= 1 /\ runs[1].status = "completed"
  /\ reviews \in Seq(Seq(ReviewRow)) /\ Len(reviews) = Len(runs)
  /\ documents \in Seq(DocumentRow) /\ proposals \in Seq(ProposalRow)
  /\ thread.open => documents # <<>>
  /\ thread \in [open : BOOLEAN, context : ContextType \cup {<<>>}]
  /\ messages \in [MessageKeys -> BOOLEAN] /\ client \in [Clients -> Requests]
  /\ \A r \in 1..Len(runs) : runs[r].parent < r
  /\ Len(documents) <= MaxDocuments

(* Who holds which lock.                                                   *)
HasThread(c) == client[c].step \in {"locked", "draft", "persist"}
HasProposal(c) == client[c].step \in {"confirm", "persist"}
ChatLocks ==
  /\ \A c, d \in Clients : HasThread(c) /\ HasThread(d) => c = d
  /\ \A c, d \in Clients :
       HasProposal(c) /\ HasProposal(d) /\ client[c].proposal = client[d].proposal => c = d
  /\ \A c \in Clients : HasProposal(c) => client[c].proposal \in Awaiting
(* Under the thread lock a draft's message is new, and the proposals it    *)
(* makes stale are not being confirmed; a review is recorded where the     *)
(* confirmation found it missing.                                          *)
Drafted(c) ==
  /\ ~messages[client[c].key] /\ client[c].context[1] \in DOMAIN runs
  /\ client[c].latest <= Len(documents)
  /\ Refreshes(client[c].context) => \A p \in Awaiting : ~Locked(p)
Persisted(c) ==
  LET q == proposals[client[c].proposal] IN Len(reviews[q.context[1]]) = q.context[2]
ChatSteps ==
  /\ \A c \in Clients : client[c].step = "draft" => Drafted(c)
  /\ \A c \in Clients : client[c].step = "persist" => Persisted(c)
  /\ \A c \in Clients : client[c].step = "schedule" => client[c].run \in DOMAIN runs
ChildrenExist ==
  \A p \in DOMAIN proposals : proposals[p].child # None => proposals[p].child \in DOMAIN runs
ChatKeys ==
  /\ OneProposalPerMessage
  /\ \A p \in DOMAIN proposals : messages[proposals[p].key] /\ proposals[p].context[1] \in DOMAIN runs
  /\ \A p \in Awaiting : ~proposals[p].blocked
  /\ ChildrenExist
(* What a proposal leaves behind, and that nobody else does.               *)
Executed(p) == proposals[p].status = "executed"
RevisedBy(p) == Executed(p) /\ Revises(proposals[p].message) /\ ~proposals[p].blocked
RerunBy(p) == Executed(p) /\ Reruns(proposals[p].message) /\ ~proposals[p].blocked
ReviewedBy(p) == Executed(p) /\ (Revises(proposals[p].message) => ~proposals[p].blocked)
ReviewOf(p) == <<proposals[p].context[1], proposals[p].context[2] + 1>>
ReviewEffects ==
  /\ \A r \in DOMAIN reviews : \A i \in DOMAIN reviews[r] :
       reviews[r][i].by # None => reviews[r][i].by \in DOMAIN proposals
  /\ \A p \in DOMAIN proposals, r \in DOMAIN reviews : \A i \in DOMAIN reviews[r] :
       reviews[r][i].by = p => ReviewedBy(p) /\ ReviewOf(p) = <<r, i>>
  /\ \A p \in DOMAIN proposals : ReviewedBy(p) =>
       \E r \in DOMAIN reviews : \E i \in DOMAIN reviews[r] :
         reviews[r][i].by = p /\ ReviewOf(p) = <<r, i>>
DocumentEffects ==
  /\ \A i \in DOMAIN documents : documents[i].by # None => documents[i].by \in DOMAIN proposals
  /\ \A p \in DOMAIN proposals, i \in DOMAIN documents :
       documents[i].by = p => RevisedBy(p) /\ i = proposals[p].latest + 1
  /\ \A p \in DOMAIN proposals : RevisedBy(p) =>
       \E i \in DOMAIN documents : documents[i].by = p /\ i = proposals[p].latest + 1
RunEffects ==
  /\ \A r \in DOMAIN runs : runs[r].by # None => runs[r].by \in DOMAIN proposals
  /\ \A p \in DOMAIN proposals, r \in DOMAIN runs :
       runs[r].by = p => RerunBy(p) /\ r = proposals[p].child
  /\ \A p \in DOMAIN proposals : RerunBy(p) =>
       \E r \in DOMAIN runs : runs[r].by = p /\ r = proposals[p].child
ChatInv ==
  /\ ChatData /\ ChatLocks /\ ChatSteps /\ ChatKeys
  /\ ReviewEffects /\ DocumentEffects /\ RunEffects /\ ScheduledIsLive
LEMMA LatestRunIs ==
  ASSUME ChatData
  PROVE  LatestRun \in DOMAIN runs /\ LatestRun \in 1..Len(runs) /\ runs[LatestRun].status = "completed"
  <1> DEFINE T == {r \in DOMAIN runs : runs[r].status = "completed"}
  <1>1. /\ Len(runs) \in Nat /\ DOMAIN runs = 1..Len(runs) /\ Len(runs) >= 1
        /\ runs[1].status = "completed"
    BY DEF ChatData
  <1>2. T \subseteq 1..Len(runs) /\ T # {}
    BY <1>1, SMT
  <1>3. \E x \in T : \A y \in T : y <= x
    <2> HIDE DEF T
    <2> QED
      BY <1>1, <1>2, LargestOf
  <1>4. \E r \in DOMAIN runs :
          /\ runs[r].status = "completed"
          /\ \A s \in DOMAIN runs : runs[s].status = "completed" => s <= r
    BY <1>3
  <1> QED
    BY <1>1, <1>4 DEF LatestRun

(* What the fields of a request are at each step.                          *)
LEMMA RequestIs ==
  ASSUME ChatData, NEW c \in Clients
  PROVE  /\ client[c] \in Requests
         /\ client[c].step \in {"locked", "draft"} =>
              client[c].key \in MessageKeys /\ client[c].message \in ChatMessages
         /\ client[c].step = "draft" =>
              client[c].context \in ContextType /\ client[c].base \in Nat /\ client[c].latest \in Nat
         /\ client[c].step \in {"confirm", "persist"} => client[c].proposal \in Nat
         /\ client[c].step = "schedule" => client[c].run \in Nat
  <1>1. client[c] \in Requests
    BY DEF ChatData
  <1> QED
    BY <1>1, SMT DEF Requests, Idle
LEMMA RequestsAre ==
  /\ Idle \in Requests /\ Idle.step = "idle"
  /\ \A k \in MessageKeys, m \in ChatMessages :
       [step |-> "locked", key |-> k, message |-> m] \in Requests
  /\ \A k \in MessageKeys, m \in ChatMessages, x \in ContextType, b, l \in Nat :
       [step |-> "draft", key |-> k, message |-> m, context |-> x, base |-> b, latest |-> l]
         \in Requests
  /\ \A s \in {"confirm", "persist"}, p \in Nat : [step |-> s, proposal |-> p] \in Requests
  /\ \A r \in Nat : [step |-> "schedule", run |-> r] \in Requests
  BY SMT DEF Requests, Idle

(* Steps that add proposals or move them on without acting on them.        *)
ProposalsMove ==
  /\ proposals' \in Seq(ProposalRow) /\ Len(proposals) <= Len(proposals')
  /\ \A p \in 1..Len(proposals) :
       /\ proposals'[p].key = proposals[p].key /\ proposals'[p].message = proposals[p].message
       /\ proposals'[p].context = proposals[p].context
       /\ proposals'[p].latest = proposals[p].latest
       /\ proposals'[p].child = proposals[p].child
       /\ \/ /\ proposals'[p].status = proposals[p].status
             /\ proposals'[p].blocked = proposals[p].blocked
          \/ /\ proposals[p].status = "awaiting_confirmation"
             /\ \/ proposals'[p].status \in {"stale", "expired", "cancelled"}
                \/ /\ proposals'[p].status = "executed" /\ proposals'[p].blocked
                   /\ Revises(proposals[p].message)
  /\ \A p \in 1..Len(proposals') : p \notin 1..Len(proposals) =>
       proposals'[p].status = "awaiting_confirmation" /\ ~proposals'[p].blocked
LEMMA NoMove ==
  ASSUME ChatData, UNCHANGED proposals
  PROVE  ProposalsMove
  BY SMT DEF ChatData, ProposalsMove
LEMMA MovedAre ==
  ASSUME ChatData, ProposalsMove
  PROVE  /\ Len(proposals) \in Nat /\ DOMAIN proposals = 1..Len(proposals)
         /\ Len(proposals') \in Nat /\ DOMAIN proposals' = 1..Len(proposals')
         /\ \A p \in DOMAIN proposals :
              /\ p \in DOMAIN proposals'
              /\ ReviewedBy(p)' = ReviewedBy(p) /\ RevisedBy(p)' = RevisedBy(p)
              /\ RerunBy(p)' = RerunBy(p) /\ ReviewOf(p)' = ReviewOf(p)
              /\ proposals'[p].latest = proposals[p].latest
              /\ proposals'[p].child = proposals[p].child
         /\ \A p \in DOMAIN proposals' :
              ReviewedBy(p)' \/ RevisedBy(p)' \/ RerunBy(p)' => p \in DOMAIN proposals
         /\ \A p \in Awaiting' : p \in DOMAIN proposals => p \in Awaiting
  <1>1. /\ Len(proposals) \in Nat /\ DOMAIN proposals = 1..Len(proposals)
        /\ Len(proposals') \in Nat /\ DOMAIN proposals' = 1..Len(proposals')
    BY DEF ChatData, ProposalsMove
  <1>2. ASSUME NEW p \in DOMAIN proposals
        PROVE  /\ p \in DOMAIN proposals'
               /\ ReviewedBy(p)' = ReviewedBy(p) /\ RevisedBy(p)' = RevisedBy(p)
               /\ RerunBy(p)' = RerunBy(p) /\ ReviewOf(p)' = ReviewOf(p)
               /\ proposals'[p].latest = proposals[p].latest
               /\ proposals'[p].child = proposals[p].child
               /\ p \in Awaiting' => p \in Awaiting
    <2>1. p \in DOMAIN proposals' /\ p \in 1..Len(proposals)
      BY <1>1, SMT DEF ProposalsMove
    <2>2. /\ proposals'[p].message = proposals[p].message
          /\ proposals'[p].context = proposals[p].context
          /\ proposals'[p].latest = proposals[p].latest
          /\ proposals'[p].child = proposals[p].child
      BY <2>1, SMT DEF ProposalsMove
    <2>3. CASE proposals'[p].status = proposals[p].status /\ proposals'[p].blocked = proposals[p].blocked
      BY <2>1, <2>2, <2>3, Zenon DEF ReviewedBy, RevisedBy, RerunBy, ReviewOf, Awaiting, Executed
    <2>4. CASE /\ proposals[p].status = "awaiting_confirmation"
               /\ \/ proposals'[p].status \in {"stale", "expired", "cancelled"}
                  \/ /\ proposals'[p].status = "executed" /\ proposals'[p].blocked
                     /\ Revises(proposals[p].message)
      <3>1. ~Executed(p) /\ (Executed(p)' => proposals'[p].blocked /\ Revises(proposals[p].message))
            /\ proposals'[p].status # "awaiting_confirmation"
        BY <2>4 DEF Executed
      <3> QED
        BY <2>1, <2>2, <3>1, Zenon DEF ReviewedBy, RevisedBy, RerunBy, ReviewOf, Awaiting
    <2> QED
      BY <2>1, <2>3, <2>4, SMT DEF ProposalsMove
  <1>3. ASSUME NEW p \in DOMAIN proposals', p \notin DOMAIN proposals
        PROVE  ~ReviewedBy(p)' /\ ~RevisedBy(p)' /\ ~RerunBy(p)'
    BY <1>1, <1>3, SMT DEF ProposalsMove, ReviewedBy, RevisedBy, RerunBy, Executed
  <1> QED
    BY <1>1, <1>2, <1>3, Zenon

(* Where they leave the rows alone, or add rows of nobody's.               *)
LEMMA ReviewEffectsKept ==
  ASSUME ChatData, ProposalsMove, ReviewEffects,
         DOMAIN reviews' = DOMAIN reviews,
         \A r \in DOMAIN reviews :
           /\ DOMAIN reviews[r] \subseteq DOMAIN reviews'[r]
           /\ \A i \in DOMAIN reviews[r] : reviews'[r][i] = reviews[r][i]
           /\ \A i \in DOMAIN reviews'[r] : i \notin DOMAIN reviews[r] => reviews'[r][i].by = None
  PROVE  ReviewEffects'
  <1>0. \A p \in DOMAIN proposals : p # None
    BY MovedAre, SMT DEF None
  <1>1. ASSUME NEW r \in DOMAIN reviews', NEW i \in DOMAIN reviews'[r], reviews'[r][i].by # None
        PROVE  reviews'[r][i].by \in DOMAIN proposals' /\ r \in DOMAIN reviews
               /\ i \in DOMAIN reviews[r] /\ reviews'[r][i] = reviews[r][i]
               /\ reviews[r][i].by \in DOMAIN proposals
    <2>1. i \in DOMAIN reviews[r] /\ reviews'[r][i] = reviews[r][i] /\ r \in DOMAIN reviews
      BY <1>1, Zenon
    <2>2. reviews[r][i].by \in DOMAIN proposals
      BY <1>1, <2>1, Zenon DEF ReviewEffects
    <2> QED
      BY <2>1, <2>2, MovedAre, Zenon
  <1>2. ASSUME NEW p \in DOMAIN proposals', NEW r \in DOMAIN reviews',
               NEW i \in DOMAIN reviews'[r], reviews'[r][i].by = p
        PROVE  ReviewedBy(p)' /\ ReviewOf(p)' = <<r, i>>
    <2>0. p # None
      BY MovedAre, SMT DEF None
    <2>1. p \in DOMAIN proposals /\ reviews[r][i].by = p /\ r \in DOMAIN reviews
          /\ i \in DOMAIN reviews[r]
      BY <1>1, <1>2, <2>0, Zenon
    <2>2. ReviewedBy(p) /\ ReviewOf(p) = <<r, i>>
      BY <2>1, Zenon DEF ReviewEffects
    <2> QED
      BY <2>1, <2>2, MovedAre, Zenon
  <1>3. ASSUME NEW p \in DOMAIN proposals', ReviewedBy(p)'
        PROVE  \E r \in DOMAIN reviews' : \E i \in DOMAIN reviews'[r] :
                 reviews'[r][i].by = p /\ ReviewOf(p)' = <<r, i>>
    <2>1. p \in DOMAIN proposals /\ ReviewedBy(p) /\ ReviewOf(p)' = ReviewOf(p)
      BY <1>3, MovedAre, Zenon
    <2>2. PICK r \in DOMAIN reviews : \E i \in DOMAIN reviews[r] :
            reviews[r][i].by = p /\ ReviewOf(p) = <<r, i>>
      BY <2>1, Zenon DEF ReviewEffects
    <2>3. PICK i \in DOMAIN reviews[r] : reviews[r][i].by = p /\ ReviewOf(p) = <<r, i>>
      BY <2>2
    <2>4. r \in DOMAIN reviews' /\ i \in DOMAIN reviews'[r] /\ reviews'[r][i] = reviews[r][i]
      BY <2>2, <2>3, Zenon
    <2> QED
      BY <2>1, <2>3, <2>4, Zenon
  <1> QED
    BY <1>1, <1>2, <1>3, Zenon DEF ReviewEffects
LEMMA DocumentEffectsKept ==
  ASSUME ChatData, ProposalsMove, DocumentEffects, DOMAIN documents \subseteq DOMAIN documents',
         \A i \in DOMAIN documents : documents'[i] = documents[i],
         \A i \in DOMAIN documents' : i \notin DOMAIN documents => documents'[i].by = None
  PROVE  DocumentEffects'
  <1>1. ASSUME NEW i \in DOMAIN documents', documents'[i].by # None
        PROVE  documents'[i].by \in DOMAIN proposals' /\ i \in DOMAIN documents
               /\ documents'[i] = documents[i] /\ documents[i].by \in DOMAIN proposals
    <2>1. i \in DOMAIN documents /\ documents'[i] = documents[i]
      BY <1>1, Zenon
    <2>2. documents[i].by \in DOMAIN proposals
      BY <1>1, <2>1, Zenon DEF DocumentEffects
    <2> QED
      BY <2>1, <2>2, MovedAre, Zenon
  <1>2. ASSUME NEW p \in DOMAIN proposals', NEW i \in DOMAIN documents', documents'[i].by = p
        PROVE  RevisedBy(p)' /\ i = proposals'[p].latest + 1
    <2>0. p # None
      BY MovedAre, SMT DEF None
    <2>1. p \in DOMAIN proposals /\ documents[i].by = p /\ i \in DOMAIN documents
      BY <1>1, <1>2, <2>0, Zenon
    <2>2. RevisedBy(p) /\ i = proposals[p].latest + 1
      BY <2>1, Zenon DEF DocumentEffects
    <2> QED
      BY <2>1, <2>2, MovedAre, Zenon
  <1>3. ASSUME NEW p \in DOMAIN proposals', RevisedBy(p)'
        PROVE  \E i \in DOMAIN documents' : documents'[i].by = p /\ i = proposals'[p].latest + 1
    <2>1. p \in DOMAIN proposals /\ RevisedBy(p) /\ proposals'[p].latest = proposals[p].latest
      BY <1>3, MovedAre, Zenon
    <2>2. PICK i \in DOMAIN documents : documents[i].by = p /\ i = proposals[p].latest + 1
      BY <2>1, Zenon DEF DocumentEffects
    <2>3. i \in DOMAIN documents' /\ documents'[i] = documents[i]
      BY <2>2, Zenon
    <2> QED
      BY <2>1, <2>2, <2>3, Zenon
  <1> QED
    BY <1>1, <1>2, <1>3, Zenon DEF DocumentEffects
LEMMA RunEffectsKept ==
  ASSUME ChatData, ProposalsMove, RunEffects, DOMAIN runs' = DOMAIN runs,
         \A r \in DOMAIN runs : runs'[r].by = runs[r].by
  PROVE  RunEffects'
  <1>1. ASSUME NEW r \in DOMAIN runs', runs'[r].by # None
        PROVE  runs'[r].by \in DOMAIN proposals' /\ r \in DOMAIN runs
               /\ runs'[r].by = runs[r].by /\ runs[r].by \in DOMAIN proposals
    <2>1. r \in DOMAIN runs /\ runs'[r].by = runs[r].by
      BY <1>1, Zenon
    <2>2. runs[r].by \in DOMAIN proposals
      BY <1>1, <2>1, Zenon DEF RunEffects
    <2> QED
      BY <2>1, <2>2, MovedAre, Zenon
  <1>2. ASSUME NEW p \in DOMAIN proposals', NEW r \in DOMAIN runs', runs'[r].by = p
        PROVE  RerunBy(p)' /\ r = proposals'[p].child
    <2>0. p # None
      BY MovedAre, SMT DEF None
    <2>1. p \in DOMAIN proposals /\ runs[r].by = p /\ r \in DOMAIN runs
      BY <1>1, <1>2, <2>0, Zenon
    <2>2. RerunBy(p) /\ r = proposals[p].child
      BY <2>1, Zenon DEF RunEffects
    <2> QED
      BY <2>1, <2>2, MovedAre, Zenon
  <1>3. ASSUME NEW p \in DOMAIN proposals', RerunBy(p)'
        PROVE  \E r \in DOMAIN runs' : runs'[r].by = p /\ r = proposals'[p].child
    <2>1. p \in DOMAIN proposals /\ RerunBy(p) /\ proposals'[p].child = proposals[p].child
      BY <1>3, MovedAre, Zenon
    <2>2. PICK r \in DOMAIN runs : runs[r].by = p /\ r = proposals[p].child
      BY <2>1, Zenon DEF RunEffects
    <2>3. r \in DOMAIN runs' /\ runs'[r].by = runs[r].by
      BY <2>2, Zenon
    <2> QED
      BY <2>1, <2>2, <2>3, Zenon
  <1> QED
    BY <1>1, <1>2, <1>3, Zenon DEF RunEffects
(* A new proposal is awaiting, one that is awaiting was before.            *)
LEMMA KeysKept ==
  ASSUME ChatData, ProposalsMove, ChatKeys, Len(proposals') = Len(proposals),
         DOMAIN runs \subseteq DOMAIN runs', UNCHANGED messages
  PROVE  ChatKeys'
  <1>1. DOMAIN proposals' = DOMAIN proposals /\ DOMAIN proposals = 1..Len(proposals)
    BY MovedAre, SMT
  <1>2. ASSUME NEW p \in DOMAIN proposals
        PROVE  /\ proposals'[p].key = proposals[p].key
               /\ proposals'[p].context = proposals[p].context
               /\ proposals'[p].status = "awaiting_confirmation" =>
                    /\ proposals[p].status = "awaiting_confirmation"
                    /\ proposals'[p].blocked = proposals[p].blocked
    BY <1>1, <1>2, SMT DEF ProposalsMove
  <1>3. OneProposalPerMessage'
    BY <1>1, <1>2, Zenon DEF ChatKeys, OneProposalPerMessage
  <1>4. \A p \in DOMAIN proposals : messages[proposals[p].key] /\ proposals[p].context[1] \in DOMAIN runs'
    BY Zenon DEF ChatKeys
  <1>5. \A p \in Awaiting' : ~proposals'[p].blocked
    BY <1>1, <1>2, Zenon DEF ChatKeys, Awaiting
  <1>6. ChildrenExist'
    BY <1>1, MovedAre, Zenon DEF ChatKeys, ChildrenExist
  <1> QED
    BY <1>1, <1>2, <1>3, <1>4, <1>5, <1>6, Zenon DEF ChatKeys

(* Clients that give up what they hold.                                    *)
Releases == \A d \in Clients : client'[d] = client[d] \/ client'[d].step \in {"idle", "schedule"}
LEMMA LocksKept ==
  ASSUME ChatLocks, Releases,
         \A d \in Clients : HasProposal(d) /\ client'[d] = client[d] => client[d].proposal \in Awaiting'
  PROVE  ChatLocks'
  <1>1. ASSUME NEW d \in Clients, HasThread(d)' \/ HasProposal(d)'
        PROVE  client'[d] = client[d]
    BY <1>1 DEF HasThread, HasProposal, Releases
  <1>2. \A d \in Clients : HasThread(d)' => HasThread(d)
    BY <1>1 DEF HasThread
  <1>3. \A d \in Clients : HasProposal(d)' => HasProposal(d) /\ client'[d].proposal = client[d].proposal
    BY <1>1 DEF HasProposal
  <1>4. \A d \in Clients : HasProposal(d)' => client'[d].proposal \in Awaiting'
    BY <1>1, <1>3
  <1> QED
    BY <1>2, <1>3, <1>4, Zenon DEF ChatLocks

LEMMA StepsKept ==
  ASSUME ChatData, ChatSteps, Releases,
         DOMAIN runs \subseteq DOMAIN runs', UNCHANGED messages, Len(documents) <= Len(documents'),
         \A d \in Clients : client'[d].step = "schedule" => client'[d].run \in DOMAIN runs',
         \A d \in Clients : client'[d].step = "draft" =>
           (Refreshes(client[d].context)' => \A p \in Awaiting' : ~Locked(p)'),
         \A d \in Clients : client[d].step = "persist" /\ client'[d] = client[d] => Persisted(d)',
         documents' \in Seq(DocumentRow)
  PROVE  ChatSteps'
  <1>1. ASSUME NEW d \in Clients, client'[d].step = "draft" PROVE Drafted(d)'
    <2>1. client'[d] = client[d] /\ client[d].step = "draft"
      BY <1>1 DEF Releases
    <2>2. Drafted(d) /\ client[d].latest \in Nat
      BY <2>1, RequestIs DEF ChatSteps
    <2>3. ~messages[client[d].key] /\ client[d].context[1] \in DOMAIN runs' /\ client[d].latest <= Len(documents)
      BY <2>2 DEF Drafted
    <2>4. client[d].latest <= Len(documents')
      <3>1. Len(documents) \in Nat /\ Len(documents') \in Nat
        BY DEF ChatData
      <3> QED
        BY <2>2, <2>3, <3>1, SMT
    <2> QED
      BY <1>1, <2>1, <2>3, <2>4, Zenon DEF Drafted
  <1>2. ASSUME NEW d \in Clients, client'[d].step = "persist" PROVE Persisted(d)'
    BY <1>2 DEF Releases
  <1> QED
    BY <1>1, <1>2, Zenon DEF ChatSteps

LEMMA ClientSteps ==
  ASSUME ChatInv, UNCHANGED <<runs, reviews, documents, thread, messages, proposals>>,
         client' \in [Clients -> Requests], ChatLocks', ChatSteps'
  PROVE  ChatInv'
  <1>1. ChatData' /\ ChatKeys' /\ ScheduledIsLive'
    BY Zenon DEF ChatInv, ChatData, ChatKeys, OneProposalPerMessage, Awaiting, ChildrenExist,
      ScheduledIsLive
  <1>2. ReviewEffects' /\ DocumentEffects' /\ RunEffects'
    BY NoMove, ReviewEffectsKept, DocumentEffectsKept, RunEffectsKept, Zenon DEF ChatInv
  <1> QED
    BY <1>1, <1>2, Zenon DEF ChatInv
-----------------------------------------------------------------------------
LEMMA ClientBecomes ==
  ASSUME ChatData, NEW c \in Clients, NEW q \in Requests, client' = [client EXCEPT ![c] = q]
  PROVE  /\ client' \in [Clients -> Requests] /\ client'[c] = q
         /\ \A d \in Clients : d # c => client'[d] = client[d]
         /\ q.step \in {"idle", "schedule"} => Releases
  BY DEF ChatData, Releases
LEMMA Answered ==
  ASSUME ChatData, NEW c \in Clients, Answers(c)
  PROVE  /\ client' \in [Clients -> Requests] /\ client'[c].step = "idle"
         /\ \A d \in Clients : d # c => client'[d] = client[d]
         /\ Releases
  BY ClientBecomes, RequestsAre DEF Answers

(* Client c takes a lock nobody holds, or goes on under the one it has.    *)
LEMMA LocksTaken ==
  ASSUME ChatLocks, NEW c \in Clients, \A d \in Clients : d # c => client'[d] = client[d],
         HasThread(c)' => \A d \in Clients : HasThread(d) => d = c,
         HasProposal(c)' => /\ client'[c].proposal \in Awaiting
                            /\ \A d \in Clients :
                                 HasProposal(d) /\ client[d].proposal = client'[c].proposal => d = c,
         UNCHANGED proposals
  PROVE  ChatLocks'
  <1>1. \A d \in Clients : d # c => /\ HasThread(d)' = HasThread(d) /\ HasProposal(d)' = HasProposal(d)
                                    /\ client'[d] = client[d]
    BY Zenon DEF HasThread, HasProposal
  <1>2. Awaiting' = Awaiting
    BY DEF Awaiting
  <1>3. \A d, e \in Clients : HasThread(d)' /\ HasThread(e)' => d = e
    BY <1>1, Zenon DEF ChatLocks
  <1>4. \A d, e \in Clients :
          HasProposal(d)' /\ HasProposal(e)' /\ client'[d].proposal = client'[e].proposal => d = e
    BY <1>1, Zenon DEF ChatLocks
  <1>5. \A d \in Clients : HasProposal(d)' => client'[d].proposal \in Awaiting
    BY <1>1, Zenon DEF ChatLocks
  <1> QED
    BY <1>2, <1>3, <1>4, <1>5, Zenon DEF ChatLocks
LEMMA StepsTaken ==
  ASSUME ChatData, ChatSteps, NEW c \in Clients, \A d \in Clients : d # c => client'[d] = client[d],
         UNCHANGED <<runs, reviews, documents, thread, messages, proposals>>,
         client'[c].step = "draft" => Drafted(c)', client'[c].step = "persist" => Persisted(c)',
         client'[c].step = "schedule" => client'[c].run \in DOMAIN runs,
         \A p \in Awaiting, d \in Clients :
           /\ client[d].step = "draft" /\ Refreshes(client[d].context)
           /\ HasProposal(c)' /\ client'[c].proposal = p
           => HasProposal(c) /\ client[c].proposal = p
  PROVE  ChatSteps'
  <1>1. ASSUME NEW d \in Clients, d # c, client'[d].step = "draft" PROVE Drafted(d)'
    <2>1. client'[d] = client[d] /\ Drafted(d) /\ client[d].step = "draft"
      BY <1>1 DEF ChatSteps
    <2>2. ASSUME Refreshes(client[d].context), NEW p \in Awaiting, NEW e \in Clients,
                 HasProposal(e)', client'[e].proposal = p
          PROVE  HasProposal(e) /\ client[e].proposal = p
      BY <2>1, <2>2, Zenon DEF HasProposal
    <2>3. ASSUME Refreshes(client[d].context), NEW p \in Awaiting PROVE ~Locked(p)'
      <3>1. ~Locked(p)
        BY <2>1, <2>3, Zenon DEF Drafted
      <3>2. \A e \in Clients : ~(HasProposal(e)' /\ client'[e].proposal = p)
        BY <2>2, <2>3, <3>1, Zenon DEF Locked, HasProposal
      <3> QED
        BY <3>2, Zenon DEF Locked, HasProposal
    <2>4. Awaiting' = Awaiting /\ (Refreshes(client[d].context)' => Refreshes(client[d].context))
      BY <2>1 DEF Awaiting, Refreshes
    <2> QED
      BY <2>1, <2>3, <2>4, Zenon DEF Drafted
  <1>2. ASSUME NEW d \in Clients, d # c, client'[d].step = "persist" PROVE Persisted(d)'
    BY <1>2 DEF ChatSteps, Persisted
  <1>3. ASSUME NEW d \in Clients, d # c, client'[d].step = "schedule"
        PROVE  client'[d].run \in DOMAIN runs'
    BY <1>3 DEF ChatSteps
  <1> QED
    BY <1>1, <1>2, <1>3, Zenon DEF ChatSteps

LEMMA LockThreadInv ==
  ASSUME ChatInv, NEW c \in Clients, NEW k \in MessageKeys, NEW m \in ChatMessages, LockThread(c, k, m)
  PROVE  ChatInv'
  <1> DEFINE q == [step |-> "locked", key |-> k, message |-> m]
  <1>0. ChatData /\ ChatLocks /\ ChatSteps
    BY DEF ChatInv
  <1>1. /\ client' = [client EXCEPT ![c] = q] /\ ~ThreadLocked /\ q.step = "locked" /\ q \in Requests
        /\ UNCHANGED <<runs, reviews, documents, thread, messages, proposals>>
    BY RequestsAre, Zenon DEF LockThread
  <1> HIDE DEF q
  <1>2. /\ client' \in [Clients -> Requests] /\ client'[c].step = "locked"
        /\ \A d \in Clients : d # c => client'[d] = client[d]
    BY <1>0, <1>1, ClientBecomes
  <1>3. ChatLocks'
    BY <1>0, <1>1, <1>2, LocksTaken DEF HasThread, HasProposal, ThreadLocked
  <1>4. ~(client'[c].step = "draft") /\ ~(client'[c].step = "persist") /\ ~(client'[c].step = "schedule")
        /\ ~HasProposal(c)'
    BY <1>2 DEF HasProposal
  <1>5. ChatSteps'
    BY <1>0, <1>1, <1>2, <1>4, StepsTaken
  <1> QED
    BY <1>1, <1>2, <1>3, <1>5, ClientSteps

LEMMA ReadContextInv ==
  ASSUME ChatInv, NEW c \in Clients, ReadContext(c)
  PROVE  ChatInv'
  <1>0. ChatData /\ ChatLocks /\ ChatSteps
    BY DEF ChatInv
  <1>1. /\ client[c].step = "locked"
        /\ UNCHANGED <<runs, reviews, documents, thread, messages, proposals>>
    BY DEF ReadContext, At
  <1>2. CASE Answers(c)
    <2>1. ChatLocks'
      BY <1>0, <1>1, <1>2, Answered, LocksKept DEF ChatLocks, Awaiting
    <2> QED
      BY <1>0, <1>1, <1>2, <2>1, Answered, ClientSteps, StepsTaken DEF HasProposal
  <1>3. ASSUME NEW base \in DOMAIN documents, ~Seen(client[c].key), RowsFree(Context(LatestRun)),
               client' = [client EXCEPT ![c] =
                 [step |-> "draft", key |-> client[c].key, message |-> client[c].message,
                  context |-> Context(LatestRun), base |-> base, latest |-> Len(documents)]]
        PROVE  ChatInv'
    <2> DEFINE q == [step |-> "draft", key |-> client[c].key, message |-> client[c].message,
                     context |-> Context(LatestRun), base |-> base, latest |-> Len(documents)]
    <2>1. /\ Context(LatestRun) \in ContextType /\ Context(LatestRun)[1] \in DOMAIN runs
          /\ base \in Nat /\ Len(documents) \in Nat
      <3>1. LatestRun \in DOMAIN runs /\ LatestRun \in 1..Len(runs)
        BY <1>0, LatestRunIs
      <3>2. Len(reviews[LatestRun]) \in Nat
        <4>1. reviews \in Seq(Seq(ReviewRow)) /\ LatestRun \in 1..Len(reviews)
          BY <1>0, <3>1 DEF ChatData
        <4>2. reviews[LatestRun] \in Seq(ReviewRow)
          BY <4>1
        <4> QED
          BY <4>2
      <3>3. documents \in Seq(DocumentRow) /\ base \in 1..Len(documents) /\ Len(documents) \in Nat
            /\ Len(runs) \in Nat
        BY <1>0 DEF ChatData
      <3> HIDE DEF LatestRun
      <3> QED
        BY <3>1, <3>2, <3>3, SMT DEF Context, ContextType
    <2>2. client[c].key \in MessageKeys /\ client[c].message \in ChatMessages
      BY <1>0, <1>1, RequestIs
    <2>3. q \in Requests /\ q.step = "draft" /\ q.context = Context(LatestRun)
          /\ q.key = client[c].key /\ q.latest = Len(documents)
      BY <2>1, <2>2, RequestsAre, Zenon
    <2>4. client' = [client EXCEPT ![c] = q]
      BY <1>3
    <2> HIDE DEF q
    <2>5. client' \in [Clients -> Requests] /\ client'[c] = q
          /\ \A d \in Clients : d # c => client'[d] = client[d]
      BY <1>0, <2>3, <2>4, ClientBecomes
    <2>6. ~HasProposal(c)' /\ ~HasProposal(c) /\ HasThread(c)
      BY <1>1, <2>3, <2>5 DEF HasProposal, HasThread
    <2>7. ChatLocks'
      BY <1>0, <1>1, <2>5, <2>6, LocksTaken DEF ChatLocks
    <2>8. Drafted(c)'
      <3>1. \A p \in Awaiting : Locked(p)' => Locked(p)
        BY <2>5, <2>6, Zenon DEF Locked, HasProposal
      <3>0. PICK x : x = q.context
        OBVIOUS
      <3>2. Awaiting' = Awaiting /\ (Refreshes(x)' = Refreshes(x)) /\ client'[c].context = x
        BY <1>1, <2>5, <3>0, Zenon DEF Awaiting, Refreshes
      <3>3. Refreshes(x) => \A p \in Awaiting : ~Locked(p)
        BY <1>3, <2>3, <3>0 DEF RowsFree
      <3>4. ~messages'[q.key] /\ q.context[1] \in DOMAIN runs' /\ q.latest <= Len(documents')
        BY <1>1, <1>3, <2>1, <2>3, SMT DEF Seen
      <3>5. Refreshes(client[c].context)' => Refreshes(x)
        BY <3>2, Zenon DEF Refreshes
      <3> QED
        BY <2>5, <3>1, <3>2, <3>3, <3>4, <3>5, Zenon DEF Drafted
    <2>9. ChatSteps'
      BY <1>0, <1>1, <2>3, <2>5, <2>6, <2>8, StepsTaken
    <2> QED
      BY <1>1, <2>5, <2>7, <2>9, ClientSteps
  <1> QED
    BY <1>2, <1>3, Zenon DEF ReadContext
LEMMA LockProposalInv ==
  ASSUME ChatInv, NEW c \in Clients, NEW p \in DOMAIN proposals, LockProposal(c, p)
  PROVE  ChatInv'
  <1>0. ChatData /\ ChatLocks /\ ChatSteps /\ RunEffects
    BY DEF ChatInv
  <1>1. /\ client[c].step = "idle" /\ ~Locked(p) /\ ~Held(p) /\ p \in Nat
        /\ UNCHANGED <<runs, reviews, documents, thread, messages, proposals>>
    <2>1. p \in Nat
      BY <1>0 DEF ChatData
    <2> QED
      BY <2>1 DEF LockProposal, At
  <1>2. CASE /\ proposals[p].status = "executed" /\ proposals[p].child # None
             /\ client' = [client EXCEPT ![c] = [step |-> "schedule", run |-> proposals[p].child]]
    <2> DEFINE q == [step |-> "schedule", run |-> proposals[p].child]
    <2>1. proposals[p].child \in DOMAIN runs
      BY <1>0, <1>2, Zenon DEF ChatKeys, ChildrenExist, ChatInv
    <2>2. q \in Requests /\ q.step = "schedule" /\ q.run = proposals[p].child
      <3>1. proposals[p].child \in Nat
        BY <1>0, <2>1 DEF ChatData
      <3> QED
        BY <3>1, RequestsAre
    <2>3. client' = [client EXCEPT ![c] = q]
      BY <1>2
    <2> HIDE DEF q
    <2>4. client' \in [Clients -> Requests] /\ client'[c] = q /\ Releases
          /\ \A d \in Clients : d # c => client'[d] = client[d]
      BY <1>0, <2>2, <2>3, ClientBecomes
    <2>5. ChatLocks'
      BY <1>0, <1>1, <2>4, LocksKept DEF ChatLocks, Awaiting
    <2>6. ChatSteps'
      BY <1>0, <1>1, <2>1, <2>2, <2>4, StepsTaken DEF HasProposal
    <2> QED
      BY <1>1, <2>4, <2>5, <2>6, ClientSteps
  <1>3. CASE Confirmable(p) /\ client' = [client EXCEPT ![c] = [step |-> "confirm", proposal |-> p]]
    <2> DEFINE q == [step |-> "confirm", proposal |-> p]
    <2>1. p \in Awaiting
      BY <1>3 DEF Confirmable, Awaiting
    <2>2. q \in Requests /\ q.step = "confirm" /\ q.proposal = p
      BY <1>1, RequestsAre
    <2>3. client' = [client EXCEPT ![c] = q]
      BY <1>3
    <2> HIDE DEF q
    <2>4. client' \in [Clients -> Requests] /\ client'[c] = q
          /\ \A d \in Clients : d # c => client'[d] = client[d]
      BY <1>0, <2>2, <2>3, ClientBecomes
    <2>5. \A d \in Clients : ~(HasProposal(d) /\ client[d].proposal = p)
      BY <1>1, Zenon DEF Locked, HasProposal
    <2>6. ChatLocks'
      <3>1. ~HasThread(c)'
        BY <2>2, <2>4 DEF HasThread
      <3> QED
        BY <1>0, <1>1, <2>1, <2>2, <2>4, <2>5, <3>1, LocksTaken
    <2>7. \A d \in Clients : ~(client[d].step = "draft" /\ Refreshes(client[d].context))
      BY <1>1, <2>1, Zenon DEF Held, At
    <2>8. ChatSteps'
      BY <1>0, <1>1, <2>2, <2>4, <2>7, StepsTaken
    <2> QED
      BY <1>1, <2>4, <2>6, <2>8, ClientSteps
  <1> QED
    BY <1>2, <1>3, Zenon DEF LockProposal

(* A client gives up, and nothing else happens.                            *)
LEMMA GivesUp ==
  ASSUME ChatInv, NEW c \in Clients, Answers(c),
         UNCHANGED <<runs, reviews, documents, thread, messages, proposals>>
  PROVE  ChatInv'
  <1>0. ChatData /\ ChatLocks /\ ChatSteps
    BY DEF ChatInv
  <1>1. ChatLocks'
    BY <1>0, Answered, LocksKept DEF ChatLocks, Awaiting
  <1>2. ChatSteps'
    BY <1>0, Answered, StepsTaken DEF HasProposal
  <1> QED
    BY <1>0, <1>1, <1>2, Answered, ClientSteps
LEMMA RaiseRefusedInv ==
  ASSUME ChatInv, NEW c \in Clients, RaiseRefused(c)
  PROVE  ChatInv'
  BY GivesUp DEF RaiseRefused
LEMMA DeadlockVictimInv ==
  ASSUME ChatInv, NEW c \in Clients, NEW d \in Clients, DeadlockVictim(c, d)
  PROVE  ChatInv'
  BY GivesUp, Zenon DEF DeadlockVictim
-----------------------------------------------------------------------------
(* No confirmation is between its check of the context and its end, no     *)
(* message between the two halves of its transaction.                      *)
LEMMA ThreadIsFree ==
  ASSUME ~ThreadLocked, NEW d \in Clients
  PROVE  client[d].step # "draft" /\ client[d].step # "persist" /\ client[d].step # "locked"
  BY Zenon DEF ThreadLocked
LEMMA SameRuns ==
  ASSUME UNCHANGED runs
  PROVE  /\ RunEffects /\ ChatData /\ ProposalsMove => RunEffects'
         /\ ScheduledIsLive => ScheduledIsLive'
  BY RunEffectsKept, Zenon DEF ScheduledIsLive

LEMMA StatusSet ==
  ASSUME NEW q \in ProposalRow, NEW s \in ProposalStatuses
  PROVE  /\ [q EXCEPT !.status = s] \in ProposalRow
         /\ [q EXCEPT !.status = s].key = q.key /\ [q EXCEPT !.status = s].message = q.message
         /\ [q EXCEPT !.status = s].context = q.context
         /\ [q EXCEPT !.status = s].latest = q.latest
         /\ [q EXCEPT !.status = s].child = q.child
         /\ [q EXCEPT !.status = s].blocked = q.blocked
         /\ [q EXCEPT !.status = s].status = s
  BY SMT DEF ProposalRow
LEMMA RowsAreASeq ==
  ASSUME NEW n \in Nat, NEW S, NEW f, f = [i \in 1..n |-> f[i]], \A i \in 1..n : f[i] \in S
  PROVE  f \in Seq(S) /\ Len(f) = n
  <1>1. f \in [1..n -> S]
    OBVIOUS
  <1> QED
    BY <1>1

LEMMA RefreshMoves ==
  ASSUME ChatData, NEW x, proposals' = Refresh(proposals, x)
  PROVE  /\ ProposalsMove /\ Len(proposals') = Len(proposals)
         /\ thread.context = x => proposals' = proposals
         /\ RowsFree(x) => \A p \in Awaiting : Locked(p) => p \in Awaiting'
  <1>1. /\ proposals \in Seq(ProposalRow) /\ Len(proposals) \in Nat
        /\ DOMAIN proposals = 1..Len(proposals)
    BY DEF ChatData
  <1>2. CASE thread.context = x
    <2>1. UNCHANGED proposals
      BY <1>2 DEF Refresh
    <2> QED
      BY <1>1, <2>1, NoMove DEF Awaiting
  <1>3. CASE thread.context # x
    <2>1. proposals' = [p \in 1..Len(proposals) |->
                          IF proposals[p].status = "awaiting_confirmation"
                          THEN [proposals[p] EXCEPT !.status = "stale"] ELSE proposals[p]]
      BY <1>1, <1>3 DEF Refresh
    <2>2. \A p \in 1..Len(proposals) : proposals[p] \in ProposalRow
      BY <1>1
    <2>3. \A p \in 1..Len(proposals) : [proposals[p] EXCEPT !.status = "stale"] \in ProposalRow
      BY <2>2, SMT DEF ProposalRow, ProposalStatuses
    <2>4. proposals' \in Seq(ProposalRow) /\ Len(proposals') = Len(proposals)
      BY <1>1, <2>1, <2>2, <2>3, SMT
    <2>5. \A p \in 1..Len(proposals) :
            /\ proposals'[p].key = proposals[p].key /\ proposals'[p].message = proposals[p].message
            /\ proposals'[p].context = proposals[p].context
            /\ proposals'[p].latest = proposals[p].latest
            /\ proposals'[p].child = proposals[p].child
            /\ \/ proposals'[p] = proposals[p]
               \/ /\ proposals[p].status = "awaiting_confirmation"
                  /\ proposals'[p].status \in {"stale", "expired", "cancelled"}
      BY <2>1, <2>2, SMT DEF ProposalRow
    <2>6. ProposalsMove
      BY <1>1, <2>4, <2>5, SMT DEF ProposalsMove
    <2>7. RowsFree(x) => \A p \in Awaiting : ~Locked(p)
      BY <1>3 DEF RowsFree, Refreshes
    <2> QED
      BY <1>3, <2>4, <2>6, <2>7
  <1> QED
    BY <1>2, <1>3
LEMMA OpenThreadInv ==
  ASSUME ChatAssumption, ChatInv, OpenThread
  PROVE  ChatInv'
  <1> DEFINE x == <<LatestRun, Len(reviews[LatestRun]), Len(documents')>>
  <1>0. /\ ChatData /\ ChatLocks /\ ChatSteps /\ ChatKeys /\ ReviewEffects /\ DocumentEffects
        /\ RunEffects /\ ScheduledIsLive
    BY DEF ChatInv
  <1>1. /\ ~ThreadLocked /\ thread' = [open |-> TRUE, context |-> x]
        /\ UNCHANGED <<runs, reviews, messages, client>>
        /\ thread.open => RowsFree(x)
        /\ proposals' = IF thread.open THEN Refresh(proposals, x) ELSE proposals
    BY Zenon DEF OpenThread
  <1>2. /\ documents \in Seq(DocumentRow) /\ Len(documents) \in Nat
        /\ DOMAIN documents = 1..Len(documents)
        /\ documents' \in Seq(DocumentRow) /\ Len(documents') \in Nat
        /\ Len(documents) <= Len(documents') /\ Len(documents') <= MaxDocuments
        /\ DOMAIN documents' = 1..Len(documents') /\ documents' # <<>>
        /\ \A i \in DOMAIN documents : documents'[i] = documents[i]
        /\ \A i \in DOMAIN documents' : i \notin DOMAIN documents => documents'[i].by = None
    <2>0. documents \in Seq(DocumentRow) /\ Len(documents) \in Nat /\ Len(documents) <= MaxDocuments
      BY <1>0 DEF ChatData
    <2>1. CASE documents # <<>>
      <3>1. documents' = documents
        BY <2>1 DEF OpenThread
      <3> QED
        BY <2>0, <2>1, <3>1
    <2>2. CASE documents = <<>>
      <3>1. documents' = <<[parent |-> None, by |-> None]>>
        BY <2>2 DEF OpenThread
      <3>2. [parent |-> None, by |-> None] \in DocumentRow
        BY SMT DEF DocumentRow, None
      <3>3. MaxDocuments \in Nat \ {0}
        BY DEF ChatAssumption
      <3> QED
        BY <2>0, <2>2, <3>1, <3>2, <3>3, SMT
    <2> QED
      BY <2>1, <2>2
  <1>3. x \in ContextType
    <2>1. LatestRun \in DOMAIN runs /\ LatestRun \in 1..Len(runs) /\ Len(runs) \in Nat
      BY <1>0, LatestRunIs DEF ChatData
    <2>2. reviews \in Seq(Seq(ReviewRow)) /\ LatestRun \in 1..Len(reviews)
      BY <1>0, <2>1 DEF ChatData
    <2>3. reviews[LatestRun] \in Seq(ReviewRow)
      BY <2>2
    <2>4. Len(reviews[LatestRun]) \in Nat
      BY <2>3
    <2> HIDE DEF LatestRun
    <2> QED
      BY <1>2, <2>1, <2>4, SMT DEF ContextType
  <1>4. /\ ProposalsMove /\ Len(proposals') = Len(proposals)
        /\ \A p \in Awaiting : Locked(p) => p \in Awaiting'
    <2>1. CASE thread.open
      <3>1. proposals' = Refresh(proposals, x) /\ RowsFree(x)
        BY <1>1, <2>1
      <3> HIDE DEF x
      <3> QED
        BY <1>0, <3>1, RefreshMoves
    <2>2. CASE ~thread.open
      <3>1. UNCHANGED proposals
        BY <1>1, <2>2
      <3> QED
        BY <1>0, <3>1, NoMove DEF Awaiting
    <2> QED
      BY <2>1, <2>2
  <1> HIDE DEF x
  <1>5. ChatData'
    BY <1>0, <1>1, <1>2, <1>3, <1>4, Zenon DEF ChatData, ProposalsMove
  <1>6. Releases /\ \A d \in Clients : HasProposal(d) => client[d].proposal \in Awaiting'
    <2>1. ASSUME NEW d \in Clients, HasProposal(d)
          PROVE  Locked(client[d].proposal) /\ client[d].proposal \in Awaiting
      BY <1>0, <2>1, Zenon DEF ChatLocks, HasProposal, Locked
    <2> QED
      BY <1>1, <1>4, <2>1, Zenon DEF Releases
  <1>7. ChatLocks'
    BY <1>0, <1>6, LocksKept
  <1>8. ChatSteps'
    <2>1. \A d \in Clients : client'[d].step = "schedule" => client'[d].run \in DOMAIN runs'
      BY <1>0, <1>1 DEF ChatSteps
    <2>2. \A d \in Clients : client'[d].step # "draft" /\ client[d].step # "persist"
      BY <1>1, ThreadIsFree
    <2> QED
      BY <1>0, <1>1, <1>2, <1>6, <2>1, <2>2, StepsKept
  <1>9. ChatKeys' /\ ReviewEffects' /\ DocumentEffects' /\ RunEffects' /\ ScheduledIsLive'
    <2>1. ChatKeys'
      BY <1>0, <1>1, <1>4, KeysKept
    <2>2. ReviewEffects'
      BY <1>0, <1>1, <1>4, ReviewEffectsKept
    <2>3. DocumentEffects'
      <3>1. DOMAIN documents \subseteq DOMAIN documents'
        BY <1>2, SMT
      <3> QED
        BY <1>0, <1>2, <1>4, <3>1, DocumentEffectsKept
    <2> QED
      BY <1>0, <1>1, <1>4, <2>1, <2>2, <2>3, SameRuns
  <1> QED
    BY <1>5, <1>7, <1>8, <1>9 DEF ChatInv

(* Where no client is between the halves of a message or of a confirmation *)
(* and the rows keep still, it is enough to look at the proposals.         *)
LEMMA ProposalSteps ==
  ASSUME ChatInv, UNCHANGED <<runs, reviews, documents, messages>>,
         thread' \in [open : BOOLEAN, context : ContextType \cup {<<>>}], thread'.open = thread.open,
         ProposalsMove, Len(proposals') = Len(proposals),
         client' \in [Clients -> Requests], ChatLocks', ChatSteps'
  PROVE  ChatInv'
  <1>0. /\ ChatData /\ ChatKeys /\ ReviewEffects /\ DocumentEffects
        /\ RunEffects /\ ScheduledIsLive
    BY DEF ChatInv
  <1>1. ChatData'
    BY <1>0, Zenon DEF ChatData, ProposalsMove
  <1>2. ChatKeys' /\ ReviewEffects' /\ DocumentEffects' /\ RunEffects' /\ ScheduledIsLive'
    BY <1>0, KeysKept, ReviewEffectsKept, DocumentEffectsKept, SameRuns
  <1> QED
    BY <1>1, <1>2 DEF ChatInv

LEMMA ListPendingInv ==
  ASSUME ChatInv, ListPending
  PROVE  ChatInv'
  <1> DEFINE fresh == Refresh(proposals, Context(LatestRun))
  <1>0. ChatData /\ ChatLocks /\ ChatSteps
    BY DEF ChatInv
  <1>1. /\ ~ThreadLocked /\ \A p \in Awaiting : ~Locked(p)
        /\ thread' = [thread EXCEPT !.context = Context(LatestRun)]
        /\ UNCHANGED <<runs, reviews, documents, messages, client>>
        /\ proposals' = [p \in DOMAIN fresh |->
                     IF fresh[p].status = "awaiting_confirmation" /\ fresh[p].due
                     THEN [fresh[p] EXCEPT !.status = "expired"] ELSE fresh[p]]
    BY Zenon DEF ListPending
  <1>2. Context(LatestRun) \in ContextType
    <2>1. LatestRun \in DOMAIN runs /\ LatestRun \in 1..Len(runs) /\ Len(runs) \in Nat
      BY <1>0, LatestRunIs DEF ChatData
    <2>2. reviews \in Seq(Seq(ReviewRow)) /\ LatestRun \in 1..Len(reviews)
      BY <1>0, <2>1 DEF ChatData
    <2>3. reviews[LatestRun] \in Seq(ReviewRow)
      BY <2>2
    <2>4. Len(reviews[LatestRun]) \in Nat /\ Len(documents) \in Nat
      BY <1>0, <2>3 DEF ChatData
    <2> HIDE DEF LatestRun
    <2> QED
      BY <2>1, <2>4, SMT DEF ContextType, Context
  <1>3. thread' \in [open : BOOLEAN, context : ContextType \cup {<<>>}] /\ thread'.open = thread.open
    BY <1>0, <1>1, <1>2 DEF ChatData
  <1>4. ProposalsMove /\ Len(proposals') = Len(proposals)
    <2>0. /\ proposals \in Seq(ProposalRow) /\ Len(proposals) \in Nat
          /\ DOMAIN proposals = 1..Len(proposals)
          /\ \A p \in 1..Len(proposals) : proposals[p] \in ProposalRow
      BY <1>0 DEF ChatData
    <2>1. DOMAIN fresh = 1..Len(proposals)
      BY <2>0 DEF Refresh
    <2>2. ASSUME NEW p \in 1..Len(proposals)
          PROVE  /\ fresh[p] \in ProposalRow
                 /\ \/ fresh[p] = proposals[p]
                    \/ /\ proposals[p].status = "awaiting_confirmation"
                       /\ fresh[p] = [proposals[p] EXCEPT !.status = "stale"]
      <3>1. [proposals[p] EXCEPT !.status = "stale"] \in ProposalRow
        BY <2>0, StatusSet DEF ProposalStatuses
      <3> QED
        BY <2>0, <3>1 DEF Refresh
    <2> HIDE DEF fresh
    <2>3. ASSUME NEW p \in 1..Len(proposals)
          PROVE  /\ proposals'[p] \in ProposalRow
                 /\ \/ proposals'[p] = proposals[p]
                    \/ /\ proposals[p].status = "awaiting_confirmation"
                       /\ \E s \in {"stale", "expired"} :
                            proposals'[p] = [proposals[p] EXCEPT !.status = s]
      <3>1. /\ fresh[p] \in ProposalRow
            /\ proposals'[p] = IF fresh[p].status = "awaiting_confirmation" /\ fresh[p].due
                               THEN [fresh[p] EXCEPT !.status = "expired"] ELSE fresh[p]
        BY <1>1, <2>1, <2>2
      <3>2. [fresh[p] EXCEPT !.status = "expired"] \in ProposalRow
        BY <3>1, StatusSet DEF ProposalStatuses
      <3>3. CASE fresh[p] = proposals[p]
        BY <3>1, <3>2, <3>3
      <3>4. CASE /\ proposals[p].status = "awaiting_confirmation"
                 /\ fresh[p] = [proposals[p] EXCEPT !.status = "stale"]
        <4>1. fresh[p].status = "stale"
          BY <2>0, <3>4, SMT DEF ProposalRow
        <4> QED
          BY <3>1, <3>4, <4>1
      <3> QED
        BY <2>2, <3>3, <3>4
    <2>4. proposals' \in Seq(ProposalRow) /\ Len(proposals') = Len(proposals)
      <3>1. proposals' = [p \in 1..Len(proposals) |-> proposals'[p]]
        BY <1>1, <2>1
      <3> QED
        BY <2>0, <2>3, <3>1, RowsAreASeq
    <2>5. \A p \in 1..Len(proposals) :
            /\ proposals'[p].key = proposals[p].key /\ proposals'[p].message = proposals[p].message
            /\ proposals'[p].context = proposals[p].context
            /\ proposals'[p].latest = proposals[p].latest
            /\ proposals'[p].child = proposals[p].child
            /\ \/ proposals'[p] = proposals[p]
               \/ /\ proposals[p].status = "awaiting_confirmation"
                  /\ proposals'[p].status \in {"stale", "expired", "cancelled"}
      <3>1. ASSUME NEW p \in 1..Len(proposals), NEW s \in {"stale", "expired"},
                   proposals'[p] = [proposals[p] EXCEPT !.status = s]
            PROVE  /\ proposals'[p].key = proposals[p].key
                   /\ proposals'[p].message = proposals[p].message
                   /\ proposals'[p].context = proposals[p].context
                   /\ proposals'[p].latest = proposals[p].latest
                   /\ proposals'[p].child = proposals[p].child
                   /\ proposals'[p].status \in {"stale", "expired", "cancelled"}
        <4>1. s \in ProposalStatuses /\ proposals[p] \in ProposalRow
          BY <2>0 DEF ProposalStatuses
        <4> QED
          BY <3>1, <4>1, StatusSet
      <3> QED
        BY <2>3, <3>1, ZenonT(30)
    <2> QED
      BY <2>0, <2>4, <2>5, SMT DEF ProposalsMove
  <1>5. Releases /\ \A d \in Clients : ~HasProposal(d)
    <2>1. ASSUME NEW d \in Clients, HasProposal(d) PROVE FALSE
      BY <1>0, <1>1, <2>1, Zenon DEF ChatLocks, HasProposal, Locked
    <2> QED
      BY <1>1, <2>1 DEF Releases
  <1>6. ChatLocks'
    BY <1>0, <1>5, LocksKept
  <1>7. ChatSteps'
    <2>1. \A d \in Clients : client'[d].step = "schedule" => client'[d].run \in DOMAIN runs'
      BY <1>0, <1>1 DEF ChatSteps
    <2>2. \A d \in Clients : client'[d].step # "draft" /\ client[d].step # "persist"
      BY <1>1, ThreadIsFree
    <2>3. documents' \in Seq(DocumentRow) /\ Len(documents) <= Len(documents')
      BY <1>0, <1>1 DEF ChatData
    <2> QED
      BY <1>0, <1>1, <1>5, <2>1, <2>2, <2>3, StepsKept
  <1>8. client' \in [Clients -> Requests]
    BY <1>0, <1>1 DEF ChatData
  <1> QED
    BY <1>1, <1>3, <1>4, <1>6, <1>7, <1>8, ProposalSteps

(* An awaiting proposal ends without an effect, or only falls due.         *)
LEMMA SetMoves ==
  ASSUME ChatData, NEW p \in DOMAIN proposals, NEW q, proposals' = [proposals EXCEPT ![p] = q],
         q \in ProposalRow, q.key = proposals[p].key, q.message = proposals[p].message,
         q.context = proposals[p].context, q.latest = proposals[p].latest,
         q.child = proposals[p].child,
         \/ q.status = proposals[p].status /\ q.blocked = proposals[p].blocked
         \/ /\ proposals[p].status = "awaiting_confirmation"
            /\ \/ q.status \in {"stale", "expired", "cancelled"}
               \/ q.status = "executed" /\ q.blocked /\ Revises(proposals[p].message)
  PROVE  /\ ProposalsMove /\ Len(proposals') = Len(proposals)
         /\ \A o \in Awaiting : o # p => o \in Awaiting'
         /\ q.status = proposals[p].status => Awaiting' = Awaiting
  <1>1. /\ proposals \in Seq(ProposalRow) /\ Len(proposals) \in Nat
        /\ DOMAIN proposals = 1..Len(proposals)
    BY DEF ChatData
  <1>2. /\ proposals' \in Seq(ProposalRow) /\ Len(proposals') = Len(proposals)
        /\ DOMAIN proposals' = DOMAIN proposals
        /\ proposals'[p] = q /\ \A o \in DOMAIN proposals : o # p => proposals'[o] = proposals[o]
    BY <1>1
  <1>3. ProposalsMove
    <2>1. ASSUME NEW o \in 1..Len(proposals)
          PROVE  /\ proposals'[o].key = proposals[o].key
                 /\ proposals'[o].message = proposals[o].message
                 /\ proposals'[o].context = proposals[o].context
                 /\ proposals'[o].latest = proposals[o].latest
                 /\ proposals'[o].child = proposals[o].child
                 /\ \/ /\ proposals'[o].status = proposals[o].status
                       /\ proposals'[o].blocked = proposals[o].blocked
                    \/ /\ proposals[o].status = "awaiting_confirmation"
                       /\ \/ proposals'[o].status \in {"stale", "expired", "cancelled"}
                          \/ /\ proposals'[o].status = "executed" /\ proposals'[o].blocked
                             /\ Revises(proposals[o].message)
      BY <1>1, <1>2, Zenon
    <2> QED
      BY <1>1, <1>2, <2>1, SMT DEF ProposalsMove
  <1> QED
    BY <1>2, <1>3, Zenon DEF Awaiting

(* Neither the drafts nor the steps of the others notice.                  *)
LEMMA CheckContextInv ==
  ASSUME ChatInv, NEW c \in Clients, CheckContext(c)
  PROVE  ChatInv'
  <1> DEFINE p == client[c].proposal
  <1>0. ChatData /\ ChatLocks /\ ChatSteps
    BY DEF ChatInv
  <1>1. /\ client[c].step = "confirm" /\ ~ThreadLocked
        /\ UNCHANGED <<runs, reviews, documents, thread, messages>>
    BY DEF CheckContext, At
  <1>2. /\ p \in DOMAIN proposals /\ proposals[p].status = "awaiting_confirmation"
        /\ p \in Awaiting /\ p \in Nat /\ proposals[p] \in ProposalRow
    <2>1. p \in Awaiting
      BY <1>0, <1>1 DEF ChatLocks, HasProposal
    <2>2. p \in DOMAIN proposals /\ proposals \in Seq(ProposalRow)
      BY <1>0, <2>1 DEF Awaiting, ChatData
    <2> QED
      BY <2>1, <2>2 DEF Awaiting
  <1>3. documents' \in Seq(DocumentRow) /\ Len(documents) <= Len(documents')
        /\ thread' \in [open : BOOLEAN, context : ContextType \cup {<<>>}]
    BY <1>0, <1>1 DEF ChatData
  <1>4. ASSUME NEW s \in {"stale", "expired"}, WithProposal(p, s), Answers(c)
        PROVE  ChatInv'
    <2>0. PICK q : q = [proposals[p] EXCEPT !.status = s]
      OBVIOUS
    <2>1. /\ q \in ProposalRow /\ q.key = proposals[p].key /\ q.message = proposals[p].message
          /\ q.context = proposals[p].context /\ q.latest = proposals[p].latest
          /\ q.child = proposals[p].child /\ q.status = s
      <3>1. s \in ProposalStatuses
        BY DEF ProposalStatuses
      <3> QED
        BY <1>2, <2>0, <3>1, StatusSet
    <2>2. proposals' = [proposals EXCEPT ![p] = q]
      BY <1>4, <2>0 DEF WithProposal
    <2>3. /\ ProposalsMove /\ Len(proposals') = Len(proposals)
          /\ \A o \in Awaiting : o # p => o \in Awaiting'
      <3> HIDE DEF p
      <3> QED
        BY <1>0, <1>2, <2>1, <2>2, SetMoves
    <2>4. /\ client' \in [Clients -> Requests] /\ client'[c].step = "idle"
          /\ \A d \in Clients : d # c => client'[d] = client[d]
          /\ Releases
      BY <1>0, <1>4, Answered
    <2>5. ChatLocks'
      <3>1. ASSUME NEW d \in Clients, HasProposal(d), client'[d] = client[d]
            PROVE  client[d].proposal \in Awaiting'
        <4>1. d # c
          BY <1>1, <2>4, <3>1
        <4>2. HasProposal(c) /\ client[d].proposal # p /\ client[d].proposal \in Awaiting
          BY <1>0, <1>1, <3>1, <4>1, Zenon DEF ChatLocks, HasProposal
        <4> QED
          BY <2>3, <4>2
      <3> QED
        BY <1>0, <2>4, <3>1, LocksKept
    <2>6. ChatSteps'
      <3>1. \A d \in Clients : client'[d].step = "schedule" => client'[d].run \in DOMAIN runs'
        BY <1>0, <1>1, <2>4, Zenon DEF ChatSteps
      <3>2. \A d \in Clients : client'[d].step # "draft" /\ client[d].step # "persist"
        BY <1>1, <2>4, ThreadIsFree, Zenon
      <3> QED
        BY <1>0, <1>1, <1>3, <2>4, <3>1, <3>2, StepsKept
    <2> QED
      BY <1>1, <1>3, <2>3, <2>4, <2>5, <2>6, ProposalSteps
  <1>5. CASE ~Stale(proposals[p]) /\ Goes(c, "persist") /\ UNCHANGED proposals
    <2>1. client[c] = [step |-> "confirm", proposal |-> p]
      BY <1>0, <1>1, RequestIs DEF Requests, Idle
    <2> DEFINE q == [step |-> "persist", proposal |-> p]
    <2>2. client' = [client EXCEPT ![c] = q] /\ q \in Requests /\ q.step = "persist" /\ q.proposal = p
      <3>1. [client[c] EXCEPT !.step = "persist"] = q
        BY <2>1, SMT
      <3>2. client' = [client EXCEPT ![c] = [client[c] EXCEPT !.step = "persist"]]
        BY <1>5 DEF Goes
      <3>3. q \in Requests
        BY <1>2, RequestsAre
      <3> QED
        BY <3>1, <3>2, <3>3, Zenon
    <2>3. PICK u : u = q
      OBVIOUS
    <2>4. /\ client' \in [Clients -> Requests] /\ client'[c].step = "persist"
          /\ client'[c].proposal = p
          /\ \A d \in Clients : d # c => client'[d] = client[d]
      <3> HIDE DEF q
      <3> QED
        BY <1>0, <2>2, ClientBecomes
    <2> HIDE DEF q
    <2>5. \A d \in Clients : ~HasThread(d)
      BY <1>1, ThreadIsFree DEF HasThread
    <2>6. HasProposal(c)
      BY <1>1 DEF HasProposal
    <2>7. ChatLocks'
      <3>1. \A d \in Clients : HasProposal(d) /\ client[d].proposal = p => d = c
        BY <1>0, <2>6 DEF ChatLocks
      <3> HIDE DEF p
      <3> QED
        BY <1>0, <1>2, <1>5, <2>4, <2>5, <3>1, LocksTaken
    <2>8. Persisted(c)'
      <3>1. Len(reviews[proposals[p].context[1]]) = proposals[p].context[2]
        <4>1. proposals[p].context \in ContextType
          BY <1>2 DEF ProposalRow
        <4>2. Context(proposals[p].context[1]) = proposals[p].context
          BY <1>5 DEF Stale
        <4> QED
          BY <4>1, <4>2, SMT DEF Context, ContextType
      <3> QED
        BY <1>1, <1>5, <2>4, <3>1, Zenon DEF Persisted
    <2>9. ChatSteps'
      <3>1. \A d \in Clients : client[d].step # "draft"
        BY <1>1, ThreadIsFree
      <3>2. client'[c].step # "draft" /\ client'[c].step # "schedule"
        BY <2>4
      <3> QED
        BY <1>0, <1>1, <1>5, <2>4, <2>8, <3>1, <3>2, StepsTaken
    <2> QED
      BY <1>1, <1>5, <2>4, <2>7, <2>9, ClientSteps
  <1> QED
    BY <1>4, <1>5, Zenon DEF CheckContext
LEMMA CancelProposalInv ==
  ASSUME ChatInv, NEW p \in DOMAIN proposals, CancelProposal(p)
  PROVE  ChatInv'
  <1>0. ChatData /\ ChatLocks /\ ChatSteps
    BY DEF ChatInv
  <1>1. /\ proposals[p].status = "awaiting_confirmation" /\ ~Locked(p) /\ ~ThreadLocked
        /\ proposals[p] \in ProposalRow
        /\ UNCHANGED <<runs, reviews, documents, thread, messages, client>>
    BY <1>0 DEF CancelProposal, ChatData
  <1>2. PICK q : q = [proposals[p] EXCEPT !.status = "cancelled"]
    OBVIOUS
  <1>3. /\ q \in ProposalRow /\ q.key = proposals[p].key /\ q.message = proposals[p].message
        /\ q.context = proposals[p].context /\ q.latest = proposals[p].latest
        /\ q.child = proposals[p].child /\ q.status = "cancelled"
    BY <1>1, <1>2, StatusSet DEF ProposalStatuses
  <1>4. proposals' = [proposals EXCEPT ![p] = q]
    BY <1>2 DEF CancelProposal, WithProposal
  <1>5. /\ ProposalsMove /\ Len(proposals') = Len(proposals)
        /\ \A o \in Awaiting : o # p => o \in Awaiting'
    BY <1>0, <1>1, <1>3, <1>4, SetMoves
  <1>6. /\ client' \in [Clients -> Requests] /\ Releases /\ documents' \in Seq(DocumentRow)
        /\ thread' \in [open : BOOLEAN, context : ContextType \cup {<<>>}]
        /\ Len(documents) <= Len(documents')
    BY <1>0, <1>1 DEF ChatData, Releases
  <1>7. ChatLocks'
    <2>1. ASSUME NEW d \in Clients, HasProposal(d) PROVE client[d].proposal \in Awaiting'
      <3>1. client[d].proposal \in Awaiting /\ client[d].proposal # p
        BY <1>0, <1>1, <2>1, Zenon DEF ChatLocks, HasProposal, Locked
      <3> QED
        BY <1>5, <3>1
    <2> QED
      BY <1>0, <1>6, <2>1, LocksKept
  <1>8. ChatSteps'
    <2>1. \A d \in Clients : client'[d].step = "schedule" => client'[d].run \in DOMAIN runs'
      BY <1>0, <1>1 DEF ChatSteps
    <2>2. \A d \in Clients : client'[d].step # "draft" /\ client[d].step # "persist"
      BY <1>1, ThreadIsFree
    <2> QED
      BY <1>0, <1>1, <1>6, <2>1, <2>2, StepsKept
  <1> QED
    BY <1>1, <1>5, <1>6, <1>7, <1>8, ProposalSteps

LEMMA DueSet ==
  ASSUME NEW q \in ProposalRow, NEW b \in BOOLEAN
  PROVE  /\ [q EXCEPT !.due = b] \in ProposalRow
         /\ [q EXCEPT !.due = b].key = q.key /\ [q EXCEPT !.due = b].message = q.message
         /\ [q EXCEPT !.due = b].context = q.context
         /\ [q EXCEPT !.due = b].latest = q.latest
         /\ [q EXCEPT !.due = b].child = q.child
         /\ [q EXCEPT !.due = b].blocked = q.blocked
         /\ [q EXCEPT !.due = b].status = q.status
  BY SMT DEF ProposalRow
LEMMA TimePassesInv ==
  ASSUME ChatInv, NEW p \in DOMAIN proposals, TimePasses(p)
  PROVE  ChatInv'
  <1>0. ChatData /\ ChatLocks /\ ChatSteps
    BY DEF ChatInv
  <1>1. /\ proposals[p] \in ProposalRow
        /\ UNCHANGED <<runs, reviews, documents, thread, messages, client>>
    BY <1>0 DEF TimePasses, ChatData
  <1>2. PICK q : q = [proposals[p] EXCEPT !.due = TRUE]
    OBVIOUS
  <1>3. /\ q \in ProposalRow /\ q.key = proposals[p].key /\ q.message = proposals[p].message
        /\ q.context = proposals[p].context /\ q.latest = proposals[p].latest
        /\ q.child = proposals[p].child /\ q.status = proposals[p].status
        /\ q.blocked = proposals[p].blocked
    BY <1>1, <1>2, DueSet
  <1>4. proposals' = [proposals EXCEPT ![p] = q]
    BY <1>2 DEF TimePasses
  <1>5. /\ ProposalsMove /\ Len(proposals') = Len(proposals) /\ Awaiting' = Awaiting
    BY <1>0, <1>1, <1>3, <1>4, SetMoves
  <1>6. /\ client' \in [Clients -> Requests] /\ Releases /\ documents' \in Seq(DocumentRow)
        /\ thread' \in [open : BOOLEAN, context : ContextType \cup {<<>>}]
        /\ Len(documents) <= Len(documents')
    BY <1>0, <1>1 DEF ChatData, Releases
  <1>7. ChatLocks'
    BY <1>0, <1>5, <1>6, LocksKept DEF ChatLocks
  <1>8. ChatSteps'
    <2>1. \A d \in Clients : client'[d].step = "schedule" => client'[d].run \in DOMAIN runs'
      BY <1>0, <1>1 DEF ChatSteps
    <2>2. ASSUME NEW d \in Clients, client'[d].step = "draft", Refreshes(client[d].context)'
          PROVE  \A o \in Awaiting' : ~Locked(o)'
      <3>1. Refreshes(client[d].context)
        BY <1>1, <1>5, <2>2, Zenon DEF Refreshes
      <3>2. \A o \in Awaiting : ~Locked(o)
        BY <1>0, <1>1, <2>2, <3>1, Zenon DEF ChatSteps, Drafted
      <3> QED
        BY <1>1, <1>5, <3>2, Zenon DEF Locked
    <2>3. ASSUME NEW d \in Clients, client[d].step = "persist" PROVE Persisted(d)'
      <3>1. Persisted(d) /\ client[d].proposal \in Awaiting
        BY <1>0, <2>3 DEF ChatSteps, ChatLocks, HasProposal
      <3>2. proposals'[client[d].proposal].context = proposals[client[d].proposal].context
        <4>1. client[d].proposal \in 1..Len(proposals)
          BY <1>0, <3>1 DEF Awaiting, ChatData
        <4> QED
          BY <1>5, <4>1 DEF ProposalsMove
      <3> QED
        BY <1>1, <3>1, <3>2, Zenon DEF Persisted
    <2> QED
      BY <1>0, <1>1, <1>6, <2>1, <2>2, <2>3, StepsKept
  <1> QED
    BY <1>1, <1>5, <1>6, <1>7, <1>8, ProposalSteps

LEMMA StoreMessageInv ==
  ASSUME ChatInv, NEW c \in Clients, StoreMessage(c)
  PROVE  ChatInv'
  <1>0. /\ ChatData /\ ChatLocks /\ ChatSteps /\ ChatKeys /\ ReviewEffects /\ DocumentEffects
        /\ RunEffects /\ ScheduledIsLive
    BY DEF ChatInv
  <1>1. PICK x, k, fresh, new :
          /\ x = client[c].context /\ k = client[c].key /\ fresh = Refresh(proposals, x)
          /\ new = [status |-> "awaiting_confirmation", key |-> k, message |-> client[c].message,
                    context |-> x, base |-> client[c].base,
                    latest |-> client[c].latest, due |-> FALSE, blocked |-> FALSE, child |-> None]
    BY Zenon
  <1>2. /\ client[c].step = "draft" /\ UNCHANGED <<runs, reviews, documents>>
        /\ thread' = [thread EXCEPT !.context = x] /\ messages' = [messages EXCEPT ![k] = TRUE]
        /\ proposals' = Append(fresh, new) \/ proposals' = fresh
        /\ Answers(c)
    BY <1>1, Zenon DEF StoreMessage, At
  <1>3. /\ k \in MessageKeys /\ x \in ContextType /\ Drafted(c)
        /\ ~messages[k] /\ x[1] \in DOMAIN runs
        /\ new \in ProposalRow /\ new.key = k /\ new.context = x /\ ~new.blocked
        /\ new.status = "awaiting_confirmation" /\ new.child = None
    <2>1. /\ k \in MessageKeys /\ client[c].message \in ChatMessages /\ x \in ContextType
          /\ client[c].base \in Nat /\ client[c].latest \in Nat
      BY <1>0, <1>1, <1>2, RequestIs
    <2>2. Drafted(c)
      BY <1>0, <1>2 DEF ChatSteps
    <2>3. new \in ProposalRow
      BY <1>1, <2>1, SMT DEF ProposalRow, ProposalStatuses, None
    <2> QED
      BY <1>1, <2>1, <2>2, <2>3, Zenon DEF Drafted
  <1>4. /\ proposals \in Seq(ProposalRow) /\ Len(proposals) \in Nat
        /\ DOMAIN proposals = 1..Len(proposals)
    BY <1>0 DEF ChatData
  (* The refreshed proposals.                                              *)
  <1>5. /\ fresh \in Seq(ProposalRow) /\ Len(fresh) = Len(proposals)
        /\ \A p \in 1..Len(proposals) :
             \/ fresh[p] = proposals[p]
             \/ /\ proposals[p].status = "awaiting_confirmation" /\ Refreshes(x)
                /\ fresh[p] = [proposals[p] EXCEPT !.status = "stale"]
    <2>1. CASE thread.context = x
      <3>1. fresh = proposals
        BY <1>1, <2>1 DEF Refresh
      <3> QED
        BY <1>4, <3>1
    <2>2. CASE thread.context # x
      <3>1. fresh = [p \in 1..Len(proposals) |->
                          IF proposals[p].status = "awaiting_confirmation"
                          THEN [proposals[p] EXCEPT !.status = "stale"] ELSE proposals[p]]
        BY <1>1, <1>4, <2>2 DEF Refresh
      <3>2. \A p \in 1..Len(proposals) : [proposals[p] EXCEPT !.status = "stale"] \in ProposalRow
        <4>1. \A p \in 1..Len(proposals) : proposals[p] \in ProposalRow
          BY <1>4
        <4>2. "stale" \in ProposalStatuses
          BY DEF ProposalStatuses
        <4> QED
          BY <4>1, <4>2, StatusSet, Zenon
      <3>3. \A p \in 1..Len(proposals) : fresh[p] \in ProposalRow
        BY <1>4, <3>1, <3>2
      <3>4. fresh = [p \in 1..Len(proposals) |-> fresh[p]]
        BY <3>1
      <3>5. fresh \in Seq(ProposalRow) /\ Len(fresh) = Len(proposals)
        BY <1>4, <3>3, <3>4, RowsAreASeq
      <3>6. \A p \in 1..Len(proposals) : proposals[p].status = "awaiting_confirmation" => Refreshes(x)
        BY <1>4, <2>2, Zenon DEF Refreshes, Awaiting
      <3> QED
        BY <3>1, <3>5, <3>6
    <2> QED
      BY <2>1, <2>2
  <1>6. /\ proposals' \in Seq(ProposalRow) /\ Len(proposals') \in Nat
        /\ DOMAIN proposals' = 1..Len(proposals') /\ Len(proposals) <= Len(proposals')
        /\ \A p \in 1..Len(proposals) : proposals'[p] = fresh[p]
        /\ \A p \in 1..Len(proposals') : p \notin 1..Len(proposals) =>
             p = Len(proposals) + 1 /\ proposals'[p] = new
    <2>1. CASE proposals' = fresh
      BY <1>4, <1>5, <2>1
    <2>2. CASE proposals' = Append(fresh, new)
      <3>1. /\ proposals' \in Seq(ProposalRow) /\ Len(proposals') = Len(fresh) + 1
            /\ proposals'[Len(fresh) + 1] = new
            /\ \A p \in 1..Len(fresh) : proposals'[p] = fresh[p]
        BY <1>3, <1>5, <2>2
      <3>2. DOMAIN proposals' = 1..Len(proposals')
        BY <3>1
      <3> QED
        BY <1>4, <1>5, <3>1, <3>2, SMT
    <2> QED
      BY <1>2, <2>1, <2>2
  <1>7. ASSUME NEW p \in 1..Len(proposals)
        PROVE  /\ proposals'[p].key = proposals[p].key /\ proposals'[p].message = proposals[p].message
               /\ proposals'[p].context = proposals[p].context
               /\ proposals'[p].latest = proposals[p].latest
               /\ proposals'[p].child = proposals[p].child
               /\ proposals'[p].blocked = proposals[p].blocked
               /\ \/ proposals'[p] = proposals[p]
                  \/ /\ proposals[p].status = "awaiting_confirmation" /\ Refreshes(x)
                     /\ proposals'[p].status = "stale"
    <2>1. CASE fresh[p] = proposals[p]
      BY <1>6, <2>1
    <2>2. CASE /\ proposals[p].status = "awaiting_confirmation" /\ Refreshes(x)
               /\ fresh[p] = [proposals[p] EXCEPT !.status = "stale"]
      <3>1. proposals[p] \in ProposalRow /\ "stale" \in ProposalStatuses
        BY <1>4 DEF ProposalStatuses
      <3>2. PICK q : q = fresh[p]
        OBVIOUS
      <3>3. /\ q.key = proposals[p].key /\ q.message = proposals[p].message
            /\ q.context = proposals[p].context /\ q.latest = proposals[p].latest
            /\ q.child = proposals[p].child /\ q.blocked = proposals[p].blocked /\ q.status = "stale"
        BY <2>2, <3>1, <3>2, StatusSet
      <3>4. proposals'[p] = q
        BY <1>6, <3>2
      <3> QED
        BY <2>2, <3>3, <3>4, Zenon
    <2> QED
      BY <1>5, <2>1, <2>2
  <1>8. ProposalsMove
    BY <1>3, <1>4, <1>6, <1>7, SMT DEF ProposalsMove
  <1>9. ChatKeys'
    <2>1. /\ \A o \in MessageKeys : messages'[o] = (messages[o] \/ o = k)
          /\ \A p \in 1..Len(proposals) : proposals[p].key \in MessageKeys
      <3>1. messages \in [MessageKeys -> BOOLEAN]
        BY <1>0 DEF ChatData
      <3>2. \A p \in 1..Len(proposals) : proposals[p] \in ProposalRow
        BY <1>4
      <3>3. \A o \in MessageKeys : messages'[o] = (messages[o] \/ o = k)
        BY <1>2, <1>3, <3>1, Zenon
      <3>4. \A p \in 1..Len(proposals) : proposals[p].key \in MessageKeys
        BY <3>2 DEF ProposalRow
      <3> QED
        BY <3>3, <3>4
    <2>2. \A p \in 1..Len(proposals) : messages[proposals[p].key] /\ proposals[p].context[1] \in DOMAIN runs
      BY <1>0, <1>4 DEF ChatKeys
    <2>3. \A p \in 1..Len(proposals) : proposals'[p].key # k /\ proposals'[p].key = proposals[p].key
      BY <1>3, <1>7, <2>2
    <2>4. OneProposalPerMessage'
      <3>1. \A p, q \in 1..Len(proposals) : proposals[p].key = proposals[q].key => p = q
        BY <1>0, <1>4 DEF ChatKeys, OneProposalPerMessage
      <3>2. \A p \in 1..Len(proposals') : p \in 1..Len(proposals) \/
              (p = Len(proposals) + 1 /\ proposals'[p].key = k)
        BY <1>3, <1>6
      <3> SUFFICES ASSUME NEW p \in 1..Len(proposals'), NEW q \in 1..Len(proposals'),
                          proposals'[p].key = proposals'[q].key
                   PROVE  p = q
        BY <1>6, Zenon DEF OneProposalPerMessage
      <3>3. CASE p \in 1..Len(proposals) /\ q \in 1..Len(proposals)
        BY <2>3, <3>1, <3>3, Zenon
      <3>4. CASE p \notin 1..Len(proposals) \/ q \notin 1..Len(proposals)
        <4>1. p \notin 1..Len(proposals) /\ q \notin 1..Len(proposals)
          BY <2>3, <3>2, <3>4, Zenon
        <4> QED
          BY <3>2, <4>1, Zenon
      <3> QED
        BY <3>3, <3>4
    <2>5. ASSUME NEW p \in DOMAIN proposals'
          PROVE  /\ messages'[proposals'[p].key] /\ proposals'[p].context[1] \in DOMAIN runs'
                 /\ p \in Awaiting' => ~proposals'[p].blocked
                 /\ proposals'[p].child # None => proposals'[p].child \in DOMAIN runs'
      <3>1. CASE p \in 1..Len(proposals)
        <4>1. messages'[proposals'[p].key] /\ proposals'[p].context[1] \in DOMAIN runs'
          BY <1>2, <1>7, <2>1, <2>2, <3>1
        <4>2. p \in Awaiting' => p \in Awaiting
          BY <1>4, <1>7, <3>1 DEF Awaiting
        <4> QED
          BY <1>0, <1>2, <1>4, <1>7, <3>1, <4>1, <4>2 DEF ChatKeys, ChildrenExist
      <3>2. CASE p \notin 1..Len(proposals)
        <4>1. proposals'[p] = new
          BY <1>6, <3>2
        <4> QED
          BY <1>2, <1>3, <2>1, <4>1
      <3> QED
        BY <3>1, <3>2
    <2> QED
      BY <2>4, <2>5, Zenon DEF ChatKeys, ChildrenExist, Awaiting
  <1>10. ChatData'
    <2>1. /\ thread' \in [open : BOOLEAN, context : ContextType \cup {<<>>}]
          /\ thread'.open = thread.open /\ messages' \in [MessageKeys -> BOOLEAN]
      BY <1>0, <1>2, <1>3 DEF ChatData
    <2>2. client' \in [Clients -> Requests]
      BY <1>0, <1>2, Answered
    <2> QED
      BY <1>0, <1>2, <1>6, <2>1, <2>2, Zenon DEF ChatData
  <1>11. /\ client'[c].step = "idle" /\ Releases
         /\ \A d \in Clients : d # c => client'[d] = client[d]
    BY <1>0, <1>2, Answered
  <1>12. ChatLocks'
    <2>1. ASSUME NEW d \in Clients, HasProposal(d) PROVE client[d].proposal \in Awaiting'
      <3>1. client[d].proposal \in Awaiting /\ Locked(client[d].proposal)
        BY <1>0, <2>1, Zenon DEF ChatLocks, HasProposal, Locked
      <3>2. ~Refreshes(x)
        BY <1>1, <1>3, <3>1 DEF Drafted
      <3>3. client[d].proposal \in 1..Len(proposals)
        BY <1>4, <3>1 DEF Awaiting
      <3>4. client[d].proposal \in DOMAIN proposals'
        BY <1>4, <1>6, <3>3, SMT
      <3> QED
        BY <1>7, <3>1, <3>2, <3>3, <3>4 DEF Awaiting
    <2> QED
      BY <1>0, <1>11, <2>1, LocksKept
  <1>13. ChatSteps'
    <2>1. ASSUME NEW d \in Clients
          PROVE  client'[d].step # "draft" /\ client'[d].step # "persist"
      <3>1. d # c => ~HasThread(d)
        BY <1>0, <1>2, Zenon DEF ChatLocks, HasThread
      <3> QED
        BY <1>11, <3>1 DEF HasThread
    <2>2. \A d \in Clients : client'[d].step = "schedule" => client'[d].run \in DOMAIN runs'
      BY <1>0, <1>2, <1>11 DEF ChatSteps
    <2> QED
      BY <2>1, <2>2, Zenon DEF ChatSteps
  <1>14. ReviewEffects' /\ DocumentEffects' /\ RunEffects' /\ ScheduledIsLive'
    BY <1>0, <1>2, <1>8, ReviewEffectsKept, DocumentEffectsKept, SameRuns
  <1> QED
    BY <1>9, <1>10, <1>12, <1>13, <1>14 DEF ChatInv
-----------------------------------------------------------------------------
(* Steps of the runs: no row changes its author, none disappears.          *)
LEMMA RunSteps ==
  ASSUME ChatInv, UNCHANGED <<reviews, documents, thread, messages, proposals>>,
         runs' \in Seq(RunRow), Len(runs') = Len(runs),
         \A r \in 1..Len(runs) : runs'[r].by = runs[r].by /\ runs'[r].parent = runs[r].parent,
         runs'[1].status = "completed",
         client' \in [Clients -> Requests], Releases, ScheduledIsLive',
         \A d \in Clients : client'[d].step = "schedule" => client'[d] = client[d]
  PROVE  ChatInv'
  <1>0. /\ ChatData /\ ChatLocks /\ ChatSteps /\ ChatKeys /\ ReviewEffects /\ DocumentEffects
        /\ RunEffects
    BY DEF ChatInv
  <1>1. /\ DOMAIN runs' = DOMAIN runs /\ DOMAIN runs = 1..Len(runs) /\ Len(runs) >= 1
        /\ documents \in Seq(DocumentRow) /\ Len(documents) \in Nat
    BY <1>0 DEF ChatData
  <1>2. ChatData'
    <2>1. \A r \in 1..Len(runs') : runs'[r].parent < r
      BY <1>0, Zenon DEF ChatData
    <2> QED
      BY <1>0, <1>1, <2>1, Zenon DEF ChatData
  <1>3. ChatLocks'
    BY <1>0, LocksKept, Zenon DEF ChatLocks, Awaiting
  <1>4. ChatSteps'
    <2>1. \A d \in Clients : client'[d].step = "schedule" => client'[d].run \in DOMAIN runs'
      BY <1>0, <1>1 DEF ChatSteps
    <2>2. ASSUME NEW d \in Clients, client'[d].step = "draft", Refreshes(client[d].context)'
          PROVE  \A o \in Awaiting' : ~Locked(o)'
      <3>1. client'[d] = client[d] /\ client[d].step = "draft"
        BY <2>2 DEF Releases
      <3>2. Refreshes(client[d].context) /\ Awaiting' = Awaiting
        BY <2>2, <3>1, Zenon DEF Refreshes, Awaiting
      <3>3. \A o \in Awaiting : ~Locked(o)
        BY <1>0, <3>1, <3>2, Zenon DEF ChatSteps, Drafted
      <3>4. \A o : Locked(o)' => Locked(o)
        BY Zenon DEF Locked, Releases
      <3> QED
        BY <3>2, <3>3, <3>4
    <2>3. ASSUME NEW d \in Clients, client[d].step = "persist", client'[d] = client[d]
          PROVE  Persisted(d)'
      BY <1>0, <2>3, Zenon DEF ChatSteps, Persisted
    <2>4. Len(documents) <= Len(documents')
      BY <1>1
    <2> QED
      BY <1>0, <1>1, <2>1, <2>2, <2>3, <2>4, StepsKept
  <1>5. ChatKeys' /\ ReviewEffects' /\ DocumentEffects'
    <2>1. ProposalsMove
      BY <1>0, NoMove
    <2> QED
      BY <1>0, <1>1, <2>1, KeysKept, ReviewEffectsKept, DocumentEffectsKept
  <1>6. RunEffects'
    BY <1>0, <1>1, NoMove, RunEffectsKept
  <1> QED
    BY <1>2, <1>3, <1>4, <1>5, <1>6 DEF ChatInv

LEMMA RunIs ==
  ASSUME ChatData
  PROVE  /\ runs \in Seq(RunRow) /\ Len(runs) \in Nat /\ Len(runs) >= 1 /\ 1 \in 1..Len(runs)
         /\ DOMAIN runs = 1..Len(runs) /\ runs[1].status = "completed"
         /\ \A r \in 1..Len(runs) : runs[r] \in RunRow
  <1>1. runs \in Seq(RunRow) /\ Len(runs) >= 1 /\ runs[1].status = "completed"
    BY DEF ChatData
  <1> QED
    BY <1>1

LEMMA RequestSet ==
  ASSUME NEW q \in RunRow, NEW a \in {"none", "queued", "scheduled", "schedule_failed"}
  PROVE  /\ [q EXCEPT !.request = a] \in RunRow /\ [q EXCEPT !.request = a].request = a
         /\ [q EXCEPT !.request = a].by = q.by /\ [q EXCEPT !.request = a].parent = q.parent
         /\ [q EXCEPT !.request = a].status = q.status /\ [q EXCEPT !.request = a].live = q.live
  BY SMT DEF RunRow
LEMMA LiveSet ==
  ASSUME NEW q \in RunRow, NEW b \in BOOLEAN
  PROVE  /\ [q EXCEPT !.live = b] \in RunRow /\ [q EXCEPT !.live = b].live = b
         /\ [q EXCEPT !.live = b].by = q.by /\ [q EXCEPT !.live = b].parent = q.parent
         /\ [q EXCEPT !.live = b].status = q.status
  BY SMT DEF RunRow
LEMMA CompletedSet ==
  ASSUME NEW q \in RunRow
  PROVE  /\ [q EXCEPT !.status = "completed"] \in RunRow
         /\ [q EXCEPT !.status = "completed"].by = q.by
         /\ [q EXCEPT !.status = "completed"].parent = q.parent
         /\ [q EXCEPT !.status = "completed"].status = "completed"
  BY SMT DEF RunRow

LEMMA RunCompletesInv ==
  ASSUME ChatInv, NEW r \in DOMAIN runs, RunCompletes(r)
  PROVE  ChatInv'
  <1>0. ChatData /\ ScheduledIsLive
    BY DEF ChatInv
  <1>1. /\ UNCHANGED <<reviews, documents, thread, messages, proposals, client>>
        /\ runs' = [runs EXCEPT ![r] = [runs[r] EXCEPT !.status = "completed", !.live = FALSE]]
    BY DEF RunCompletes
  <1>2. PICK q : q = [runs[r] EXCEPT !.status = "completed", !.live = FALSE]
    OBVIOUS
  <1>3. /\ q \in RunRow /\ q.by = runs[r].by /\ q.parent = runs[r].parent /\ q.status = "completed"
    <2>1. runs[r] \in RunRow
      BY <1>0, RunIs
    <2>2. PICK u : u = [runs[r] EXCEPT !.status = "completed"]
      OBVIOUS
    <2>3. u \in RunRow /\ u.by = runs[r].by /\ u.parent = runs[r].parent /\ u.status = "completed"
      BY <2>1, <2>2, CompletedSet
    <2>4. q = [u EXCEPT !.live = FALSE]
      BY <1>2, <2>2
    <2> QED
      BY <2>3, <2>4, LiveSet
  <1>4. /\ runs' \in Seq(RunRow) /\ Len(runs') = Len(runs) /\ runs'[r] = q
        /\ DOMAIN runs' = DOMAIN runs
        /\ \A s \in 1..Len(runs) : s # r => runs'[s] = runs[s]
    BY <1>0, <1>1, <1>2, <1>3, RunIs
  <1>5. ScheduledIsLive'
    BY <1>0, <1>3, <1>4, RunIs, Zenon DEF ScheduledIsLive
  <1>6. client' \in [Clients -> Requests] /\ Releases
    BY <1>0, <1>1 DEF ChatData, Releases
  <1>7. /\ \A s \in 1..Len(runs) : runs'[s].by = runs[s].by /\ runs'[s].parent = runs[s].parent
        /\ runs'[1].status = "completed"
    BY <1>0, <1>3, <1>4, RunIs, Zenon
  <1> QED
    BY <1>1, <1>4, <1>5, <1>6, <1>7, RunSteps

LEMMA ScheduleChildInv ==
  ASSUME ChatInv, NEW c \in Clients, ScheduleChild(c)
  PROVE  ChatInv'
  <1> DEFINE r == client[c].run
  <1>0. ChatData /\ ScheduledIsLive
    BY DEF ChatInv
  <1>1. /\ UNCHANGED <<reviews, documents, thread, messages, proposals>>
        /\ client[c].step = "schedule" /\ Answers(c)
    BY DEF ScheduleChild, At
  <1>2. r \in DOMAIN runs /\ runs[r] \in RunRow
    BY <1>0, <1>1, RunIs DEF ChatInv, ChatSteps
  <1>3. PICK q : /\ runs' = [runs EXCEPT ![r] = q] /\ q \in RunRow /\ q.by = runs[r].by
                 /\ q.parent = runs[r].parent /\ q.status = runs[r].status
                 /\ q.request = "scheduled" => q.live \/ (q.request = runs[r].request /\ q.live = runs[r].live)
    <2>1. \A s \in {"scheduled", "schedule_failed"} :
            Marked(r, s) = [runs EXCEPT ![r] = [runs[r] EXCEPT !.request =
                              IF runs[r].request = "queued" THEN s ELSE runs[r].request]]
      BY <1>2 DEF Marked
    <2> DEFINE a == IF runs[r].request = "queued" THEN "scheduled" ELSE runs[r].request
               f == IF runs[r].request = "queued" THEN "schedule_failed" ELSE runs[r].request
    <2>2. CASE runs' = [Marked(r, "scheduled") EXCEPT ![r].live = TRUE]
      <3> DEFINE u == [runs[r] EXCEPT !.request = a]
                 q == [u EXCEPT !.live = TRUE]
      <3>1. runs' = [runs EXCEPT ![r] = q]
        BY <1>2, <2>1, <2>2
      <3>2. a \in {"none", "queued", "scheduled", "schedule_failed"}
        BY <1>2, SMT DEF RunRow
      <3>3. u \in RunRow /\ u.by = runs[r].by /\ u.parent = runs[r].parent /\ u.status = runs[r].status
        BY <1>2, <3>2, RequestSet, ZenonT(30)
      <3>4. q \in RunRow /\ q.by = u.by /\ q.parent = u.parent /\ q.status = u.status /\ q.live
        BY <3>3, LiveSet, ZenonT(30)
      <3> QED
        BY <3>1, <3>3, <3>4, Zenon
    <2>3. CASE runs' = [runs EXCEPT ![r].live = TRUE]
      <3> DEFINE q == [runs[r] EXCEPT !.live = TRUE]
      <3>1. runs' = [runs EXCEPT ![r] = q]
        BY <2>3
      <3>2. q \in RunRow /\ q.by = runs[r].by /\ q.parent = runs[r].parent
            /\ q.status = runs[r].status /\ q.live
        BY <1>2, LiveSet
      <3> QED
        BY <3>1, <3>2, Zenon
    <2>4. CASE runs' = Marked(r, "schedule_failed")
      <3> DEFINE q == [runs[r] EXCEPT !.request = f]
      <3>1. runs' = [runs EXCEPT ![r] = q]
        BY <2>1, <2>4
      <3>2. f \in {"none", "queued", "scheduled", "schedule_failed"}
        BY <1>2, SMT DEF RunRow
      <3>3. q \in RunRow /\ q.by = runs[r].by /\ q.parent = runs[r].parent
            /\ q.status = runs[r].status /\ q.live = runs[r].live /\ q.request = f
        BY <1>2, <3>2, RequestSet, ZenonT(30)
      <3>4. f = "scheduled" => f = runs[r].request
        OBVIOUS
      <3> HIDE DEF f
      <3>5. q.request = "scheduled" => q.request = runs[r].request /\ q.live = runs[r].live
        BY <3>3, <3>4, Zenon
      <3> HIDE DEF q
      <3> QED
        BY <3>1, <3>3, <3>5, Zenon
    <2> QED
      BY <2>2, <2>3, <2>4, Zenon DEF ScheduleChild
  <1> HIDE DEF r
  <1>4. /\ runs' \in Seq(RunRow) /\ Len(runs') = Len(runs) /\ runs'[r] = q
        /\ DOMAIN runs' = DOMAIN runs
        /\ \A s \in 1..Len(runs) : s # r => runs'[s] = runs[s]
    BY <1>0, <1>2, <1>3, RunIs
  <1>5. ScheduledIsLive'
    BY <1>0, <1>2, <1>3, <1>4, RunIs, Zenon DEF ScheduledIsLive
  <1>6. /\ \A s \in 1..Len(runs) : runs'[s].by = runs[s].by /\ runs'[s].parent = runs[s].parent
        /\ runs'[1].status = "completed"
    BY <1>0, <1>3, <1>4, RunIs, Zenon
  <1>7. /\ client' \in [Clients -> Requests] /\ Releases
        /\ \A d \in Clients : client'[d].step = "schedule" => client'[d] = client[d]
    BY <1>0, <1>1, Answered
  <1> QED
    BY <1>1, <1>4, <1>5, <1>6, <1>7, RunSteps

LEMMA RestartInv ==
  ASSUME ChatInv, Restart
  PROVE  ChatInv'
  <1>0. ChatData /\ ScheduledIsLive
    BY DEF ChatInv
  <1>1. /\ UNCHANGED <<reviews, documents, thread, messages, proposals>>
        /\ client' = [c \in Clients |-> Idle]
        /\ runs' = [r \in 1..Len(runs) |->
             IF runs[r].status # "queued" THEN runs[r]
             ELSE [runs[r] EXCEPT !.live = TRUE, !.request =
                     IF runs[r].request \in {"queued", "schedule_failed"} THEN "scheduled"
                     ELSE runs[r].request]]
    <2>1. DOMAIN runs = 1..Len(runs)
      BY <1>0, RunIs
    <2> QED
      BY <2>1, Zenon DEF Restart
  <1>2. ASSUME NEW r \in 1..Len(runs)
        PROVE  /\ runs'[r] \in RunRow /\ runs'[r].by = runs[r].by /\ runs'[r].parent = runs[r].parent
               /\ runs'[r].status = runs[r].status
               /\ runs'[r] = runs[r] \/ runs'[r].live
    <2>0. runs[r] \in RunRow
      BY <1>0, RunIs
    <2>1. CASE runs[r].status # "queued"
      BY <1>1, <2>0, <2>1
    <2>2. CASE runs[r].status = "queued"
      <3> DEFINE a == IF runs[r].request \in {"queued", "schedule_failed"} THEN "scheduled"
                      ELSE runs[r].request
                 u == [runs[r] EXCEPT !.live = TRUE]
                 q == [u EXCEPT !.request = a]
      <3>1. runs'[r] = q
        BY <1>1, <2>2
      <3>2. a \in {"none", "queued", "scheduled", "schedule_failed"}
        BY <2>0, SMT DEF RunRow
      <3>3. u \in RunRow /\ u.by = runs[r].by /\ u.parent = runs[r].parent
            /\ u.status = runs[r].status /\ u.live
        BY <2>0, LiveSet
      <3>4. q \in RunRow /\ q.by = u.by /\ q.parent = u.parent /\ q.status = u.status /\ q.live = u.live
        BY <3>2, <3>3, RequestSet, ZenonT(30)
      <3> QED
        BY <3>1, <3>3, <3>4, Zenon
    <2> QED
      BY <2>1, <2>2
  <1>3. runs' \in Seq(RunRow) /\ Len(runs') = Len(runs) /\ DOMAIN runs' = 1..Len(runs)
    <2>1. runs' = [r \in 1..Len(runs) |-> runs'[r]]
      BY <1>1
    <2> QED
      BY <1>0, <1>2, <2>1, RowsAreASeq, RunIs
  <1>4. ScheduledIsLive'
    BY <1>0, <1>2, <1>3, RunIs, Zenon DEF ScheduledIsLive
  <1>5. /\ client' \in [Clients -> Requests] /\ Releases
        /\ \A d \in Clients : client'[d].step # "schedule"
    BY <1>1, RequestsAre DEF Releases
  <1>6. runs'[1].status = "completed"
    BY <1>0, <1>2, RunIs
  <1> QED
    BY <1>1, <1>2, <1>3, <1>4, <1>5, <1>6, RunSteps
-----------------------------------------------------------------------------
LEMMA ReviewsAre ==
  ASSUME ChatData
  PROVE  /\ reviews \in Seq(Seq(ReviewRow)) /\ Len(reviews) = Len(runs)
         /\ DOMAIN reviews = 1..Len(runs) /\ DOMAIN runs = 1..Len(runs) /\ Len(runs) \in Nat
         /\ \A r \in 1..Len(runs) : /\ reviews[r] \in Seq(ReviewRow) /\ Len(reviews[r]) \in Nat
                                    /\ DOMAIN reviews[r] = 1..Len(reviews[r])
  <1>1. /\ reviews \in Seq(Seq(ReviewRow)) /\ Len(reviews) = Len(runs) /\ runs \in Seq(RunRow)
    BY DEF ChatData
  <1>2. DOMAIN reviews = 1..Len(runs) /\ DOMAIN runs = 1..Len(runs) /\ Len(runs) \in Nat
    BY <1>1
  <1>3. \A r \in 1..Len(runs) : reviews[r] \in Seq(ReviewRow)
    BY <1>1, <1>2
  <1>4. \A s \in Seq(ReviewRow) : Len(s) \in Nat /\ DOMAIN s = 1..Len(s)
    OBVIOUS
  <1> QED
    BY <1>1, <1>2, <1>3, <1>4
LEMMA RowAdded ==
  ASSUME NEW S, NEW s \in Seq(S), NEW e \in S
  PROVE  /\ Append(s, e) \in Seq(S) /\ Len(Append(s, e)) = Len(s) + 1
         /\ Len(s) \in Nat /\ DOMAIN s = 1..Len(s)
         /\ DOMAIN Append(s, e) = 1..Len(s) + 1 /\ Append(s, e)[Len(s) + 1] = e
         /\ \A i \in 1..Len(s) : Append(s, e)[i] = s[i]
         /\ \A i \in 1..Len(s) + 1 : i \in 1..Len(s) \/ i = Len(s) + 1
  <1>1. Len(s) \in Nat /\ DOMAIN s = 1..Len(s)
    OBVIOUS
  <1>2. \A i \in 1..Len(s) + 1 : i \in 1..Len(s) \/ i = Len(s) + 1
    BY <1>1, SMT
  <1> QED
    BY <1>1, <1>2

LEMMA SubmitOperatorReviewInv ==
  ASSUME ChatInv, NEW r \in DOMAIN runs, SubmitOperatorReview(r)
  PROVE  ChatInv'
  <1> DEFINE row == [by |-> None, after |-> Len(reviews[r])]
  <1>0. /\ ChatData /\ ChatLocks /\ ChatSteps /\ ChatKeys /\ ReviewEffects /\ DocumentEffects
        /\ RunEffects /\ ScheduledIsLive
    BY DEF ChatInv
  <1>1. /\ UNCHANGED <<runs, documents, thread, messages, proposals, client>>
        /\ reviews' = [reviews EXCEPT ![r] = Append(reviews[r], row)]
        /\ ~\E c \in Clients : At(c, "persist") /\ proposals[client[c].proposal].context[1] = r
    BY Zenon DEF SubmitOperatorReview
  <1>2. r \in 1..Len(runs) /\ reviews[r] \in Seq(ReviewRow) /\ row \in ReviewRow /\ row.by = None
    <2>1. r \in 1..Len(runs) /\ reviews[r] \in Seq(ReviewRow) /\ Len(reviews[r]) \in Nat
      BY <1>0, ReviewsAre
    <2> QED
      BY <2>1, SMT DEF ReviewRow, None
  <1> HIDE DEF row
  <1>3. /\ Append(reviews[r], row) \in Seq(ReviewRow)
        /\ DOMAIN reviews[r] \subseteq DOMAIN Append(reviews[r], row)
        /\ \A i \in DOMAIN reviews[r] : Append(reviews[r], row)[i] = reviews[r][i]
        /\ \A i \in DOMAIN Append(reviews[r], row) :
             i \notin DOMAIN reviews[r] => Append(reviews[r], row)[i] = row
    BY <1>2, RowAdded, SMT
  <1>4. /\ reviews' \in Seq(Seq(ReviewRow)) /\ Len(reviews') = Len(runs)
        /\ DOMAIN reviews' = DOMAIN reviews /\ reviews'[r] = Append(reviews[r], row)
        /\ \A s \in DOMAIN reviews : s # r => reviews'[s] = reviews[s]
    BY <1>0, <1>1, <1>2, <1>3, ReviewsAre
  <1>5. /\ client' \in [Clients -> Requests] /\ Releases /\ documents' \in Seq(DocumentRow)
        /\ Len(documents) \in Nat /\ ProposalsMove
    BY <1>0, <1>1, NoMove DEF ChatData, Releases
  <1>6. ChatData'
    BY <1>0, <1>1, <1>4, Zenon DEF ChatData
  <1>7. ChatLocks'
    BY <1>0, <1>1, <1>5, LocksKept, Zenon DEF ChatLocks, Awaiting
  <1>8. ChatSteps'
    <2>1. \A d \in Clients : client'[d].step = "schedule" => client'[d].run \in DOMAIN runs'
      BY <1>0, <1>1 DEF ChatSteps
    <2>2. ASSUME NEW d \in Clients, client'[d].step = "draft", Refreshes(client[d].context)'
          PROVE  \A o \in Awaiting' : ~Locked(o)'
      BY <1>0, <1>1, <2>2, Zenon DEF ChatSteps, Drafted, Refreshes, Awaiting, Locked
    <2>3. ASSUME NEW d \in Clients, client[d].step = "persist" PROVE Persisted(d)'
      <3>1. /\ Persisted(d) /\ proposals[client[d].proposal].context[1] \in DOMAIN reviews
            /\ proposals[client[d].proposal].context[1] # r
        <4>1. client[d].proposal \in DOMAIN proposals
          BY <1>0, <2>3 DEF ChatLocks, HasProposal, Awaiting
        <4> QED
          BY <1>0, <1>1, <2>3, <4>1, ReviewsAre, Zenon DEF ChatSteps, ChatKeys, At
      <3> QED
        BY <1>1, <1>4, <3>1, Zenon DEF Persisted
    <2>4. Len(documents) <= Len(documents')
      BY <1>1, <1>5
    <2> QED
      BY <1>0, <1>1, <1>5, <2>1, <2>2, <2>3, <2>4, StepsKept
  <1>9. ChatKeys' /\ DocumentEffects' /\ RunEffects' /\ ScheduledIsLive'
    BY <1>0, <1>1, <1>5, KeysKept, DocumentEffectsKept, SameRuns
  <1>10. ReviewEffects'
    <2>1. \A s \in DOMAIN reviews :
           /\ DOMAIN reviews[s] \subseteq DOMAIN reviews'[s]
           /\ \A i \in DOMAIN reviews[s] : reviews'[s][i] = reviews[s][i]
           /\ \A i \in DOMAIN reviews'[s] : i \notin DOMAIN reviews[s] => reviews'[s][i].by = None
      BY <1>2, <1>3, <1>4, Zenon
    <2> QED
      BY <1>0, <1>4, <1>5, <2>1, ReviewEffectsKept
  <1> QED
    BY <1>6, <1>7, <1>8, <1>9, <1>10 DEF ChatInv

LEMMA EditDocumentInv ==
  ASSUME ChatAssumption, ChatInv, EditDocument
  PROVE  ChatInv'
  <1> DEFINE row == [parent |-> Len(documents), by |-> None]
  <1>0. /\ ChatData /\ ChatLocks /\ ChatSteps /\ ChatKeys /\ ReviewEffects /\ DocumentEffects
        /\ RunEffects /\ ScheduledIsLive
    BY DEF ChatInv
  <1>1. /\ UNCHANGED <<runs, reviews, thread, messages, proposals, client>>
        /\ documents' = Append(documents, row) /\ Len(documents) \in 1..MaxDocuments - 1
    BY Zenon DEF EditDocument
  <1>2. documents \in Seq(DocumentRow) /\ row \in DocumentRow /\ row.by = None
    <2>1. documents \in Seq(DocumentRow) /\ Len(documents) \in Nat
      BY <1>0 DEF ChatData
    <2> QED
      BY <2>1, SMT DEF DocumentRow, None
  <1> HIDE DEF row
  <1>3. /\ documents' \in Seq(DocumentRow) /\ Len(documents') = Len(documents) + 1
        /\ Len(documents) \in Nat /\ Len(documents) <= Len(documents')
        /\ DOMAIN documents \subseteq DOMAIN documents'
        /\ \A i \in DOMAIN documents : documents'[i] = documents[i]
        /\ \A i \in DOMAIN documents' : i \notin DOMAIN documents => documents'[i].by = None
    BY <1>1, <1>2, RowAdded, SMT
  <1>4. /\ client' \in [Clients -> Requests] /\ Releases /\ ProposalsMove
    BY <1>0, <1>1, NoMove DEF ChatData, Releases
  <1>5. ChatData'
    <2>1. Len(documents') <= MaxDocuments
      BY <1>1, <1>3, SMT DEF ChatAssumption
    <2>2. documents' # <<>>
      BY <1>1, <1>3
    <2> QED
      BY <1>0, <1>1, <1>3, <2>1, <2>2, Zenon DEF ChatData
  <1>6. ChatLocks'
    BY <1>0, <1>1, <1>4, LocksKept, Zenon DEF ChatLocks, Awaiting
  <1>7. ChatSteps'
    <2>1. \A d \in Clients : client'[d].step = "schedule" => client'[d].run \in DOMAIN runs'
      BY <1>0, <1>1 DEF ChatSteps
    <2>2. ASSUME NEW d \in Clients, client'[d].step = "draft", Refreshes(client[d].context)'
          PROVE  \A o \in Awaiting' : ~Locked(o)'
      BY <1>0, <1>1, <2>2, Zenon DEF ChatSteps, Drafted, Refreshes, Awaiting, Locked
    <2>3. \A d \in Clients : client[d].step = "persist" => Persisted(d)'
      BY <1>0, <1>1, Zenon DEF ChatSteps, Persisted
    <2> QED
      BY <1>0, <1>1, <1>3, <1>4, <2>1, <2>2, <2>3, StepsKept
  <1>8. ChatKeys' /\ ReviewEffects' /\ DocumentEffects' /\ RunEffects' /\ ScheduledIsLive'
    BY <1>0, <1>1, <1>3, <1>4, KeysKept, ReviewEffectsKept, DocumentEffectsKept, SameRuns
  <1> QED
    BY <1>5, <1>6, <1>7, <1>8 DEF ChatInv
-----------------------------------------------------------------------------
(* The end of a confirmation: nobody else is under the thread lock or      *)
(* confirms the same proposal.                                             *)
LEMMA ConfirmationEnds ==
  ASSUME ChatData, ChatLocks, ChatSteps, NEW c \in Clients, client[c].step = "persist",
         Releases, client'[c].step \in {"idle", "schedule"},
         \A d \in Clients : d # c => client'[d] = client[d],
         client'[c].step = "schedule" => client'[c].run \in DOMAIN runs',
         DOMAIN runs \subseteq DOMAIN runs',
         \A o \in Awaiting : o # client[c].proposal => o \in Awaiting'
  PROVE  ChatLocks' /\ ChatSteps'
  <1>1. HasThread(c) /\ HasProposal(c)
    BY DEF HasThread, HasProposal
  <1>2. ChatLocks'
    <2>1. ASSUME NEW d \in Clients, HasProposal(d), client'[d] = client[d]
          PROVE  client[d].proposal \in Awaiting'
      <3>1. d # c
        BY <2>1 DEF HasProposal
      <3>2. client[d].proposal # client[c].proposal /\ client[d].proposal \in Awaiting
        BY <1>1, <2>1, <3>1, Zenon DEF ChatLocks
      <3> QED
        BY <3>2
    <2> QED
      BY <2>1, LocksKept
  <1>3. ASSUME NEW d \in Clients
        PROVE  /\ client'[d].step # "draft" /\ client'[d].step # "persist"
               /\ client'[d].step = "schedule" => client'[d].run \in DOMAIN runs'
    <2>1. CASE d = c
      BY <2>1
    <2>2. CASE d # c
      <3>1. ~HasThread(d) /\ client'[d] = client[d]
        BY <1>1, <2>2, Zenon DEF ChatLocks
      <3>2. client[d].step = "schedule" => client[d].run \in DOMAIN runs
        BY DEF ChatSteps
      <3> QED
        BY <3>1, <3>2, Zenon DEF HasThread
    <2> QED
      BY <2>1, <2>2
  <1> QED
    BY <1>2, <1>3, Zenon DEF ChatSteps

(* Proposal p is executed with an effect.                                  *)
Executes(p) ==
  /\ p \in Awaiting
  /\ proposals' \in Seq(ProposalRow) /\ Len(proposals') = Len(proposals)
  /\ \A o \in DOMAIN proposals : o # p => proposals'[o] = proposals[o]
  /\ proposals'[p].status = "executed" /\ proposals'[p].key = proposals[p].key
  /\ proposals'[p].message = proposals[p].message /\ proposals'[p].context = proposals[p].context
  /\ proposals'[p].latest = proposals[p].latest
  /\ proposals'[p].child # None => proposals'[p].child \in DOMAIN runs'
LEMMA ExecutedAre ==
  ASSUME ChatData, NEW p, Executes(p)
  PROVE  /\ DOMAIN proposals' = DOMAIN proposals /\ p \in DOMAIN proposals /\ p # None
         /\ ~ReviewedBy(p) /\ ~RevisedBy(p) /\ ~RerunBy(p)
         /\ ReviewOf(p)' = ReviewOf(p) /\ Executed(p)'
         /\ \A o \in DOMAIN proposals : o # p =>
              /\ ReviewedBy(o)' = ReviewedBy(o) /\ RevisedBy(o)' = RevisedBy(o)
              /\ RerunBy(o)' = RerunBy(o) /\ ReviewOf(o)' = ReviewOf(o)
              /\ proposals'[o] = proposals[o]
         /\ \A o \in Awaiting : o # p => o \in Awaiting'
         /\ \A o \in DOMAIN proposals : o # None
  <1>1. /\ proposals \in Seq(ProposalRow) /\ Len(proposals) \in Nat
        /\ DOMAIN proposals = 1..Len(proposals)
    BY DEF ChatData
  <1>2. DOMAIN proposals' = DOMAIN proposals /\ p \in DOMAIN proposals
    BY <1>1 DEF Executes, Awaiting
  <1>3. \A o \in DOMAIN proposals : o # None
    BY <1>1, SMT DEF None
  <1>4. proposals[p].status # "executed"
    BY DEF Executes, Awaiting
  <1>5. \A o \in DOMAIN proposals : o # p => proposals'[o] = proposals[o]
    BY DEF Executes
  <1>6. \A o \in DOMAIN proposals : o # p =>
              /\ ReviewedBy(o)' = ReviewedBy(o) /\ RevisedBy(o)' = RevisedBy(o)
              /\ RerunBy(o)' = RerunBy(o) /\ ReviewOf(o)' = ReviewOf(o)
    BY <1>5, Zenon DEF ReviewedBy, RevisedBy, RerunBy, ReviewOf, Executed
  <1>7. \A o \in Awaiting : o # p => o \in Awaiting'
    BY <1>2, <1>5, Zenon DEF Awaiting
  <1>8. ~ReviewedBy(p) /\ ~RevisedBy(p) /\ ~RerunBy(p)
    BY <1>4 DEF ReviewedBy, RevisedBy, RerunBy, Executed
  <1>9. ReviewOf(p)' = ReviewOf(p) /\ Executed(p)'
    BY Zenon DEF Executes, ReviewOf, Executed
  <1> QED
    BY <1>2, <1>3, <1>5, <1>6, <1>7, <1>8, <1>9

LEMMA ExecutedKeys ==
  ASSUME ChatData, ChatKeys, NEW p, Executes(p), DOMAIN runs \subseteq DOMAIN runs', UNCHANGED messages
  PROVE  ChatKeys'
  <1>1. /\ DOMAIN proposals' = DOMAIN proposals
        /\ \A o \in DOMAIN proposals : o # p => proposals'[o] = proposals[o]
    BY ExecutedAre
  <1>2. \A o \in DOMAIN proposals : /\ proposals'[o].key = proposals[o].key
                                    /\ proposals'[o].context = proposals[o].context
    BY <1>1, Zenon DEF Executes
  <1>3. OneProposalPerMessage'
    BY <1>1, <1>2, Zenon DEF ChatKeys, OneProposalPerMessage
  <1>4. \A o \in DOMAIN proposals : messages[proposals[o].key] /\ proposals[o].context[1] \in DOMAIN runs'
    BY Zenon DEF ChatKeys
  <1>5. p \notin Awaiting'
    <2>1. proposals'[p].status # "awaiting_confirmation"
      BY DEF Executes
    <2> QED
      BY <2>1, Zenon DEF Awaiting
  <1>6. ASSUME NEW o \in Awaiting' PROVE ~proposals'[o].blocked
    <2>1. o # p /\ o \in DOMAIN proposals /\ proposals'[o] = proposals[o]
      BY <1>1, <1>5, <1>6, Zenon DEF Awaiting
    <2>2. o \in Awaiting
      BY <1>6, <2>1, Zenon DEF Awaiting
    <2> QED
      BY <2>1, <2>2, Zenon DEF ChatKeys
  <1>7. ChildrenExist'
    <2>1. ASSUME NEW o \in DOMAIN proposals, proposals'[o].child # None
          PROVE  proposals'[o].child \in DOMAIN runs'
      <3>1. CASE o = p
        BY <2>1, <3>1 DEF Executes
      <3>2. CASE o # p
        BY <1>1, <2>1, <3>2, Zenon DEF ChatKeys, ChildrenExist
      <3> QED
        BY <3>1, <3>2
    <2> QED
      BY <1>1, <2>1, Zenon DEF ChildrenExist
  <1> QED
    BY <1>1, <1>2, <1>3, <1>4, <1>6, <1>7, Zenon DEF ChatKeys

(* Its review follows the version it was proposed at.                      *)
LEMMA ReviewedAt ==
  ASSUME ChatData, ReviewEffects, NEW p, Executes(p), ReviewedBy(p)',
         Len(reviews[proposals[p].context[1]]) = proposals[p].context[2],
         proposals[p].context[1] \in DOMAIN runs, Reviewed(p, proposals[p].context[1]),
         Len(runs') \in Nat, Len(runs) <= Len(runs')
  PROVE  /\ reviews' \in Seq(Seq(ReviewRow)) /\ Len(reviews') = Len(runs')
         /\ ReviewEffects'
  <1>1. PICK x, row : x = proposals[p].context[1] /\ row = [by |-> p, after |-> proposals[p].context[2]]
    OBVIOUS
  <1>2. /\ reviews \in Seq(Seq(ReviewRow)) /\ Len(reviews) = Len(runs)
        /\ DOMAIN reviews = 1..Len(runs) /\ DOMAIN runs = 1..Len(runs) /\ Len(runs) \in Nat
        /\ \A r \in 1..Len(runs) : /\ reviews[r] \in Seq(ReviewRow) /\ Len(reviews[r]) \in Nat
                                   /\ DOMAIN reviews[r] = 1..Len(reviews[r])
    BY ReviewsAre
  <1>3. /\ DOMAIN proposals' = DOMAIN proposals /\ p \in DOMAIN proposals /\ p # None
        /\ ~ReviewedBy(p) /\ ReviewOf(p)' = ReviewOf(p)
        /\ \A o \in DOMAIN proposals : o # p => ReviewedBy(o)' = ReviewedBy(o) /\ ReviewOf(o)' = ReviewOf(o)
        /\ \A o \in DOMAIN proposals : o # None
    BY ExecutedAre
  <1>4. x \in 1..Len(runs) /\ row \in ReviewRow /\ row.by = p /\ reviews[x] \in Seq(ReviewRow)
        /\ ReviewOf(p) = <<x, Len(reviews[x]) + 1>>
    <2>1. p \in Nat /\ proposals[p] \in ProposalRow
      BY <1>3 DEF ChatData
    <2>2. proposals[p].context \in ContextType
      BY <2>1 DEF ProposalRow
    <2>3. proposals[p].context[2] \in Nat
      BY <2>2 DEF ContextType
    <2> QED
      BY <1>1, <1>2, <2>1, <2>3, Zenon DEF ReviewRow, ReviewOf
  <1>5. reviews' = [r \in 1..Len(runs') |->
                      IF r = x THEN Append(reviews[x], row)
                      ELSE IF r \in 1..Len(runs) THEN reviews[r] ELSE <<>>]
    BY <1>1, <1>2, Zenon DEF Reviewed
  <1>6. /\ Append(reviews[x], row) \in Seq(ReviewRow)
        /\ DOMAIN Append(reviews[x], row) = 1..Len(reviews[x]) + 1
        /\ DOMAIN reviews[x] = 1..Len(reviews[x]) /\ Len(reviews[x]) \in Nat
        /\ Append(reviews[x], row)[Len(reviews[x]) + 1] = row
        /\ \A i \in 1..Len(reviews[x]) : Append(reviews[x], row)[i] = reviews[x][i]
        /\ \A i \in 1..Len(reviews[x]) + 1 : i \in 1..Len(reviews[x]) \/ i = Len(reviews[x]) + 1
    BY <1>4, RowAdded
  <1>7. /\ x \in 1..Len(runs') /\ \A r \in 1..Len(runs) : r \in 1..Len(runs')
        /\ Len(reviews[x]) + 1 \in 1..Len(reviews[x]) + 1
        /\ \A i \in 1..Len(reviews[x]) : i \in 1..Len(reviews[x]) + 1
    BY <1>2, <1>4, <1>6, SMT
  <1>8. /\ reviews' \in Seq(Seq(ReviewRow)) /\ Len(reviews') = Len(runs') /\ DOMAIN reviews' = 1..Len(runs')
    <2>1. \A r \in 1..Len(runs') : reviews'[r] \in Seq(ReviewRow)
      <3>1. <<>> \in Seq(ReviewRow)
        OBVIOUS
      <3> QED
        BY <1>2, <1>5, <1>6, <3>1
    <2>2. reviews' = [r \in 1..Len(runs') |-> reviews'[r]]
      BY <1>5
    <2>3. reviews' \in Seq(Seq(ReviewRow)) /\ Len(reviews') = Len(runs')
      BY <2>1, <2>2, RowsAreASeq
    <2> QED
      BY <1>5, <2>3
  <1>9. /\ reviews'[x] = Append(reviews[x], row)
        /\ \A r \in 1..Len(runs) : r # x => reviews'[r] = reviews[r]
        /\ \A r \in 1..Len(runs') : r \notin 1..Len(runs) => reviews'[r] = <<>>
    BY <1>4, <1>5, <1>7, Zenon
  (* A row is the new one, or was there before.                            *)
  <1>10. ASSUME NEW r \in DOMAIN reviews', NEW i \in DOMAIN reviews'[r]
         PROVE  \/ r = x /\ i = Len(reviews[x]) + 1 /\ reviews'[r][i] = row
                \/ r \in DOMAIN reviews /\ i \in DOMAIN reviews[r] /\ reviews'[r][i] = reviews[r][i]
    <2>1. CASE r = x
      BY <1>2, <1>4, <1>6, <1>9, <1>10, <2>1, Zenon
    <2>2. CASE r # x /\ r \in 1..Len(runs)
      BY <1>2, <1>9, <1>10, <2>2, Zenon
    <2>3. CASE r \notin 1..Len(runs)
      <3>1. reviews'[r] = <<>>
        BY <1>8, <1>9, <1>10, <2>3, Zenon
      <3>2. FALSE
        BY <1>10, <3>1
      <3> QED
        BY <3>2
    <2> QED
      BY <2>1, <2>2, <2>3
  <1>11. ASSUME NEW r \in DOMAIN reviews, NEW i \in DOMAIN reviews[r]
         PROVE  /\ r \in DOMAIN reviews' /\ i \in DOMAIN reviews'[r]
                /\ reviews'[r][i] = reviews[r][i]
    <2>1. CASE r = x
      BY <1>6, <1>7, <1>8, <1>9, <1>11, <2>1, Zenon
    <2>2. CASE r # x
      BY <1>2, <1>7, <1>8, <1>9, <1>11, <2>2, Zenon
    <2> QED
      BY <2>1, <2>2
  <1>12. ASSUME NEW r \in DOMAIN reviews', NEW i \in DOMAIN reviews'[r], reviews'[r][i].by # None
         PROVE  reviews'[r][i].by \in DOMAIN proposals'
    <2>1. CASE reviews'[r][i] = row
      BY <1>3, <1>4, <2>1
    <2>2. CASE r \in DOMAIN reviews /\ i \in DOMAIN reviews[r] /\ reviews'[r][i] = reviews[r][i]
      <3>1. reviews[r][i].by # None
        BY <1>12, <2>2
      <3>2. reviews[r][i].by \in DOMAIN proposals
        BY <2>2, <3>1, Zenon DEF ReviewEffects
      <3> QED
        BY <1>3, <2>2, <3>2
    <2> QED
      BY <1>10, <1>12, <2>1, <2>2
  <1>13. ASSUME NEW o \in DOMAIN proposals', NEW r \in DOMAIN reviews', NEW i \in DOMAIN reviews'[r],
                reviews'[r][i].by = o
         PROVE  ReviewedBy(o)' /\ ReviewOf(o)' = <<r, i>>
    <2>1. CASE r = x /\ i = Len(reviews[x]) + 1 /\ reviews'[r][i] = row
      <3>1. o = p
        BY <1>4, <1>13, <2>1
      <3> QED
        BY <1>3, <1>4, <2>1, <3>1, Zenon
    <2>2. CASE r \in DOMAIN reviews /\ i \in DOMAIN reviews[r] /\ reviews'[r][i] = reviews[r][i]
      <3>1. ReviewedBy(o) /\ ReviewOf(o) = <<r, i>> /\ o \in DOMAIN proposals
        <4>1. reviews[r][i].by = o
          BY <1>13, <2>2
        <4>2. o \in DOMAIN proposals
          BY <1>3, <1>13
        <4> QED
          BY <2>2, <4>1, <4>2, Zenon DEF ReviewEffects
      <3>2. o # p
        BY <1>3, <3>1
      <3> QED
        BY <1>3, <3>1, <3>2, Zenon
    <2> QED
      BY <1>10, <1>13, <2>1, <2>2
  <1>14. ASSUME NEW o \in DOMAIN proposals', ReviewedBy(o)'
         PROVE  \E r \in DOMAIN reviews' : \E i \in DOMAIN reviews'[r] :
                  reviews'[r][i].by = o /\ ReviewOf(o)' = <<r, i>>
    <2>1. CASE o = p
      <3>1. /\ x \in DOMAIN reviews' /\ Len(reviews[x]) + 1 \in DOMAIN reviews'[x]
            /\ reviews'[x][Len(reviews[x]) + 1].by = p
        BY <1>4, <1>6, <1>7, <1>8, <1>9, Zenon
      <3> QED
        BY <1>3, <1>4, <2>1, <3>1, Zenon
    <2>2. CASE o # p
      <3>1. ReviewedBy(o) /\ ReviewOf(o)' = ReviewOf(o) /\ o \in DOMAIN proposals
        BY <1>3, <1>14, <2>2, Zenon
      <3>2. PICK r \in DOMAIN reviews : \E i \in DOMAIN reviews[r] :
              reviews[r][i].by = o /\ ReviewOf(o) = <<r, i>>
        BY <3>1, Zenon DEF ReviewEffects
      <3>3. PICK i \in DOMAIN reviews[r] : reviews[r][i].by = o /\ ReviewOf(o) = <<r, i>>
        BY <3>2
      <3>4. r \in DOMAIN reviews' /\ i \in DOMAIN reviews'[r] /\ reviews'[r][i] = reviews[r][i]
        BY <1>11, <3>2, <3>3
      <3> QED
        BY <3>1, <3>3, <3>4, Zenon
    <2> QED
      BY <2>1, <2>2
  <1> QED
    BY <1>8, <1>12, <1>13, <1>14, Zenon DEF ReviewEffects
(* A revision: its version of the work order follows the latest.           *)
LEMMA RevisedAt ==
  ASSUME ChatData, DocumentEffects, NEW p, Executes(p), RevisedBy(p)',
         Len(documents) = proposals[p].latest, NEW row \in DocumentRow, row.by = p,
         documents' = Append(documents, row)
  PROVE  documents' \in Seq(DocumentRow) /\ Len(documents') = Len(documents) + 1 /\ DocumentEffects'
  <1>1. /\ DOMAIN proposals' = DOMAIN proposals /\ p \in DOMAIN proposals /\ p # None
        /\ ~RevisedBy(p)
        /\ \A o \in DOMAIN proposals : o # p =>
             RevisedBy(o)' = RevisedBy(o) /\ proposals'[o] = proposals[o]
        /\ \A o \in DOMAIN proposals : o # None
    BY ExecutedAre
  <1>2. documents \in Seq(DocumentRow)
    BY DEF ChatData
  <1>3. /\ documents' \in Seq(DocumentRow) /\ Len(documents') = Len(documents) + 1
        /\ Len(documents) \in Nat /\ DOMAIN documents = 1..Len(documents)
        /\ DOMAIN documents' = 1..Len(documents) + 1
        /\ documents'[Len(documents) + 1] = row
        /\ \A i \in 1..Len(documents) : documents'[i] = documents[i]
        /\ \A i \in 1..Len(documents) + 1 : i \in 1..Len(documents) \/ i = Len(documents) + 1
    BY <1>2, RowAdded
  <1>4. /\ Len(documents) + 1 \in 1..Len(documents) + 1
        /\ \A i \in 1..Len(documents) : i \in 1..Len(documents) + 1
    BY <1>3, SMT
  <1>5. proposals'[p].latest = Len(documents)
    BY DEF Executes
  <1>6. ASSUME NEW i \in DOMAIN documents', documents'[i].by # None
        PROVE  documents'[i].by \in DOMAIN proposals'
    <2>1. CASE i \in 1..Len(documents)
      <3>1. documents'[i] = documents[i] /\ i \in DOMAIN documents
        BY <1>3, <2>1
      <3>2. documents[i].by \in DOMAIN proposals
        BY <1>6, <3>1, Zenon DEF DocumentEffects
      <3> QED
        BY <1>1, <3>1, <3>2
    <2>2. CASE i = Len(documents) + 1
      BY <1>1, <1>3, <2>2
    <2> QED
      BY <1>3, <2>1, <2>2
  <1>7. ASSUME NEW o \in DOMAIN proposals', NEW i \in DOMAIN documents', documents'[i].by = o
        PROVE  RevisedBy(o)' /\ i = proposals'[o].latest + 1
    <2>1. CASE i \in 1..Len(documents)
      <3>1. documents[i].by = o /\ o \in DOMAIN proposals /\ i \in DOMAIN documents
        BY <1>1, <1>3, <1>7, <2>1
      <3>2. RevisedBy(o) /\ i = proposals[o].latest + 1
        BY <3>1, Zenon DEF DocumentEffects
      <3>3. o # p
        BY <1>1, <3>2
      <3> QED
        BY <1>1, <3>1, <3>2, <3>3, Zenon
    <2>2. CASE i = Len(documents) + 1
      <3>1. o = p
        BY <1>3, <1>7, <2>2
      <3> QED
        BY <1>5, <2>2, <3>1, Zenon
    <2> QED
      BY <1>3, <2>1, <2>2
  <1>8. ASSUME NEW o \in DOMAIN proposals', RevisedBy(o)'
        PROVE  \E i \in DOMAIN documents' : documents'[i].by = o /\ i = proposals'[o].latest + 1
    <2>1. CASE o = p
      BY <1>3, <1>4, <1>5, <2>1, Zenon
    <2>2. CASE o # p
      <3>1. RevisedBy(o) /\ o \in DOMAIN proposals /\ proposals'[o] = proposals[o]
        BY <1>1, <1>8, <2>2, Zenon
      <3>2. PICK i \in DOMAIN documents : documents[i].by = o /\ i = proposals[o].latest + 1
        BY <3>1, Zenon DEF DocumentEffects
      <3>3. i \in DOMAIN documents' /\ documents'[i] = documents[i]
        BY <1>3, <1>4, <3>2
      <3> QED
        BY <3>1, <3>2, <3>3, Zenon
    <2> QED
      BY <2>1, <2>2
  <1> QED
    BY <1>3, <1>6, <1>7, <1>8, Zenon DEF DocumentEffects

(* No revision: the work order keeps its versions.                         *)
LEMMA NotRevised ==
  ASSUME ChatData, DocumentEffects, NEW p, Executes(p), ~RevisedBy(p)', UNCHANGED documents
  PROVE  DocumentEffects'
  <1>1. /\ DOMAIN proposals' = DOMAIN proposals /\ p \in DOMAIN proposals
        /\ ~RevisedBy(p)
        /\ \A o \in DOMAIN proposals : o # p =>
             RevisedBy(o)' = RevisedBy(o) /\ proposals'[o] = proposals[o]
    BY ExecutedAre
  <1>2. \A i \in DOMAIN documents' : documents'[i].by # None => documents'[i].by \in DOMAIN proposals'
    BY <1>1, Zenon DEF DocumentEffects
  <1>3. ASSUME NEW o \in DOMAIN proposals, NEW i \in DOMAIN documents, documents[i].by = o
        PROVE  RevisedBy(o)' /\ i = proposals'[o].latest + 1
    <2>1. RevisedBy(o) /\ i = proposals[o].latest + 1
      BY <1>3, Zenon DEF DocumentEffects
    <2>2. o # p
      BY <1>1, <2>1
    <2> QED
      BY <1>1, <2>1, <2>2, Zenon
  <1>4. ASSUME NEW o \in DOMAIN proposals, RevisedBy(o)'
        PROVE  \E i \in DOMAIN documents : documents[i].by = o /\ i = proposals'[o].latest + 1
    <2>1. o # p
      BY <1>4
    <2>2. RevisedBy(o) /\ proposals'[o] = proposals[o]
      BY <1>1, <1>4, <2>1, Zenon
    <2>3. PICK i \in DOMAIN documents : documents[i].by = o /\ i = proposals[o].latest + 1
      BY <2>2, Zenon DEF DocumentEffects
    <2> QED
      BY <2>2, <2>3, Zenon
  <1> QED
    BY <1>1, <1>2, <1>3, <1>4, Zenon DEF DocumentEffects

(* A rerun: the proposal names the child it created.                       *)
LEMMA RerunAt ==
  ASSUME ChatData, RunEffects, NEW p, Executes(p), RerunBy(p)',
         NEW row \in RunRow, row.by = p, runs' = Append(runs, row),
         proposals'[p].child = Len(runs) + 1
  PROVE  RunEffects'
  <1>1. /\ DOMAIN proposals' = DOMAIN proposals /\ p \in DOMAIN proposals /\ p # None
        /\ ~RerunBy(p)
        /\ \A o \in DOMAIN proposals : o # p =>
             RerunBy(o)' = RerunBy(o) /\ proposals'[o] = proposals[o]
    BY ExecutedAre
  <1>2. runs \in Seq(RunRow)
    BY DEF ChatData
  <1>3. /\ Len(runs) \in Nat /\ DOMAIN runs = 1..Len(runs)
        /\ DOMAIN runs' = 1..Len(runs) + 1 /\ runs'[Len(runs) + 1] = row
        /\ \A i \in 1..Len(runs) : runs'[i] = runs[i]
        /\ \A i \in 1..Len(runs) + 1 : i \in 1..Len(runs) \/ i = Len(runs) + 1
    BY <1>2, RowAdded
  <1>4. /\ Len(runs) + 1 \in 1..Len(runs) + 1
        /\ \A i \in 1..Len(runs) : i \in 1..Len(runs) + 1
    BY <1>3, SMT
  <1>5. ASSUME NEW i \in DOMAIN runs', runs'[i].by # None
        PROVE  runs'[i].by \in DOMAIN proposals'
    <2>1. CASE i \in 1..Len(runs)
      <3>1. runs'[i] = runs[i] /\ i \in DOMAIN runs
        BY <1>3, <2>1
      <3>2. runs[i].by \in DOMAIN proposals
        BY <1>5, <3>1, Zenon DEF RunEffects
      <3> QED
        BY <1>1, <3>1, <3>2
    <2>2. CASE i = Len(runs) + 1
      BY <1>1, <1>3, <2>2
    <2> QED
      BY <1>3, <2>1, <2>2
  <1>6. ASSUME NEW o \in DOMAIN proposals', NEW i \in DOMAIN runs', runs'[i].by = o
        PROVE  RerunBy(o)' /\ i = proposals'[o].child
    <2>1. CASE i \in 1..Len(runs)
      <3>1. runs[i].by = o /\ o \in DOMAIN proposals /\ i \in DOMAIN runs
        BY <1>1, <1>3, <1>6, <2>1
      <3>2. RerunBy(o) /\ i = proposals[o].child
        BY <3>1, Zenon DEF RunEffects
      <3>3. o # p
        BY <1>1, <3>2
      <3> QED
        BY <1>1, <3>1, <3>2, <3>3, Zenon
    <2>2. CASE i = Len(runs) + 1
      <3>1. o = p
        BY <1>3, <1>6, <2>2
      <3> QED
        BY <2>2, <3>1, Zenon
    <2> QED
      BY <1>3, <2>1, <2>2
  <1>7. ASSUME NEW o \in DOMAIN proposals', RerunBy(o)'
        PROVE  \E i \in DOMAIN runs' : runs'[i].by = o /\ i = proposals'[o].child
    <2>1. CASE o = p
      BY <1>3, <1>4, <2>1, Zenon
    <2>2. CASE o # p
      <3>1. RerunBy(o) /\ o \in DOMAIN proposals /\ proposals'[o] = proposals[o]
        BY <1>1, <1>7, <2>2, Zenon
      <3>2. PICK i \in DOMAIN runs : runs[i].by = o /\ i = proposals[o].child
        BY <3>1, Zenon DEF RunEffects
      <3>3. i \in DOMAIN runs' /\ runs'[i] = runs[i]
        BY <1>3, <1>4, <3>2
      <3> QED
        BY <3>1, <3>2, <3>3, Zenon
    <2> QED
      BY <2>1, <2>2
  <1> QED
    BY <1>5, <1>6, <1>7, Zenon DEF RunEffects

LEMMA NotRerun ==
  ASSUME ChatData, RunEffects, NEW p, Executes(p), ~RerunBy(p)', UNCHANGED runs
  PROVE  RunEffects'
  <1>1. /\ DOMAIN proposals' = DOMAIN proposals /\ p \in DOMAIN proposals
        /\ ~RerunBy(p)
        /\ \A o \in DOMAIN proposals : o # p =>
             RerunBy(o)' = RerunBy(o) /\ proposals'[o] = proposals[o]
    BY ExecutedAre
  <1>2. \A i \in DOMAIN runs' : runs'[i].by # None => runs'[i].by \in DOMAIN proposals'
    BY <1>1, Zenon DEF RunEffects
  <1>3. ASSUME NEW o \in DOMAIN proposals, NEW i \in DOMAIN runs, runs[i].by = o
        PROVE  RerunBy(o)' /\ i = proposals'[o].child
    <2>1. RerunBy(o) /\ i = proposals[o].child
      BY <1>3, Zenon DEF RunEffects
    <2>2. o # p
      BY <1>1, <2>1
    <2> QED
      BY <1>1, <2>1, <2>2, Zenon
  <1>4. ASSUME NEW o \in DOMAIN proposals, RerunBy(o)'
        PROVE  \E i \in DOMAIN runs : runs[i].by = o /\ i = proposals'[o].child
    <2>1. o # p
      BY <1>4
    <2>2. RerunBy(o) /\ proposals'[o] = proposals[o]
      BY <1>1, <1>4, <2>1, Zenon
    <2>3. PICK i \in DOMAIN runs : runs[i].by = o /\ i = proposals[o].child
      BY <2>2, Zenon DEF RunEffects
    <2> QED
      BY <2>2, <2>3, Zenon
  <1> QED
    BY <1>1, <1>2, <1>3, <1>4, Zenon DEF RunEffects
-----------------------------------------------------------------------------
LEMMA ConfirmedIs ==
  ASSUME ChatInv, NEW c \in Clients, client[c].step = "persist"
  PROVE  LET p == client[c].proposal IN
         /\ p \in Awaiting /\ p \in DOMAIN proposals /\ p \in Nat /\ proposals[p] \in ProposalRow
         /\ proposals[p].status = "awaiting_confirmation" /\ ~proposals[p].blocked
         /\ proposals[p].context[1] \in DOMAIN runs
         /\ Len(reviews[proposals[p].context[1]]) = proposals[p].context[2]
         /\ proposals[p].child # None => proposals[p].child \in DOMAIN runs
  <1> DEFINE p == client[c].proposal
  <1>0. ChatData /\ ChatLocks /\ ChatSteps /\ ChatKeys
    BY DEF ChatInv
  <1>1. p \in Awaiting
    BY <1>0 DEF ChatLocks, HasProposal
  <1>2. p \in DOMAIN proposals /\ proposals[p].status = "awaiting_confirmation"
    BY <1>1 DEF Awaiting
  <1>3. p \in Nat /\ proposals[p] \in ProposalRow
    BY <1>0, <1>2 DEF ChatData
  <1>4. ~proposals[p].blocked /\ proposals[p].context[1] \in DOMAIN runs
    BY <1>0, <1>1, <1>2 DEF ChatKeys
  <1>5. Len(reviews[proposals[p].context[1]]) = proposals[p].context[2]
    BY <1>0 DEF ChatSteps, Persisted
  <1>6. proposals[p].child # None => proposals[p].child \in DOMAIN runs
    BY <1>0, <1>2 DEF ChatKeys, ChildrenExist
  <1> QED
    BY <1>1, <1>2, <1>3, <1>4, <1>5, <1>6

LEMMA BlockedSet ==
  ASSUME NEW q \in ProposalRow, NEW b \in BOOLEAN
  PROVE  /\ [q EXCEPT !.blocked = b] \in ProposalRow
         /\ [q EXCEPT !.blocked = b].key = q.key /\ [q EXCEPT !.blocked = b].message = q.message
         /\ [q EXCEPT !.blocked = b].context = q.context
         /\ [q EXCEPT !.blocked = b].latest = q.latest
         /\ [q EXCEPT !.blocked = b].child = q.child
         /\ [q EXCEPT !.blocked = b].status = q.status
         /\ [q EXCEPT !.blocked = b].blocked = b
  BY SMT DEF ProposalRow
LEMMA ChildSet ==
  ASSUME NEW q \in ProposalRow, NEW n \in Nat
  PROVE  /\ [q EXCEPT !.child = n] \in ProposalRow
         /\ [q EXCEPT !.child = n].key = q.key /\ [q EXCEPT !.child = n].message = q.message
         /\ [q EXCEPT !.child = n].context = q.context
         /\ [q EXCEPT !.child = n].latest = q.latest
         /\ [q EXCEPT !.child = n].blocked = q.blocked
         /\ [q EXCEPT !.child = n].status = q.status
         /\ [q EXCEPT !.child = n].child = n
  BY SMT DEF ProposalRow
LEMMA RevisionIsNoRerun ==
  ASSUME NEW m, Revises(m)
  PROVE  ~Reruns(m)
  BY SMT DEF Revises, Reruns, Targeted
LEMMA ExecutedBecomes ==
  ASSUME ChatData, NEW p \in Awaiting, NEW q \in ProposalRow, proposals' = [proposals EXCEPT ![p] = q],
         q.status = "executed", q.key = proposals[p].key, q.message = proposals[p].message,
         q.context = proposals[p].context, q.latest = proposals[p].latest,
         q.child # None => q.child \in DOMAIN runs'
  PROVE  Executes(p) /\ proposals'[p] = q /\ p \in DOMAIN proposals
  <1>1. proposals \in Seq(ProposalRow) /\ p \in DOMAIN proposals
    BY DEF ChatData, Awaiting
  <1>2. /\ proposals' \in Seq(ProposalRow) /\ Len(proposals') = Len(proposals)
        /\ proposals'[p] = q /\ \A o \in DOMAIN proposals : o # p => proposals'[o] = proposals[o]
    BY <1>1
  <1> QED
    BY <1>1, <1>2, Zenon DEF Executes

LEMMA PersistDocumentInv ==
  ASSUME ChatAssumption, ChatInv, NEW c \in Clients, PersistDocument(c)
  PROVE  ChatInv'
  <1>p. PICK p, x : p = client[c].proposal /\ x = proposals[p]
    OBVIOUS
  <1>0. /\ ChatData /\ ChatLocks /\ ChatSteps /\ ChatKeys /\ ReviewEffects /\ DocumentEffects
        /\ RunEffects /\ ScheduledIsLive
    BY DEF ChatInv
  <1>1. /\ client[c].step = "persist" /\ Revises(x.message) /\ Answers(c)
        /\ UNCHANGED <<runs, thread, messages>>
    BY <1>p, Zenon DEF PersistDocument, At
  <1>2. /\ p \in Awaiting /\ p \in DOMAIN proposals /\ p \in Nat /\ x \in ProposalRow
        /\ x.status = "awaiting_confirmation" /\ ~x.blocked /\ x.context[1] \in DOMAIN runs
        /\ Len(reviews[x.context[1]]) = x.context[2]
        /\ x.child # None => x.child \in DOMAIN runs
    BY <1>p, <1>1, ConfirmedIs
  <1>3. /\ client' \in [Clients -> Requests] /\ client'[c].step = "idle"
        /\ \A d \in Clients : d # c => client'[d] = client[d]
        /\ Releases
    BY <1>0, <1>1, Answered
  <1>4. ASSUME NEW q \in ProposalRow, proposals' = [proposals EXCEPT ![p] = q],
               q.key = x.key, q.message = x.message, q.context = x.context, q.latest = x.latest,
               q.child = x.child,
               q.status = "stale" \/ (q.status = "executed" /\ q.blocked),
               UNCHANGED <<reviews, documents>>
        PROVE  ChatInv'
    <2>1. /\ ProposalsMove /\ Len(proposals') = Len(proposals)
          /\ \A o \in Awaiting : o # p => o \in Awaiting'
      BY <1>p, <1>0, <1>1, <1>2, <1>4, SetMoves
    <2>2. ChatLocks' /\ ChatSteps'
      BY <1>p, <1>0, <1>1, <1>3, <2>1, ConfirmationEnds
    <2>3. thread' \in [open : BOOLEAN, context : ContextType \cup {<<>>}] /\ thread'.open = thread.open
      BY <1>0, <1>1 DEF ChatData
    <2> QED
      BY <1>1, <1>3, <1>4, <2>1, <2>2, <2>3, ProposalSteps
  <1>5. CASE WithProposal(p, "stale") /\ UNCHANGED <<reviews, documents>>
    <2>1. proposals' = [proposals EXCEPT ![p] = [x EXCEPT !.status = "stale"]]
      BY <1>p, <1>5 DEF WithProposal
    <2>2. "stale" \in ProposalStatuses
      BY DEF ProposalStatuses
    <2>3. PICK q : q = [x EXCEPT !.status = "stale"]
      OBVIOUS
    <2>4. /\ q \in ProposalRow /\ q.key = x.key /\ q.message = x.message /\ q.context = x.context
          /\ q.latest = x.latest /\ q.child = x.child /\ q.status = "stale"
      BY <1>2, <2>2, <2>3, StatusSet
    <2> QED
      BY <1>4, <1>5, <2>1, <2>3, <2>4
  <1>6. CASE /\ proposals' = [proposals EXCEPT ![p].status = "executed", ![p].blocked = TRUE]
             /\ UNCHANGED <<reviews, documents>>
    <2>1. PICK u : u = [x EXCEPT !.status = "executed"]
      OBVIOUS
    <2>2. PICK q : q = [u EXCEPT !.blocked = TRUE]
      OBVIOUS
    <2>3. /\ u \in ProposalRow /\ u.key = x.key /\ u.message = x.message /\ u.context = x.context
          /\ u.latest = x.latest /\ u.child = x.child /\ u.status = "executed"
      <3>1. "executed" \in ProposalStatuses
        BY DEF ProposalStatuses
      <3> QED
        BY <1>2, <2>1, <3>1, StatusSet
    <2>4. /\ q \in ProposalRow /\ q.key = u.key /\ q.message = u.message /\ q.context = u.context
          /\ q.latest = u.latest /\ q.child = u.child /\ q.status = u.status /\ q.blocked = TRUE
      BY <2>2, <2>3, BlockedSet
    <2>5. proposals' = [proposals EXCEPT ![p] = q]
      BY <1>p, <1>2, <1>6, <2>1, <2>2
    <2> QED
      BY <1>4, <1>6, <2>3, <2>4, <2>5, Zenon
  <1>7. CASE /\ Len(documents) = x.latest /\ ~Undrafted(x)
             /\ documents' = Append(documents, [parent |-> x.base, by |-> p])
             /\ WithProposal(p, "executed") /\ Reviewed(p, x.context[1])
    <2>1. PICK q, row : q = [x EXCEPT !.status = "executed"] /\ row = [parent |-> x.base, by |-> p]
      OBVIOUS
    <2>2. /\ q \in ProposalRow /\ q.key = x.key /\ q.message = x.message /\ q.context = x.context
          /\ q.latest = x.latest /\ q.child = x.child /\ q.status = "executed" /\ ~q.blocked
      <3>1. "executed" \in ProposalStatuses
        BY DEF ProposalStatuses
      <3> QED
        BY <1>2, <2>1, <3>1, StatusSet
    <2>3. row \in DocumentRow /\ row.by = p
      <3>1. x.base \in Nat
        BY <1>2 DEF ProposalRow
      <3> QED
        BY <1>2, <2>1, <3>1 DEF DocumentRow
    <2>4. Executes(p) /\ proposals'[p] = q
      <3>1. proposals' = [proposals EXCEPT ![p] = q]
        BY <1>p, <1>7, <2>1 DEF WithProposal
      <3>2. q.child # None => q.child \in DOMAIN runs'
        BY <1>1, <1>2, <2>2
      <3>3. /\ q.key = proposals[p].key /\ q.message = proposals[p].message
            /\ q.context = proposals[p].context /\ q.latest = proposals[p].latest
        BY <1>p, <2>2
      <3> QED
        BY <1>0, <1>2, <2>2, <3>1, <3>2, <3>3, ExecutedBecomes
    <2>5. RevisedBy(p)' /\ ReviewedBy(p)' /\ ~RerunBy(p)'
      <3>1. ~Reruns(q.message)
        BY <1>1, <2>2, RevisionIsNoRerun
      <3> QED
        BY <1>1, <2>2, <2>4, <3>1, Zenon DEF RevisedBy, ReviewedBy, RerunBy, Executed
    <2>6. /\ reviews' \in Seq(Seq(ReviewRow)) /\ Len(reviews') = Len(runs')
          /\ ReviewEffects'
      <3>1. Len(runs') \in Nat /\ Len(runs) <= Len(runs')
        BY <1>0, <1>1, RunIs, SMT
      <3> QED
        BY <1>p, <1>0, <1>2, <1>7, <2>4, <2>5, <3>1, ReviewedAt
    <2>7. documents' \in Seq(DocumentRow) /\ Len(documents') = Len(documents) + 1 /\ DocumentEffects'
      BY <1>p, <1>0, <1>7, <2>1, <2>3, <2>4, <2>5, RevisedAt
    <2>8. RunEffects' /\ ScheduledIsLive'
      BY <1>0, <1>1, <2>4, <2>5, NotRerun, SameRuns
    <2>9. ChatKeys' /\ ChatLocks' /\ ChatSteps'
      <3>1. ChatKeys'
        BY <1>0, <1>1, <2>4, ExecutedKeys
      <3>2. \A o \in Awaiting : o # p => o \in Awaiting'
        BY <1>0, <2>4, ExecutedAre
      <3> QED
        BY <1>p, <1>0, <1>1, <1>3, <3>1, <3>2, ConfirmationEnds
    <2>10. ChatData'
      <3>1. Len(documents') <= MaxDocuments /\ documents' # <<>>
        <4>1. Len(documents) \in Nat /\ ~(Len(documents) >= DocumentLimit)
          BY <1>0, <1>7 DEF Undrafted, ChatData
        <4>2. Len(documents) + 1 <= MaxDocuments
          BY <4>1, SMT DEF ChatAssumption
        <4> QED
          BY <2>7, <4>1, <4>2
      <3>2. proposals' \in Seq(ProposalRow)
        BY <2>4 DEF Executes
      <3> QED
        BY <1>0, <1>1, <1>3, <2>6, <2>7, <3>1, <3>2, Zenon DEF ChatData
    <2> QED
      BY <2>6, <2>7, <2>8, <2>9, <2>10 DEF ChatInv
  <1> QED
    BY <1>p, <1>5, <1>6, <1>7, Zenon DEF PersistDocument

LEMMA RecordProposedReviewInv ==
  ASSUME ChatAssumption, ChatInv, NEW c \in Clients, RecordProposedReview(c)
  PROVE  ChatInv'
  <1>p. PICK p, x, r : p = client[c].proposal /\ x = proposals[p] /\ r = x.context[1]
    OBVIOUS
  <1>d. PICK rerun \in BOOLEAN : rerun = (Reruns(x.message) /\ ~RerunBlocked(x.message, r))
    BY Zenon DEF Reruns
  <1>w. PICK row : row = [parent |-> r, depth |-> runs[r].depth + 1, status |-> "queued",
                          request |-> "queued", live |-> FALSE, by |-> p]
    OBVIOUS
  <1>0. /\ ChatData /\ ChatLocks /\ ChatSteps /\ ChatKeys /\ ReviewEffects /\ DocumentEffects
        /\ RunEffects /\ ScheduledIsLive
    BY DEF ChatInv
  <1>1. /\ client[c].step = "persist" /\ ~Revises(x.message)
        /\ UNCHANGED <<documents, thread, messages>>
        /\ runs' = (IF rerun THEN Append(runs, row) ELSE runs) /\ Reviewed(p, r)
        /\ proposals' = [proposals EXCEPT ![p].status = "executed",
                                          ![p].blocked = Reruns(x.message) /\ ~rerun,
                                          ![p].child = IF rerun THEN Len(runs') ELSE None]
        /\ IF rerun THEN client' = [client EXCEPT ![c] = [step |-> "schedule", run |-> Len(runs')]]
           ELSE Answers(c)
    BY <1>p, <1>d, <1>w, Zenon DEF RecordProposedReview, At
  <1>2. /\ p \in Awaiting /\ p \in DOMAIN proposals /\ p \in Nat /\ x \in ProposalRow
        /\ x.status = "awaiting_confirmation" /\ ~x.blocked /\ r \in DOMAIN runs
        /\ Len(reviews[r]) = x.context[2]
    BY <1>p, <1>1, ConfirmedIs
  <1>3. /\ runs \in Seq(RunRow) /\ Len(runs) \in Nat /\ DOMAIN runs = 1..Len(runs)
        /\ runs[r] \in RunRow /\ r \in Nat /\ r <= Len(runs) /\ runs[1].status = "completed" /\ Len(runs) >= 1
    BY <1>0, <1>2, RunIs
  <1>4. rerun => row \in RunRow /\ row.by = p /\ row.parent = r /\ row.request # "scheduled"
    <2>1. runs[r].depth \in 0..LineageLimit
      BY <1>3 DEF RunRow
    <2>2. rerun => runs[r].depth + 1 \in 0..LineageLimit
      <3>1. rerun => runs[r].depth < LineageLimit
        <4>1. rerun => ~(runs[r].depth >= LineageLimit)
          BY <1>d, Zenon DEF RerunBlocked
        <4> QED
          BY <2>1, <4>1, SMT DEF ChatAssumption
      <3>2. runs[r].depth < LineageLimit => runs[r].depth + 1 \in 0..LineageLimit
        BY <2>1, SMT DEF ChatAssumption
      <3> QED
        BY <3>1, <3>2, Zenon
    <2>3. ASSUME NEW e \in 0..LineageLimit, NEW b \in BOOLEAN
          PROVE  [parent |-> r, depth |-> e, status |-> "queued",
                    request |-> "queued", live |-> b, by |-> p] \in RunRow
      BY <1>2, <1>3, SMT DEF RunRow
    <2> QED
      BY <1>d, <1>w, <2>2, <2>3, Zenon
  <1>5. /\ runs' \in Seq(RunRow) /\ Len(runs') \in Nat /\ Len(runs) <= Len(runs')
        /\ DOMAIN runs \subseteq DOMAIN runs' /\ DOMAIN runs' = 1..Len(runs')
        /\ \A s \in DOMAIN runs : runs'[s] = runs[s]
        /\ \A s \in DOMAIN runs' : s \notin DOMAIN runs => rerun /\ s = Len(runs) + 1 /\ runs'[s] = row
        /\ rerun => Len(runs') = Len(runs) + 1 /\ Len(runs') \in DOMAIN runs' /\ Len(runs') # None
    <2>1. CASE rerun
      <3>1. runs' = Append(runs, row)
        BY <1>1, <2>1
      <3> QED
        BY <1>3, <1>4, <2>1, <3>1, RowAdded, SMT DEF None
    <2>2. CASE ~rerun
      <3>1. runs' = runs
        BY <1>1, <2>2
      <3>2. Len(runs) <= Len(runs') /\ Len(runs') \in Nat
        BY <1>3, <3>1
      <3> QED
        BY <1>3, <2>2, <3>1, <3>2, Zenon
    <2> QED
      BY <2>1, <2>2
  <1>6. PICK n \in Nat, b \in BOOLEAN :
          /\ n = (IF rerun THEN Len(runs') ELSE None) /\ b = (Reruns(x.message) /\ ~rerun)
          /\ n # None => n \in DOMAIN runs'
    <2>1. (Reruns(x.message) /\ ~rerun) \in BOOLEAN
      BY DEF Reruns
    <2>2. (IF rerun THEN Len(runs') ELSE None) \in Nat
      BY <1>5 DEF None
    <2> QED
      BY <1>5, <2>1, <2>2, Zenon
  <1>7. PICK q \in ProposalRow :
          /\ proposals' = [proposals EXCEPT ![p] = q] /\ q.status = "executed" /\ q.key = x.key
          /\ q.message = x.message /\ q.context = x.context /\ q.latest = x.latest
          /\ q.blocked = b /\ q.child = n
    <2>1. PICK u : u = [x EXCEPT !.status = "executed"]
      OBVIOUS
    <2>2. PICK v : v = [u EXCEPT !.blocked = b]
      OBVIOUS
    <2>3. PICK q : q = [v EXCEPT !.child = n]
      OBVIOUS
    <2>4. /\ u \in ProposalRow /\ u.key = x.key /\ u.message = x.message /\ u.context = x.context
          /\ u.latest = x.latest /\ u.status = "executed"
      <3>1. "executed" \in ProposalStatuses
        BY DEF ProposalStatuses
      <3> QED
        BY <1>2, <2>1, <3>1, StatusSet
    <2>5. /\ v \in ProposalRow /\ v.key = u.key /\ v.message = u.message /\ v.context = u.context
          /\ v.latest = u.latest /\ v.status = u.status /\ v.blocked = b
      BY <2>2, <2>4, BlockedSet
    <2>6. /\ q \in ProposalRow /\ q.key = v.key /\ q.message = v.message /\ q.context = v.context
          /\ q.latest = v.latest /\ q.status = v.status /\ q.blocked = v.blocked /\ q.child = n
      BY <2>3, <2>5, ChildSet
    <2>7. proposals' = [proposals EXCEPT ![p] = q]
      <3>1. proposals' = [proposals EXCEPT ![p].status = "executed", ![p].blocked = b, ![p].child = n]
        BY <1>1, <1>6, Zenon
      <3> QED
        BY <1>p, <1>2, <2>1, <2>2, <2>3, <3>1
    <2> QED
      BY <2>4, <2>5, <2>6, <2>7, Zenon
  <1>8. Executes(p) /\ proposals'[p] = q
    <2>1. q.child # None => q.child \in DOMAIN runs'
      BY <1>6, <1>7
    <2>2. /\ q.key = proposals[p].key /\ q.message = proposals[p].message
          /\ q.context = proposals[p].context /\ q.latest = proposals[p].latest
      BY <1>p, <1>7
    <2> QED
      BY <1>0, <1>2, <1>7, <2>1, <2>2, ExecutedBecomes
  <1>9. ReviewedBy(p)' /\ ~RevisedBy(p)' /\ (RerunBy(p)' <=> rerun)
    <2>1. rerun => Reruns(x.message)
      BY <1>d
    <2>2. /\ proposals'[p].status = "executed" /\ proposals'[p].message = x.message
          /\ proposals'[p].blocked = b
      BY <1>7, <1>8
    <2> QED
      BY <1>1, <1>6, <2>1, <2>2, Zenon DEF ReviewedBy, RevisedBy, RerunBy, Executed
  <1>10. /\ reviews' \in Seq(Seq(ReviewRow)) /\ Len(reviews') = Len(runs') /\ ReviewEffects'
    BY <1>p, <1>0, <1>1, <1>2, <1>5, <1>8, <1>9, ReviewedAt
  <1>11. DocumentEffects'
    BY <1>0, <1>1, <1>8, <1>9, NotRevised
  <1>12. RunEffects'
    <2>1. CASE rerun
      <3>1. proposals'[p].child = Len(runs) + 1 /\ runs' = Append(runs, row)
        BY <1>1, <1>5, <1>6, <1>7, <1>8, <2>1
      <3> QED
        BY <1>0, <1>4, <1>8, <1>9, <2>1, <3>1, RerunAt
    <2>2. CASE ~rerun
      BY <1>0, <1>1, <1>8, <1>9, <2>2, NotRerun
    <2> QED
      BY <2>1, <2>2
  <1>13. ScheduledIsLive'
    BY <1>0, <1>4, <1>5, Zenon DEF ScheduledIsLive
  <1>14. /\ client' \in [Clients -> Requests] /\ client'[c].step \in {"idle", "schedule"}
         /\ \A d \in Clients : d # c => client'[d] = client[d]
         /\ Releases /\ (client'[c].step = "schedule" => client'[c].run \in DOMAIN runs')
    <2>1. CASE rerun
      <3>1. PICK a : a = [step |-> "schedule", run |-> Len(runs')]
        OBVIOUS
      <3>2. a \in Requests /\ a.step = "schedule" /\ a.run \in DOMAIN runs'
        BY <1>5, <2>1, <3>1, RequestsAre
      <3>3. client' = [client EXCEPT ![c] = a]
        BY <1>1, <2>1, <3>1
      <3> QED
        BY <1>0, <3>2, <3>3, ClientBecomes
    <2>2. CASE ~rerun
      BY <1>0, <1>1, <2>2, Answered
    <2> QED
      BY <2>1, <2>2
  <1>15. ChatKeys' /\ ChatLocks' /\ ChatSteps'
    <2>1. ChatKeys'
      BY <1>0, <1>1, <1>5, <1>8, ExecutedKeys
    <2>2. \A o \in Awaiting : o # p => o \in Awaiting'
      BY <1>0, <1>8, ExecutedAre
    <2> QED
      BY <1>p, <1>0, <1>1, <1>5, <1>14, <2>1, <2>2, ConfirmationEnds
  <1>16. ChatData'
    <2>1. proposals' \in Seq(ProposalRow)
      BY <1>8 DEF Executes
    <2>2. \A s \in 1..Len(runs') : runs'[s].parent < s
      <3>1. ASSUME NEW s \in DOMAIN runs' PROVE runs'[s].parent < s
        <4>1. CASE s \in DOMAIN runs
          BY <1>0, <1>3, <1>5, <4>1 DEF ChatData
        <4>2. CASE s \notin DOMAIN runs
          <5>1. runs'[s].parent = r /\ s = Len(runs) + 1
            BY <1>4, <1>5, <4>2
          <5> QED
            BY <1>3, <5>1, SMT
        <4> QED
          BY <4>1, <4>2
      <3> QED
        BY <1>5, <3>1
    <2>3. Len(runs') >= 1 /\ runs'[1].status = "completed"
      <3>1. 1 \in DOMAIN runs /\ Len(runs') >= 1
        <4>1. 1 \in DOMAIN runs
          BY <1>3, SMT
        <4>2. Len(runs) <= Len(runs') /\ Len(runs') \in Nat
          BY <1>5
        <4> QED
          BY <1>3, <4>1, <4>2, SMT
      <3> QED
        BY <1>3, <1>5, <3>1
    <2> QED
      BY <1>0, <1>1, <1>5, <1>10, <1>14, <2>1, <2>2, <2>3, Zenon DEF ChatData
  <1> QED
    BY <1>10, <1>11, <1>12, <1>13, <1>15, <1>16 DEF ChatInv
-----------------------------------------------------------------------------
LEMMA ChatInitInv ==
  ASSUME ChatAssumption, ChatInit
  PROVE  ChatInv
  <1>1. /\ Root \in RunRow /\ Root.parent = 0 /\ Root.by = None /\ Root.status = "completed"
        /\ Root.request = "none"
    <2>1. \A b \in BOOLEAN : [parent |-> None, depth |-> 0, status |-> "completed",
                              request |-> "none", live |-> b, by |-> None] \in RunRow
      BY SMT DEF RunRow, None, ChatAssumption
    <2> QED
      BY <2>1, Zenon DEF Root, None
  <1>2. runs \in Seq(RunRow) /\ Len(runs) = 1 /\ DOMAIN runs = {1} /\ runs[1] = Root
    <2>1. runs = <<Root>>
      BY DEF ChatInit
    <2> HIDE DEF Root
    <2> QED
      BY <1>1, <2>1
  <1>3. /\ reviews \in Seq(Seq(ReviewRow)) /\ Len(reviews) = 1 /\ DOMAIN reviews = {1}
        /\ reviews[1] = <<>>
    <2>1. <<>> \in Seq(ReviewRow) /\ reviews = <<<<>>>>
      BY DEF ChatInit
    <2> QED
      BY <2>1
  <1>4. /\ documents = <<>> /\ proposals = <<>> /\ ~thread.open
        /\ thread \in [open : BOOLEAN, context : ContextType \cup {<<>>}]
        /\ messages \in [MessageKeys -> BOOLEAN] /\ client = [c \in Clients |-> Idle]
    <2>1. /\ documents = <<>> /\ proposals = <<>>
          /\ thread = [open |-> FALSE, context |-> <<>>]
          /\ messages = [k \in MessageKeys |-> FALSE] /\ client = [c \in Clients |-> Idle]
      BY DEF ChatInit
    <2>2. \A b \in BOOLEAN, x \in ContextType \cup {<<>>} :
            [open |-> b, context |-> x] \in [open : BOOLEAN, context : ContextType \cup {<<>>}]
      OBVIOUS
    <2>3. <<>> \in ContextType \cup {<<>>}
      BY Zenon
    <2>4. thread \in [open : BOOLEAN, context : ContextType \cup {<<>>}]
      BY <2>1, <2>2, <2>3, Zenon
    <2>5. ~thread.open
      BY <2>1
    <2> QED
      BY <2>1, <2>4, <2>5
  <1>5. client \in [Clients -> Requests] /\ \A c \in Clients : client[c].step = "idle"
    BY <1>4, RequestsAre
  <1>6. /\ documents \in Seq(DocumentRow) /\ proposals \in Seq(ProposalRow) /\ DOMAIN proposals = {}
        /\ DOMAIN documents = {} /\ Len(documents) = 0
    BY <1>4
  <1>7. ChatData
    <2>1. Len(documents) <= MaxDocuments
      BY <1>6, SMT DEF ChatAssumption
    <2>2. \A r \in 1..Len(runs) : runs[r].parent < r
      BY <1>1, <1>2, SMT
    <2>3. Len(runs) >= 1 /\ runs[1].status = "completed" /\ Len(reviews) = Len(runs)
      BY <1>1, <1>2, <1>3
    <2> QED
      BY <1>2, <1>3, <1>4, <1>5, <1>6, <2>1, <2>2, <2>3, Zenon DEF ChatData
  <1>8. ChatLocks /\ ChatSteps
    BY <1>5 DEF ChatLocks, ChatSteps, HasThread, HasProposal
  <1>9. ChatKeys
    BY <1>6, Zenon DEF ChatKeys, OneProposalPerMessage, ChildrenExist, Awaiting
  <1>10. ReviewEffects
    <2>1. \A r \in DOMAIN reviews : DOMAIN reviews[r] = {}
      BY <1>3
    <2> QED
      BY <1>6, <2>1, Zenon DEF ReviewEffects
  <1>11. DocumentEffects
    BY <1>6, Zenon DEF DocumentEffects
  <1>12. RunEffects
    BY <1>1, <1>2, <1>6 DEF RunEffects
  <1>13. ScheduledIsLive
    BY <1>1, <1>2 DEF ScheduledIsLive
  <1> QED
    BY <1>7, <1>8, <1>9, <1>10, <1>11, <1>12, <1>13 DEF ChatInv

LEMMA ChatNextInv ==
  ASSUME ChatAssumption, ChatInv, ChatNext
  PROVE  ChatInv'
  <1>1. CASE OpenThread \/ ListPending \/ EditDocument \/ Restart
    BY <1>1, OpenThreadInv, ListPendingInv, EditDocumentInv, RestartInv
  <1>2. ASSUME NEW c \in Clients,
               \/ \E k \in MessageKeys, m \in ChatMessages : LockThread(c, k, m)
               \/ \E p \in DOMAIN proposals : LockProposal(c, p)
               \/ ReadContext(c) \/ StoreMessage(c) \/ CheckContext(c) \/ PersistDocument(c)
               \/ RecordProposedReview(c) \/ RaiseRefused(c) \/ ScheduleChild(c)
               \/ \E d \in Clients : DeadlockVictim(c, d)
        PROVE  ChatInv'
    <2>1. CASE \E k \in MessageKeys, m \in ChatMessages : LockThread(c, k, m)
      BY <2>1, LockThreadInv
    <2>2. CASE \E p \in DOMAIN proposals : LockProposal(c, p)
      BY <2>2, LockProposalInv
    <2>3. CASE ReadContext(c) \/ StoreMessage(c) \/ CheckContext(c) \/ PersistDocument(c)
      BY <2>3, ReadContextInv, StoreMessageInv, CheckContextInv, PersistDocumentInv
    <2>4. CASE RecordProposedReview(c) \/ RaiseRefused(c) \/ ScheduleChild(c)
      BY <2>4, RecordProposedReviewInv, RaiseRefusedInv, ScheduleChildInv
    <2>5. CASE \E d \in Clients : DeadlockVictim(c, d)
      BY <2>5, DeadlockVictimInv
    <2> QED
      BY <1>2, <2>1, <2>2, <2>3, <2>4, <2>5
  <1>3. ASSUME NEW p \in DOMAIN proposals, CancelProposal(p) \/ TimePasses(p)
        PROVE  ChatInv'
    BY <1>3, CancelProposalInv, TimePassesInv
  <1>4. ASSUME NEW r \in DOMAIN runs, SubmitOperatorReview(r) \/ RunCompletes(r)
        PROVE  ChatInv'
    BY <1>4, SubmitOperatorReviewInv, RunCompletesInv
  <1> QED
    BY <1>1, <1>2, <1>3, <1>4 DEF ChatNext

LEMMA ChatStutter ==
  ASSUME ChatInv, UNCHANGED chatVars
  PROVE  ChatInv'
  <1>0. /\ ChatData /\ ChatLocks /\ ChatSteps
    BY DEF ChatInv
  <1>1. /\ UNCHANGED <<runs, reviews, documents, thread, messages, proposals, client>>
    BY DEF chatVars
  <1>2. client' \in [Clients -> Requests]
    BY <1>0, <1>1 DEF ChatData
  <1>3. ChatLocks'
    BY <1>0, <1>1, Zenon DEF ChatLocks, HasThread, HasProposal, Awaiting
  <1>4. ChatSteps'
    BY <1>0, <1>1, Zenon DEF ChatSteps, Drafted, Persisted, Refreshes, Awaiting, Locked
  <1> QED
    BY <1>1, <1>2, <1>3, <1>4, ClientSteps

(* The rows of the chat keep their types, the thread and each proposal are *)
(* locked by one request, and the rows that name a proposal as their       *)
(* author are those it leaves behind.                                      *)
THEOREM ChatInvariance == ChatSpec => []ChatInv
  <1>1. ChatInit => ChatInv
    BY ChatInitInv, ChatAssumption
  <1>2. ChatInv /\ [ChatNext]_chatVars => ChatInv'
    BY ChatNextInv, ChatStutter, ChatAssumption
  <1> QED
    BY <1>1, <1>2, PTL DEF ChatSpec

LEMMA ReviewsOfIs ==
  ASSUME ChatInv, NEW p \in DOMAIN proposals
  PROVE  ReviewsOf(p) = IF ReviewedBy(p) THEN {ReviewOf(p)} ELSE {}
  <1>0. ReviewEffects /\ DOMAIN reviews = DOMAIN runs
    BY ReviewsAre DEF ChatInv
  <1>1. ASSUME NEW x \in ReviewsOf(p) PROVE ReviewedBy(p) /\ x = ReviewOf(p)
    <2>1. PICK r \in DOMAIN runs : x \in {<<r, i>> : i \in {j \in DOMAIN reviews[r] : reviews[r][j].by = p}}
      BY <1>1, Zenon DEF ReviewsOf
    <2>2. PICK i \in DOMAIN reviews[r] : reviews[r][i].by = p /\ x = <<r, i>>
      BY <2>1, Zenon
    <2> QED
      BY <1>0, <2>1, <2>2, Zenon DEF ReviewEffects
  <1>2. ASSUME ReviewedBy(p) PROVE ReviewOf(p) \in ReviewsOf(p)
    <2>1. PICK r \in DOMAIN reviews : \E i \in DOMAIN reviews[r] :
            reviews[r][i].by = p /\ ReviewOf(p) = <<r, i>>
      BY <1>0, <1>2, Zenon DEF ReviewEffects
    <2>2. PICK i \in DOMAIN reviews[r] : reviews[r][i].by = p /\ ReviewOf(p) = <<r, i>>
      BY <2>1
    <2>3. ReviewOf(p) \in {<<r, j>> : j \in {j \in DOMAIN reviews[r] : reviews[r][j].by = p}}
      BY <2>2, Zenon
    <2> QED
      BY <1>0, <2>1, <2>3, Zenon DEF ReviewsOf
  <1> QED
    BY <1>1, <1>2, Zenon

(* At most one row of a history is a proposal's.                           *)
LEMMA OneOf ==
  ASSUME NEW p, NEW s, NEW n
  PROVE  /\ {i \in DOMAIN s : s[i].by = p} = {n} => Of(p, s) = 1
         /\ {i \in DOMAIN s : s[i].by = p} = {} => Of(p, s) = 0
  BY FS_EmptySet, FS_Singleton DEF Of

(* However requests to the chat interleave with each other, with reviews   *)
(* and edits outside it and with restarts of the server, a confirmation    *)
(* acts once, as a whole, and on what the operator was shown               *)
(* (submit_review_chat_message, confirm_review_chat_proposal).             *)
THEOREM ConfirmationSafety == ChatSpec => []ActsAsConfirmed
  <1>1. ASSUME ChatInv PROVE ActsAsConfirmed
    <2>0. /\ ChatData /\ ChatKeys /\ DocumentEffects /\ RunEffects /\ ScheduledIsLive
      BY <1>1 DEF ChatInv
    <2>1. ASSUME NEW p \in DOMAIN proposals
          PROVE  /\ Cardinality(ReviewsOf(p)) = IF ReviewedBy(p) THEN 1 ELSE 0
                 /\ Of(p, documents) = IF RevisedBy(p) THEN 1 ELSE 0
                 /\ Of(p, runs) = IF RerunBy(p) THEN 1 ELSE 0
      <3>1. Cardinality(ReviewsOf(p)) = IF ReviewedBy(p) THEN 1 ELSE 0
        BY <1>1, ReviewsOfIs, FS_EmptySet, FS_Singleton
      <3>3. Of(p, documents) = IF RevisedBy(p) THEN 1 ELSE 0
        <4> DEFINE T == {i \in DOMAIN documents : documents[i].by = p}
        <4>1. /\ RevisedBy(p) => T = {proposals[p].latest + 1}
              /\ ~RevisedBy(p) => T = {}
          BY <2>0, Zenon DEF DocumentEffects
        <4> QED
          BY <4>1, OneOf, Zenon
      <3>4. Of(p, runs) = IF RerunBy(p) THEN 1 ELSE 0
        <4> DEFINE T == {i \in DOMAIN runs : runs[i].by = p}
        <4>1. /\ RerunBy(p) => T = {proposals[p].child}
              /\ ~RerunBy(p) => T = {}
          BY <2>0, Zenon DEF RunEffects
        <4> QED
          BY <4>1, OneOf, Zenon
      <3> QED
        BY <3>1, <3>3, <3>4
    <2>2. ActsOnceAsAWhole
      BY <2>0, <2>1, Zenon DEF ActsOnceAsAWhole, ChatKeys, ReviewedBy, RevisedBy, RerunBy, Executed
    <2>3. ActsOnWhatWasSeen
      <3>1. ASSUME NEW p \in DOMAIN proposals, NEW x \in ReviewsOf(p)
            PROVE  x = <<proposals[p].context[1], proposals[p].context[2] + 1>>
        <4>1. ReviewsOf(p) \subseteq {ReviewOf(p)}
          BY <1>1, ReviewsOfIs
        <4> QED
          BY <3>1, <4>1 DEF ReviewOf
      <3>2. \A p \in DOMAIN proposals, i \in DOMAIN documents :
              documents[i].by = p => i = proposals[p].latest + 1
        BY <2>0, Zenon DEF DocumentEffects
      <3> QED
        BY <3>1, <3>2, Zenon DEF ActsOnWhatWasSeen
    <2> QED
      BY <2>2, <2>3 DEF ActsAsConfirmed
  <1> QED
    BY <1>1, ChatInvariance, PTL

(* The rows of the chat are of their types, and the reviews, runs and      *)
(* versions of the work order within their bounds.                         *)
THEOREM ChatTypes == ChatSpec => []ChatTypeOK
  <1>1. ASSUME ChatInv PROVE ChatTypeOK
    <2>0. ChatData
      BY <1>1 DEF ChatInv
    <2>1. \A r \in DOMAIN runs : /\ runs[r].parent \in 0..r - 1
                            /\ runs[r].depth \in 0..LineageLimit
                            /\ runs[r].status \in {"queued", "completed"}
                            /\ runs[r].request \in
                                 {"none", "queued", "scheduled", "schedule_failed"}
      <3>1. ASSUME NEW r \in DOMAIN runs
            PROVE  runs[r] \in RunRow /\ r \in Nat /\ runs[r].parent < r
        BY <2>0, RunIs DEF ChatData
      <3> QED
        BY <3>1, SMT DEF RunRow
    <2>2. DOMAIN reviews = DOMAIN runs /\ Len(documents) <= MaxDocuments
          /\ messages \in [MessageKeys -> BOOLEAN]
      BY <2>0, ReviewsAre DEF ChatData
    <2>3. \A p \in DOMAIN proposals : proposals[p].status \in ProposalStatuses
      <3>1. \A p \in DOMAIN proposals : proposals[p] \in ProposalRow
        BY <2>0 DEF ChatData
      <3> QED
        BY <3>1 DEF ProposalRow
    <2> QED
      BY <2>1, <2>2, <2>3, Zenon DEF ChatTypeOK
  <1> QED
    BY <1>1, ChatInvariance, PTL
-----------------------------------------------------------------------------
(* WorkOrderRevision: what a message became follows from its words.  A     *)
(* proposal carries a decision the words make; a stage runs again for its  *)
(* own sake, and what revises the document has the document as its reason. *)
Outcomes == [kind : {"none", "out_of_scope", "clarify", "explain", "proposal"},
             decision : {"none", "approve", "reject", "correct", "hold"},
             reason : {"none", "rag", "weather", "fault", "report", "policy"},
             rerun : BOOLEAN]
WordingInv ==
  /\ saying \in Sayings /\ outcome \in Outcomes
  /\ phase # "said" =>
       /\ outcome.kind = "proposal" => /\ Kind(saying) = "proposal"
                                       /\ outcome.decision \in DecisionsIn(Content(saying))
       /\ outcome.rerun => /\ outcome.decision \in DecisionsIn(Content(saying))
                           /\ RerunsStage(Content(saying), outcome.decision)
                           /\ outcome.reason \in TargetedStages
       /\ phase \in {"replied", "saved"} => outcome.reason = "report"

(* The category of a message is "none", or the first of the list its words *)
(* are in.                                                                 *)
LEMMA CategoryIsNamed ==
  ASSUME NEW words, ReasonCategory(words) # "none"
  PROVE  /\ ReasonCategory(words) \in {"rag", "weather", "fault", "report", "policy"}
         /\ Has(words, ReasonCategory(words))
<1> DEFINE found == {i \in DOMAIN Categories : Has(words, Categories[i])}
<1>1. found # {} /\ ReasonCategory(words) = Categories[First(found)]
  BY DEF ReasonCategory
<1>2. found \subseteq 1..5
  BY SMT DEF Categories
<1>3. \E i \in found : \A j \in found : i <= j
  <2> HIDE DEF found
  <2>1. CASE 1 \in found  BY <1>2, <2>1
  <2>2. CASE 1 \notin found /\ 2 \in found  BY <1>2, <2>2
  <2>3. CASE {1, 2} \cap found = {} /\ 3 \in found  BY <1>2, <2>3
  <2>4. CASE {1, 2, 3} \cap found = {} /\ 4 \in found  BY <1>2, <2>4
  <2>5. CASE {1, 2, 3, 4} \cap found = {}
    <3>1. PICK i \in found : TRUE  BY <1>1
    <3>2. \A j \in found : j = 5  BY <1>2, <2>5
    <3> QED  BY <3>1, <3>2
  <2> QED  BY <2>1, <2>2, <2>3, <2>4, <2>5
<1>4. First(found) \in found
  BY <1>3 DEF First
<1>5. Has(words, Categories[First(found)])
  BY <1>4
<1>6. Categories[First(found)] \in {"rag", "weather", "fault", "report", "policy"}
  BY <1>2, <1>4, SMT DEF Categories
<1> QED  BY <1>1, <1>5, <1>6

(* The words of a message are words of the lists; a term of the search or  *)
(* of the weather is one of the stages.                                    *)
LEMMA ContentIsWords ==
  ASSUME NEW m \in Sayings
  PROVE  Content(m) \subseteq Words
<1>1. m.own \subseteq Words /\ m.anchor \subseteq Words /\ m.frame \subseteq Words
  BY WordingAssumption DEF Messages
<1>2. "revise" \in Words
  BY SMT DEF Words, Terms
<1> QED  BY <1>1, <1>2 DEF Content, Text

LEMMA TargetedIsStage ==
  ASSUME NEW words \in SUBSET Words, NEW list \in TargetedStages, Has(words, list)
  PROVE  Has(words, "stage")
<1>1. PICK w \in words : list \in Terms[w]
  BY DEF Has
<1>2. w \in Words
  BY <1>1
<1>3. "stage" \in Terms[w]
  <2>1. list \in {"rag", "weather"}
    BY DEF TargetedStages
  <2>2. CASE w = "search"  BY <2>2, SMT DEF Terms
  <2>3. CASE w = "weather"  BY <2>3, SMT DEF Terms
  <2>4. CASE w \notin {"search", "weather"}
    <3>1. "rag" \notin Terms[w] /\ "weather" \notin Terms[w]
      BY <1>2, <2>4, SMT DEF Terms, Words
    <3> QED  BY <1>1, <2>1, <3>1
  <2> QED  BY <2>2, <2>3, <2>4
<1> QED  BY <1>1, <1>3 DEF Has

(* What a message decides is what its words say, or a correction.          *)
LEMMA DecisionsAreSaid ==
  ASSUME NEW words
  PROVE  LET said == {d \in {"approve", "reject", "correct", "hold"} : Has(words, d)} IN
         /\ DecisionsIn(words) \subseteq {"approve", "reject", "correct", "hold"}
         /\ DecisionsIn(words) = said \/ (said = {} /\ DecisionsIn(words) = {"correct"})
BY DEF DecisionsIn

(* A proposal makes one decision; a question, a refusal and what is out of *)
(* scope are none.                                                         *)
LEMMA ProposalIsDecided ==
  ASSUME NEW m, Kind(m) = "proposal"
  PROVE  /\ \A list \in {"question", "negative"} : ~Has(Content(m), list)
         /\ \A list \in {"attack", "foreign"} : ~Has(Instruction(m), list)
         /\ \E d : DecisionsIn(Content(m)) = {d}
<1> DEFINE decisions == DecisionsIn(Content(m))
<1>1. /\ ~RefusedRequest(m) /\ ~Has(Content(m), "negative") /\ ~Has(Content(m), "question")
      /\ decisions # {} /\ ~(Cardinality(decisions) > 1)
  BY DEF Kind
<1>2. IsFiniteSet(decisions) /\ Cardinality(decisions) \in Nat
  <2>1. IsFiniteSet({"approve", "reject", "correct", "hold"})
    <3>1. IsFiniteSet({} \cup {"approve"})  BY FS_EmptySet, FS_AddElement
    <3>2. IsFiniteSet(({} \cup {"approve"}) \cup {"reject"})  BY <3>1, FS_AddElement
    <3>3. IsFiniteSet((({} \cup {"approve"}) \cup {"reject"}) \cup {"correct"})
      BY <3>2, FS_AddElement
    <3>4. IsFiniteSet(((({} \cup {"approve"}) \cup {"reject"}) \cup {"correct"}) \cup {"hold"})
      BY <3>3, FS_AddElement
    <3>5. ((({} \cup {"approve"}) \cup {"reject"}) \cup {"correct"}) \cup {"hold"}
            = {"approve", "reject", "correct", "hold"}
      OBVIOUS
    <3> QED  BY <3>4, <3>5
  <2> QED  BY <2>1, DecisionsAreSaid, FS_Subset, FS_CardinalityType
<1>3. Cardinality(decisions) = 1
  <2>1. Cardinality(decisions) # 0
    BY <1>1, <1>2, FS_EmptySet
  <2> HIDE DEF decisions
  <2> QED  BY <1>1, <1>2, <2>1
<1>4. \E d : decisions = {d}
  BY <1>2, <1>3, FS_Singleton
<1> QED  BY <1>1, <1>4 DEF RefusedRequest

(* The decision and the reason of a message are of their lists.            *)
LEMMA ReasonIsNamed ==
  ASSUME NEW words, NEW decision
  PROVE  Reason(words, decision) \in {"none", "rag", "weather", "fault", "report", "policy"}
<1>1. ReasonCategory(words) = "none"
        \/ ReasonCategory(words) \in {"rag", "weather", "fault", "report", "policy"}
  BY CategoryIsNamed
<1> QED  BY <1>1, Zenon DEF Reason

LEMMA RerunIsAsked ==
  ASSUME NEW words \in SUBSET Words, NEW decision \in DecisionsIn(words),
         RerunsStage(words, decision)
  PROVE  /\ Has(words, "stage")
         /\ Has(words, "reject") \/ Has(words, "rerun")
<1>1. ReasonCategory(words) \in TargetedStages
  BY DEF RerunsStage, Reason, TargetedStages
<1>2. Has(words, "stage")
  <2>1. Has(words, ReasonCategory(words))
    BY <1>1, CategoryIsNamed DEF TargetedStages
  <2> QED  BY <1>1, <2>1, TargetedIsStage
<1>3. CASE decision = "reject"
  BY <1>2, <1>3, DecisionsAreSaid
<1>4. CASE decision = "correct" /\ ExplicitRerun(words)
  BY <1>2, <1>4 DEF ExplicitRerun
<1> QED  BY <1>3, <1>4 DEF RerunsStage
-----------------------------------------------------------------------------
LEMMA WordingStarts == WordingInit => WordingInv
BY DEF WordingInit, WordingInv, Outcomes

(* The message and what it is about stay as they are.                      *)
LEMMA MessageStays ==
  ASSUME saying' = saying, about' = about
  PROVE  /\ Content(saying)' = Content(saying) /\ Kind(saying)' = Kind(saying)
         /\ DecisionsIn(Content(saying))' = DecisionsIn(Content(saying))
         /\ \A d : RerunsStage(Content(saying), d)' = RerunsStage(Content(saying), d)
BY DEF Kind, Content, DecisionsIn, Reason, RerunsStage, IsChange

LEMMA ParseKeepsWording ==
  ASSUME WordingInv, Parse
  PROVE  WordingInv'
<1> DEFINE words == Content(saying)
           kind == Kind(saying)
           decision == CHOOSE x \in DecisionsIn(words) : TRUE
<1>1. /\ phase' = "parsed" /\ saying' = saying /\ about' = about
  BY DEF Parse
<1>2. words' = words /\ kind' = kind /\ DecisionsIn(words)' = DecisionsIn(words)
      /\ \A d : RerunsStage(words, d)' = RerunsStage(words, d)
  BY <1>1, MessageStays
<1>3. kind \in {"out_of_scope", "clarify", "explain", "proposal"}
  BY DEF Kind
<1>4. CASE kind # "proposal"
  <2>1. outcome' = [kind |-> kind, decision |-> "none", reason |-> "none", rerun |-> FALSE]
    BY <1>4 DEF Parse
  <2> QED  BY <1>1, <1>3, <1>4, <2>1 DEF WordingInv, Outcomes
<1>5. CASE kind = "proposal"
  <2>1. outcome' = [kind |-> "proposal", decision |-> decision,
                    reason |-> Reason(words, decision), rerun |-> RerunsStage(words, decision)]
    BY <1>5 DEF Parse
  <2>2. decision \in DecisionsIn(words)
    BY <1>5, ProposalIsDecided
  <2>3. decision \in {"approve", "reject", "correct", "hold"}
    BY <2>2, DecisionsAreSaid
  <2>4. RerunsStage(words, decision) => Reason(words, decision) \in TargetedStages
    BY DEF RerunsStage
  <2>5. RerunsStage(words, decision) \in BOOLEAN
    BY DEF RerunsStage
  <2> QED  BY <1>1, <1>2, <1>5, <2>1, <2>2, <2>3, <2>4, <2>5, ReasonIsNamed DEF WordingInv, Outcomes
<1> QED  BY <1>4, <1>5

LEMMA DraftKeepsWording ==
  ASSUME WordingInv, Draft
  PROVE  WordingInv'
<1>1. saying' = saying /\ about' = about /\ phase = "parsed" /\ outcome.reason = "report"
  BY DEF Draft, IsRevision
<1>2. ~outcome.rerun
  BY <1>1 DEF WordingInv, TargetedStages
<1>3. /\ phase' \in {"answered", "replied"}
      /\ outcome' = outcome \/ \E k \in {"clarify", "out_of_scope"} : outcome' = [outcome EXCEPT !.kind = k]
  BY DEF Draft
<1>4. CASE outcome' = outcome
  BY <1>1, <1>2, <1>3, <1>4, MessageStays DEF WordingInv
<1>5. ASSUME NEW k \in {"clarify", "out_of_scope"}, outcome' = [outcome EXCEPT !.kind = k]
      PROVE  WordingInv'
  <2>1. /\ outcome' \in Outcomes /\ outcome'.kind = k
        /\ outcome'.rerun = outcome.rerun /\ outcome'.reason = outcome.reason
    BY <1>5 DEF WordingInv, Outcomes
  <2> QED  BY <1>1, <1>2, <1>3, <2>1 DEF WordingInv
<1> QED  BY <1>3, <1>4, <1>5

LEMMA ReviseKeepsWording ==
  ASSUME WordingInv, Revise
  PROVE  WordingInv'
<1>1. saying' = saying /\ about' = about /\ phase = "replied" /\ outcome.reason = "report"
  BY DEF Revise, WordingInv
<1>2. ~outcome.rerun
  BY <1>1 DEF WordingInv, TargetedStages
<1>3. /\ phase' \in {"failed", "saved", "answered"}
      /\ outcome' = outcome \/ outcome' = [outcome EXCEPT !.kind = "out_of_scope"]
  BY DEF Revise
<1>4. CASE outcome' = outcome
  BY <1>1, <1>2, <1>3, <1>4, MessageStays DEF WordingInv
<1>5. CASE outcome' = [outcome EXCEPT !.kind = "out_of_scope"]
  <2>1. /\ outcome' \in Outcomes /\ outcome'.kind = "out_of_scope"
        /\ outcome'.rerun = outcome.rerun /\ outcome'.reason = outcome.reason
    BY <1>5 DEF WordingInv, Outcomes
  <2> QED  BY <1>1, <1>2, <1>3, <2>1 DEF WordingInv
<1> QED  BY <1>3, <1>4, <1>5

THEOREM WordingInvariance == WordingSpec => []WordingInv
<1>1. WordingInv /\ [WordingNext]_wordingVars => WordingInv'
  <2> SUFFICES ASSUME WordingInv, [WordingNext]_wordingVars PROVE WordingInv'
    OBVIOUS
  <2>1. CASE Parse  BY <2>1, ParseKeepsWording
  <2>2. CASE Draft  BY <2>2, DraftKeepsWording
  <2>3. CASE Revise  BY <2>3, ReviseKeepsWording
  <2>4. CASE UNCHANGED wordingVars
    BY <2>4, MessageStays DEF wordingVars, WordingInv
  <2> QED  BY <2>1, <2>2, <2>3, <2>4 DEF WordingNext
<1> QED  BY <1>1, WordingStarts, PTL DEF WordingSpec

(* IntentIsExplicit of every set of messages, work orders and answers.     *)
THEOREM IntentSafety == WordingSpec => []IntentIsExplicit
<1>1. WordingInv => IntentIsExplicit
  <2> SUFFICES ASSUME WordingInv, phase # "said" PROVE IntentIsExplicit
    BY DEF IntentIsExplicit
  <2>1. ASSUME outcome.kind = "proposal"
        PROVE  /\ \A list \in {"question", "negative"} : ~Has(Content(saying), list)
               /\ \A list \in {"attack", "foreign"} : ~Has(Instruction(saying), list)
               /\ Cardinality({d \in {"approve", "reject", "correct", "hold"} :
                                 Has(Content(saying), d)} \cup {outcome.decision}) = 1
    <3> DEFINE said == {d \in {"approve", "reject", "correct", "hold"} : Has(Content(saying), d)}
    <3>1. Kind(saying) = "proposal" /\ outcome.decision \in DecisionsIn(Content(saying))
      BY <2>1 DEF WordingInv
    <3>2. said \cup {outcome.decision} = {outcome.decision}
      BY <3>1, ProposalIsDecided, DecisionsAreSaid
    <3>3. Cardinality({outcome.decision}) = 1
      BY FS_Singleton
    <3> QED  BY <3>1, <3>2, <3>3, ProposalIsDecided
  <2>2. ASSUME outcome.rerun
        PROVE  /\ Has(Content(saying), "stage")
               /\ Has(Content(saying), "reject") \/ Has(Content(saying), "rerun")
               /\ phase \notin {"replied", "saved"}
    BY <2>2, ContentIsWords, RerunIsAsked DEF WordingInv, TargetedStages
  <2> QED  BY <2>1, <2>2 DEF IntentIsExplicit
<1> QED  BY <1>1, WordingInvariance, PTL

(* A set of numbers that is not empty has a first one.                     *)
LEMMA FirstOf ==
  ASSUME NEW T, T \subseteq Nat, T # {}
  PROVE  First(T) \in T /\ \A y \in T : First(T) <= y
<1> DEFINE R == {ss \in Nat \X Nat : ss[1] < ss[2]}
<1>1. IsWellFoundedOn(R, Nat)
  BY LessIsWellFounded
<1>2. \A x, y \in Nat : x < y => <<x, y>> \in R
  OBVIOUS
<1> HIDE DEF R
<1>3. PICK x \in T : \A y \in T : ~(<<y, x>> \in R)
  BY <1>1, WFMin
<1>4. \A y \in T : x <= y
  <2> SUFFICES ASSUME NEW y \in T PROVE x <= y
    OBVIOUS
  <2>1. x \in Nat /\ y \in Nat /\ ~(y < x)
    BY <1>2, <1>3
  <2> QED  BY <2>1, SMT
<1> QED  BY <1>3, <1>4 DEF First

(* The section s of a body: its heading, the first of the name, is line p, *)
(* and its lines end before line e.                                        *)
IsSection(W, s, p, e) ==
  /\ p \in 1..Len(W) /\ W[p].heading = s
  /\ \A k \in 1..(p - 1) : W[k].heading # s
  /\ e \in (p + 1)..(Len(W) + 1)
  /\ \A k \in (p + 1)..(e - 1) : W[k].heading = "none"
  /\ e <= Len(W) => W[e].heading # "none"

LEMMA SectionFound ==
  ASSUME NEW W \in Seq(BodyLines), NEW s, HeadingOf(W, s) # {}
  PROVE  IsSection(W, s, SectionStart(W, s), SectionEnd(W, s))
<1> DEFINE p == SectionStart(W, s)
           H == HeadingOf(W, s)
           E == {Len(W) + 1} \cup {i \in DOMAIN W : i > p /\ W[i].heading # "none"}
<1>1. Len(W) \in Nat /\ DOMAIN W = 1..Len(W)
  OBVIOUS
<1>2. H \subseteq Nat
  BY <1>1 DEF HeadingOf
<1>3. p \in H /\ \A y \in H : p <= y
  <2> HIDE DEF H
  <2>1. p = First(H)
    BY DEF SectionStart, H
  <2>2. H # {}
    BY DEF H
  <2> HIDE DEF p
  <2> QED  BY <1>2, <2>1, <2>2, FirstOf
<1>4. p \in 1..Len(W) /\ W[p].heading = s
  BY <1>1, <1>3 DEF HeadingOf
<1>5. \A k \in 1..(p - 1) : W[k].heading # s
  <2> SUFFICES ASSUME NEW k \in 1..(p - 1), W[k].heading = s PROVE FALSE
    OBVIOUS
  <2>1. k \in 1..Len(W) /\ k < p
    BY <1>1, <1>4, SMT
  <2>2. k \in H
    BY <1>1, <2>1 DEF HeadingOf
  <2>3. p <= k
    BY <1>3, <2>2
  <2> HIDE DEF p
  <2> QED  BY <1>1, <1>4, <2>1, <2>3, SMT
<1>6. SectionEnd(W, s) = First(E)
  BY DEF SectionEnd
<1>7. E \subseteq Nat /\ E # {}
  BY <1>1
<1> HIDE DEF p
<1>8. First(E) \in E /\ \A y \in E : First(E) <= y
  <2> HIDE DEF E
  <2> QED  BY <1>7, FirstOf
<1> DEFINE e == First(E)
<1>9. e \in (p + 1)..(Len(W) + 1) /\ (e <= Len(W) => W[e].heading # "none")
  <2> HIDE DEF e
  <2>1. e \in E
    BY <1>8 DEF e
  <2> QED  BY <1>1, <1>4, <2>1
<1>10. \A k \in (p + 1)..(e - 1) : W[k].heading = "none"
  <2> SUFFICES ASSUME NEW k \in (p + 1)..(e - 1), W[k].heading # "none" PROVE FALSE
    OBVIOUS
  <2> HIDE DEF e
  <2>1. k \in 1..Len(W) /\ k > p /\ k < e
    BY <1>1, <1>4, <1>9
  <2>2. k \in E
    BY <1>1, <2>1
  <2>3. e <= k
    BY <1>8, <2>2 DEF e
  <2> QED  BY <1>1, <1>9, <2>1, <2>3
<1> HIDE DEF e
<1>11. IsSection(W, s, p, e)
  BY <1>4, <1>5, <1>9, <1>10 DEF IsSection
<1> QED  BY <1>6, <1>11 DEF p, e

LEMMA SectionExists ==
  ASSUME NEW W \in Seq(BodyLines), NEW s, HeadingOf(W, s) # {}
  PROVE  \E p \in Int, e \in Int : IsSection(W, s, p, e)
<1>1. IsSection(W, s, SectionStart(W, s), SectionEnd(W, s))
  BY SectionFound
<1>2. SectionStart(W, s) \in Int /\ SectionEnd(W, s) \in Int
  BY <1>1 DEF IsSection
<1> QED  BY <1>1, <1>2

HasLines(W, s, p, e) ==
  /\ SectionLines(W, s) \in Seq(BodyLines) /\ Len(SectionLines(W, s)) = e - p - 1
  /\ \A k \in 1..(e - p - 1) : SectionLines(W, s)[k] = W[p + k]

(* There is one such section, which the code finds, with its lines.        *)
LEMMA SectionIsFound ==
  ASSUME NEW W \in Seq(BodyLines), NEW s \in Sections, NEW p \in Int, NEW e \in Int,
         IsSection(W, s, p, e)
  PROVE  /\ HeadingOf(W, s) # {} /\ SectionStart(W, s) = p /\ SectionEnd(W, s) = e
         /\ HasLines(W, s, p, e)
<1> USE DEF HasLines
<1> DEFINE q == SectionStart(W, s)
           f == SectionEnd(W, s)
<1>1. Len(W) \in Nat /\ DOMAIN W = 1..Len(W) /\ \A k \in 1..Len(W) : W[k] \in BodyLines
  OBVIOUS
<1>2. HeadingOf(W, s) # {}
  BY <1>1 DEF HeadingOf, IsSection
<1>3. IsSection(W, s, q, f)
  BY <1>2, SectionFound
<1>4. SectionLines(W, s) = SubSeq(W, q + 1, f - 1)
  BY <1>2 DEF SectionLines
<1> HIDE DEF q, f
<1>5. s # "none"
  BY DEF Sections
<1>6. q = p
  <2>1. p \in 1..Len(W) /\ q \in 1..Len(W) /\ ~(q \in 1..(p - 1)) /\ ~(p \in 1..(q - 1))
    BY <1>3 DEF IsSection
  <2> QED  BY <1>1, <2>1
<1>7. f = e
  <2>1. /\ p \in 1..Len(W) /\ e \in (p + 1)..(Len(W) + 1) /\ f \in (p + 1)..(Len(W) + 1)
        /\ f <= Len(W) => ~(f \in (p + 1)..(e - 1))
        /\ e <= Len(W) => ~(e \in (p + 1)..(f - 1))
    BY <1>3, <1>6 DEF IsSection
  <2> QED  BY <1>1, <2>1
<1>8. /\ p \in Int /\ e \in Int /\ p + 1 <= e
      /\ \A k \in (p + 1)..(e - 1) : k \in 1..Len(W)
  BY <1>1 DEF IsSection
<1>9. /\ SubSeq(W, p + 1, e - 1) \in Seq(BodyLines)
      /\ Len(SubSeq(W, p + 1, e - 1)) =
           IF p + 1 <= e - 1 THEN (e - 1) - (p + 1) + 1 ELSE 0
      /\ \A k \in 1..((e - 1) - (p + 1) + 1) : SubSeq(W, p + 1, e - 1)[k] = W[(p + 1) + k - 1]
  <2>1. p + 1 \in Int /\ e - 1 \in Int /\ \A k \in (p + 1)..(e - 1) : W[k] \in BodyLines
    BY <1>1, <1>8
  <2> QED  BY <2>1, SubSeqProperties
<1>10. Len(SubSeq(W, p + 1, e - 1)) = e - p - 1
  BY <1>8, <1>9
<1>11. ASSUME NEW k \in 1..(e - p - 1) PROVE SubSeq(W, p + 1, e - 1)[k] = W[p + k]
  <2>1. k \in 1..((e - 1) - (p + 1) + 1) /\ (p + 1) + k - 1 = p + k
    BY <1>8
  <2> QED  BY <1>9, <2>1
<1> QED  BY <1>2, <1>4, <1>6, <1>7, <1>9, <1>10, <1>11 DEF q, f

Headless(L) == \A k \in 1..Len(L) : L[k].heading = "none"

(* V is W with the lines after a and before b replaced by L.               *)
IsSplice(W, V, a, b, L) ==
  /\ V \in Seq(BodyLines) /\ Len(V) = a + Len(L) + (Len(W) - b + 1)
  /\ \A k \in 1..a : V[k] = W[k]
  /\ \A k \in 1..Len(L) : V[a + k] = L[k]
  /\ \A k \in b..Len(W) : V[a + Len(L) + (k - b + 1)] = W[k]

LEMMA SpliceOf ==
  ASSUME NEW W \in Seq(BodyLines), NEW L \in Seq(BodyLines),
         NEW a \in Nat, NEW b \in Nat, 1 <= b, a <= Len(W), b <= Len(W) + 1
  PROVE  IsSplice(W, SubSeq(W, 1, a) \o L \o SubSeq(W, b, Len(W)), a, b, L)
<1> DEFINE X == SubSeq(W, 1, a)
           Z == SubSeq(W, b, Len(W))
           Y == X \o L
<1>1. Len(W) \in Nat /\ Len(L) \in Nat /\ \A k \in 1..Len(W) : W[k] \in BodyLines
  OBVIOUS
<1>2. X \in Seq(BodyLines) /\ Len(X) = a /\ \A k \in 1..a : X[k] = W[k]
  <2>1. \A k \in 1..a : W[k] \in BodyLines
    BY <1>1
  <2>2. /\ SubSeq(W, 1, a) \in Seq(BodyLines)
        /\ Len(SubSeq(W, 1, a)) = IF 1 <= a THEN a - 1 + 1 ELSE 0
        /\ \A k \in 1..(a - 1 + 1) : SubSeq(W, 1, a)[k] = W[1 + k - 1]
    BY <2>1, SubSeqProperties
  <2>3. \A k \in 1..a : k \in 1..(a - 1 + 1) /\ 1 + k - 1 = k
    OBVIOUS
  <2> QED  BY <2>2, <2>3
<1>3. /\ Z \in Seq(BodyLines) /\ Len(Z) = Len(W) - b + 1
      /\ \A k \in b..Len(W) : Z[k - b + 1] = W[k]
  <2>1. Len(W) \in Int /\ b \in Int /\ \A k \in b..Len(W) : W[k] \in BodyLines
    BY <1>1
  <2>2. /\ SubSeq(W, b, Len(W)) \in Seq(BodyLines)
        /\ Len(SubSeq(W, b, Len(W))) = IF b <= Len(W) THEN Len(W) - b + 1 ELSE 0
        /\ \A k \in 1..(Len(W) - b + 1) : SubSeq(W, b, Len(W))[k] = W[b + k - 1]
    BY <2>1, SubSeqProperties
  <2>3. ASSUME NEW k \in b..Len(W) PROVE Z[k - b + 1] = W[k]
    <3>1. k - b + 1 \in 1..(Len(W) - b + 1) /\ b + (k - b + 1) - 1 = k
      BY <2>1
    <3> QED  BY <2>2, <3>1
  <2> QED  BY <1>1, <2>2, <2>3
<1> HIDE DEF X, Z
<1>4. /\ Y \in Seq(BodyLines) /\ Len(Y) = a + Len(L)
      /\ \A k \in 1..(a + Len(L)) : Y[k] = IF k <= a THEN X[k] ELSE L[k - a]
  BY <1>2, ConcatProperties
<1> HIDE DEF Y
<1> DEFINE V == Y \o Z
<1>5. /\ V \in Seq(BodyLines) /\ Len(V) = a + Len(L) + Len(Z)
      /\ \A k \in 1..(a + Len(L) + Len(Z)) :
           V[k] = IF k <= a + Len(L) THEN Y[k] ELSE Z[k - (a + Len(L))]
  <2>1. /\ V \in Seq(BodyLines) /\ Len(V) = Len(Y) + Len(Z)
        /\ \A k \in 1..(Len(Y) + Len(Z)) :
             V[k] = IF k <= Len(Y) THEN Y[k] ELSE Z[k - Len(Y)]
    <3>1. Y \in Seq(BodyLines) /\ Z \in Seq(BodyLines)
      BY <1>3, <1>4
    <3> HIDE DEF V
    <3> QED  BY <3>1, ConcatProperties DEF V
  <2> QED  BY <1>4, <2>1
<1> HIDE DEF V
<1>6. ASSUME NEW k \in 1..a PROVE V[k] = W[k]
  <2>1. k \in 1..(a + Len(L) + Len(Z)) /\ k <= a + Len(L) /\ k \in 1..(a + Len(L)) /\ k <= a
    BY <1>1, <1>3
  <2> QED  BY <1>2, <1>4, <1>5, <2>1
<1>7. ASSUME NEW k \in 1..Len(L) PROVE V[a + k] = L[k]
  <2>1. /\ a + k \in 1..(a + Len(L) + Len(Z)) /\ a + k <= a + Len(L)
        /\ a + k \in 1..(a + Len(L)) /\ ~(a + k <= a) /\ (a + k) - a = k
    BY <1>1, <1>3
  <2> QED  BY <1>4, <1>5, <2>1
<1>8. ASSUME NEW k \in b..Len(W) PROVE V[a + Len(L) + (k - b + 1)] = W[k]
  <2> DEFINE n == a + Len(L) + (k - b + 1)
  <2>1. /\ n \in 1..(a + Len(L) + Len(Z)) /\ ~(n <= a + Len(L))
        /\ n - (a + Len(L)) = k - b + 1
    BY <1>1, <1>3
  <2> HIDE DEF n
  <2>2. V[n] = Z[k - b + 1]
    BY <1>5, <2>1
  <2> QED  BY <1>3, <2>2 DEF n
<1>9. Len(V) = a + Len(L) + (Len(W) - b + 1)
  BY <1>3, <1>5
<1> QED  BY <1>5, <1>6, <1>7, <1>8, <1>9 DEF IsSplice, V, Y, X, Z

(* The lines of V are those of W before the splice, those of L, and those  *)
(* of W after it.                                                          *)
LEMMA LineOfSplice ==
  ASSUME NEW W \in Seq(BodyLines), NEW L \in Seq(BodyLines), NEW V, NEW a \in Nat, NEW b \in Nat,
         a < b, b <= Len(W) + 1, IsSplice(W, V, a, b, L), NEW k \in 1..Len(V)
  PROVE  \/ k \in 1..a /\ V[k] = W[k]
         \/ k \in (a + 1)..(a + Len(L)) /\ k - a \in 1..Len(L) /\ V[k] = L[k - a]
         \/ /\ k > a + Len(L) /\ k - a - Len(L) + b - 1 \in b..Len(W)
            /\ V[k] = W[k - a - Len(L) + b - 1]
<1>1. Len(W) \in Nat /\ Len(L) \in Nat /\ Len(V) = a + Len(L) + (Len(W) - b + 1)
  BY DEF IsSplice
<1>2. CASE k <= a
  BY <1>1, <1>2 DEF IsSplice
<1>3. CASE a < k /\ k <= a + Len(L)
  <2>1. k \in (a + 1)..(a + Len(L)) /\ k - a \in 1..Len(L) /\ a + (k - a) = k
    BY <1>1, <1>3
  <2> QED  BY <2>1 DEF IsSplice
<1>4. CASE a + Len(L) < k
  <2> DEFINE j == k - a - Len(L) + b - 1
  <2>1. j \in b..Len(W) /\ a + Len(L) + (j - b + 1) = k
    BY <1>1, <1>4
  <2> HIDE DEF j
  <2>2. V[k] = W[j]
    BY <2>1 DEF IsSplice
  <2> QED  BY <1>4, <2>1, <2>2 DEF j
<1> QED  BY <1>1, <1>2, <1>3, <1>4

(* The lines between a and b are no headings, and the section s, if it is  *)
(* before them, ends before them.                                          *)
IsOutside(W, s, a, b) ==
  /\ \A k \in (a + 1)..(b - 1) : W[k].heading = "none"
  /\ \A k \in 1..a : W[k].heading = s => \E j \in (k + 1)..a : W[j].heading # "none"

(* What is spliced in within another section, or before them all, without  *)
(* a heading, changes no line of the section s.                            *)
LEMMA OthersStay ==
  ASSUME NEW W \in Seq(BodyLines), NEW L \in Seq(BodyLines), NEW V, NEW a \in Nat, NEW b \in Nat,
         a < b, b <= Len(W) + 1, IsSplice(W, V, a, b, L), Headless(L),
         NEW s \in Sections, IsOutside(W, s, a, b)
  PROVE  SectionLines(V, s) = SectionLines(W, s)
<1> USE DEF IsOutside
<1> DEFINE d == a + Len(L) - b + 1
<1>1. /\ Len(W) \in Nat /\ Len(L) \in Nat /\ V \in Seq(BodyLines)
      /\ Len(V) = Len(W) + d /\ d \in Int /\ s # "none"
      /\ DOMAIN W = 1..Len(W) /\ DOMAIN V = 1..Len(V)
  BY DEF IsSplice, Sections
<1>2. \A k \in 1..a : V[k] = W[k]
  BY DEF IsSplice
<1>3. ASSUME NEW k \in b..Len(W) PROVE V[k + d] = W[k]
  <2>1. a + Len(L) + (k - b + 1) = k + d
    BY <1>1, SMTT(30)
  <2> QED  BY <2>1 DEF IsSplice
<1>4. ASSUME NEW k \in 1..Len(V), V[k].heading # "none"
      PROVE  \/ k \in 1..a
             \/ k - d \in b..Len(W) /\ V[k] = W[k - d]
  <2>1. CASE k \in (a + 1)..(a + Len(L)) /\ k - a \in 1..Len(L) /\ V[k] = L[k - a]
    BY <1>4, <2>1 DEF Headless
  <2>2. CASE /\ k > a + Len(L) /\ k - a - Len(L) + b - 1 \in b..Len(W)
             /\ V[k] = W[k - a - Len(L) + b - 1]
    <3>1. k - a - Len(L) + b - 1 = k - d
      BY <1>1, SMTT(30)
    <3> QED  BY <2>2, <3>1
  <2> QED  BY <2>1, <2>2, LineOfSplice
<1> HIDE DEF d
<1>5. CASE HeadingOf(W, s) = {}
  <2>1. ASSUME NEW k \in HeadingOf(V, s) PROVE FALSE
    <3>1. k \in 1..Len(V) /\ V[k].heading = s
      BY <1>1 DEF HeadingOf
    <3>2. CASE k \in 1..a
      <4>1. k \in 1..Len(W)
        BY <1>1, <3>2
      <4> QED  BY <1>1, <1>2, <1>5, <3>1, <3>2, <4>1 DEF HeadingOf
    <3>3. CASE k - d \in b..Len(W) /\ V[k] = W[k - d]
      <4>1. k - d \in 1..Len(W)
        BY <1>1, <3>3
      <4> QED  BY <1>1, <1>5, <3>1, <3>3, <4>1 DEF HeadingOf
    <3> QED  BY <1>1, <1>4, <3>1, <3>2, <3>3
  <2>2. HeadingOf(V, s) = {}
    BY <2>1
  <2> QED  BY <1>5, <2>2 DEF SectionLines
<1>6. CASE HeadingOf(W, s) # {}
  <2>1. PICK p \in Int, e \in Int : IsSection(W, s, p, e)
    BY <1>6, SectionExists
  <2>2. /\ p \in 1..Len(W) /\ W[p].heading = s /\ e \in (p + 1)..(Len(W) + 1)
        /\ \A k \in 1..(p - 1) : W[k].heading # s
        /\ \A k \in (p + 1)..(e - 1) : W[k].heading = "none"
        /\ e <= Len(W) => W[e].heading # "none"
    BY <2>1 DEF IsSection
  <2>3. /\ SectionLines(W, s) \in Seq(BodyLines) /\ Len(SectionLines(W, s)) = e - p - 1
        /\ \A k \in 1..(e - p - 1) : SectionLines(W, s)[k] = W[p + k]
    BY <2>1, SectionIsFound DEF HasLines
  <2>4. ASSUME NEW c \in Int, NEW q \in Int, NEW f \in Int, q = p + c, f = e + c,
               IsSection(V, s, q, f), \A k \in (p + 1)..(e - 1) : V[k + c] = W[k]
        PROVE  SectionLines(V, s) = SectionLines(W, s)
    <3>1. /\ SectionLines(V, s) \in Seq(BodyLines)
          /\ Len(SectionLines(V, s)) = f - q - 1
          /\ \A k \in 1..(f - q - 1) : SectionLines(V, s)[k] = V[q + k]
      <4>1. V \in Seq(BodyLines) /\ IsSection(V, s, q, f)
        BY <1>1, <2>4
      <4> QED  BY <4>1, SectionIsFound DEF HasLines
    <3>2. f - q - 1 = e - p - 1
      BY <1>1, <2>2, <2>4
    <3>3. ASSUME NEW k \in 1..(e - p - 1) PROVE SectionLines(V, s)[k] = SectionLines(W, s)[k]
      <4>1. p + k \in (p + 1)..(e - 1) /\ q + k = (p + k) + c
        BY <1>1, <2>2, <2>4, SMTT(30)
      <4>2. V[q + k] = W[p + k]
        BY <2>4, <4>1
      <4> QED  BY <2>3, <3>1, <3>2, <4>2
    <3>4. Len(SectionLines(V, s)) = Len(SectionLines(W, s))
      BY <2>3, <3>1, <3>2
    <3>5. \A k \in 1..Len(SectionLines(V, s)) : SectionLines(V, s)[k] = SectionLines(W, s)[k]
      BY <3>1, <3>2, <3>3
    <3> QED  BY <2>3, <3>1, <3>4, <3>5, SeqEqual
  <2>5. CASE p \in 1..a
    <3>1. PICK j \in (p + 1)..a : W[j].heading # "none"
      BY <2>2, <2>5
    <3>2. e <= j
      <4>1. ~(j \in (p + 1)..(e - 1))
        BY <2>2, <3>1
      <4> QED  BY <1>1, <2>2, <3>1, <4>1
    <3>3. \A k \in 1..e : k \in 1..a
      BY <1>1, <2>2, <3>1, <3>2
    <3>4. \A k \in 1..e : V[k] = W[k]
      BY <1>2, <3>3
    <3>5. a <= Len(V) /\ a <= Len(W)
      BY <1>1 DEF d
    <3>6. p \in 1..Len(V) /\ e \in (p + 1)..(Len(V) + 1) /\ e <= Len(W)
      BY <1>1, <2>2, <3>1, <3>2, <3>5
    <3>7. V[p] = W[p] /\ V[e] = W[e]
      BY <1>1, <2>2, <3>4
    <3>8. \A k \in 1..(p - 1) : V[k].heading # s
      <4>1. \A k \in 1..(p - 1) : k \in 1..e
        BY <1>1, <2>2
      <4> QED  BY <2>2, <3>4, <4>1
    <3>9. \A k \in (p + 1)..(e - 1) : V[k] = W[k]
      <4>1. \A k \in (p + 1)..(e - 1) : k \in 1..e
        BY <1>1, <2>2
      <4> QED  BY <3>4, <4>1
    <3>10. IsSection(V, s, p, e)
      BY <2>2, <3>6, <3>7, <3>8, <3>9 DEF IsSection
    <3> PICK c \in Int : c = 0
      OBVIOUS
    <3>11. p \in Int /\ e \in Int /\ p = p + c /\ e = e + c
      BY <1>1, <2>2
    <3>12. \A k \in (p + 1)..(e - 1) : V[k + c] = W[k]
      <4>1. \A k \in (p + 1)..(e - 1) : k + c = k
        BY <1>1, <2>2
      <4> QED  BY <3>9, <4>1
    <3> QED  BY <2>4, <3>10, <3>11, <3>12
  <2>6. CASE p \notin 1..a
    <3>1. p >= b
      <4>1. ~(p \in (a + 1)..(b - 1))
        BY <1>1, <2>2
      <4> QED  BY <1>1, <2>2, <2>6, <4>1
    <3> DEFINE q == p + d
               f == e + d
    <3>2. q \in 1..Len(V) /\ f \in (q + 1)..(Len(V) + 1) /\ q = p + d /\ f = e + d
      BY <1>1, <2>2, <3>1 DEF d
    <3>3. V[q] = W[p] /\ (e <= Len(W) => V[f] = W[e])
      BY <1>1, <1>3, <2>2, <3>1
    <3> HIDE DEF q, f
    <3>4. \A k \in (p + 1)..(e - 1) : V[k + d] = W[k]
      <4>1. \A k \in (p + 1)..(e - 1) : k \in b..Len(W)
        BY <1>1, <2>2, <3>1
      <4> QED  BY <1>3, <4>1
    <3>5. ASSUME NEW k \in 1..(q - 1), V[k].heading = s PROVE FALSE
      <4>1. k \in 1..Len(V) /\ V[k].heading # "none"
        BY <1>1, <3>2, <3>5
      <4>2. CASE k \in 1..a
        <5>1. k \in 1..(p - 1)
          BY <1>1, <2>2, <3>1, <4>2
        <5> QED  BY <1>2, <2>2, <3>5, <4>2, <5>1
      <4>3. CASE k - d \in b..Len(W) /\ V[k] = W[k - d]
        <5>1. k - d \in 1..(p - 1)
          BY <1>1, <2>2, <3>2, <4>3
        <5> QED  BY <2>2, <3>5, <4>3, <5>1
      <4> QED  BY <1>4, <4>1, <4>2, <4>3
    <3>6. ASSUME NEW k \in (q + 1)..(f - 1) PROVE V[k].heading = "none"
      <4>1. k - d \in (p + 1)..(e - 1) /\ (k - d) + d = k
        BY <1>1, <2>2, <3>2
      <4> QED  BY <2>2, <3>4, <4>1
    <3>7. f <= Len(V) => V[f].heading # "none"
      BY <1>1, <2>2, <3>2, <3>3
    <3>8. IsSection(V, s, q, f)
      BY <2>2, <3>2, <3>3, <3>5, <3>6, <3>7 DEF IsSection
    <3>9. q \in Int /\ f \in Int
      BY <1>1, <3>2
    <3> QED  BY <1>1, <2>4, <3>2, <3>4, <3>8, <3>9
  <2> QED  BY <2>5, <2>6
<1> QED  BY <1>5, <1>6

HasSplice(W, V, s, p, e, a, b, L) ==
  /\ Len(SectionLines(V, s)) = (a - p) + Len(L) + (e - b)
  /\ SectionLines(V, s) \in Seq(BodyLines)
  /\ \A k \in 1..(a - p) : SectionLines(V, s)[k] = W[p + k]
  /\ \A k \in 1..Len(L) : SectionLines(V, s)[a - p + k] = L[k]
  /\ \A k \in 1..(e - b) : SectionLines(V, s)[a - p + Len(L) + k] = W[b + k - 1]

(* Within its section the splice is all that changes.                      *)
LEMMA TargetIsSpliced ==
  ASSUME NEW W \in Seq(BodyLines), NEW L \in Seq(BodyLines), NEW V, NEW a \in Nat, NEW b \in Nat,
         NEW s \in Sections, NEW p \in Int, NEW e \in Int, IsSection(W, s, p, e),
         p <= a, a < b, b <= e,
         IsSplice(W, V, a, b, L), Headless(L)
  PROVE  HasSplice(W, V, s, p, e, a, b, L)
<1> PICK d \in Int : d = a + Len(L) - b + 1
  BY SMTT(30)
<1> PICK f \in Int : f = e + d
  BY SMTT(30)
<1>1. V \in Seq(BodyLines) /\ Len(V) = a + Len(L) + (Len(W) - b + 1)
  BY DEF IsSplice
<1>2. /\ p \in 1..Len(W) /\ W[p].heading = s /\ e \in (p + 1)..(Len(W) + 1)
      /\ \A k \in 1..(p - 1) : W[k].heading # s
      /\ \A k \in (p + 1)..(e - 1) : W[k].heading = "none"
      /\ e <= Len(W) => W[e].heading # "none"
  BY DEF IsSection
<1>3. \A k \in 1..a : V[k] = W[k]
  BY DEF IsSplice
<1>4. \A k \in 1..Len(L) : V[a + k] = L[k]
  BY DEF IsSplice
<1>5. ASSUME NEW k \in b..Len(W) PROVE V[k + d] = W[k]
  <2>1. a + Len(L) + (k - b + 1) = k + d
    OBVIOUS
  <2> QED  BY <2>1 DEF IsSplice
<1>6. /\ Len(W) \in Nat /\ Len(L) \in Nat /\ Len(V) \in Nat /\ d \in Int /\ f \in Int
      /\ p \in Int /\ e \in Int /\ 1 <= p /\ e <= Len(W) + 1 /\ b <= Len(W) + 1 /\ a <= Len(W)
      /\ f = e + d /\ d = a + Len(L) - b + 1 /\ Len(V) = Len(W) + d
  BY <1>1, <1>2
<1>7. IsSection(V, s, p, f)
  <2>1. p \in 1..Len(V) /\ V[p].heading = s /\ f \in (p + 1)..(Len(V) + 1)
    <3>1. p \in 1..a /\ a <= Len(V)
      BY <1>6
    <3>2. V[p] = W[p]
      BY <1>3, <3>1
    <3>3. V[p].heading = s
      BY <1>2, <3>2
    <3>4. p \in 1..Len(V) /\ f \in (p + 1)..(Len(V) + 1)
      BY <1>6
    <3> QED  BY <3>3, <3>4
  <2>2. \A k \in 1..(p - 1) : V[k].heading # s
    <3>1. \A k \in 1..(p - 1) : k \in 1..a
      BY <1>6
    <3> QED  BY <1>2, <1>3, <3>1
  <2>3. ASSUME NEW k \in (p + 1)..(f - 1) PROVE V[k].heading = "none"
    <3>1. k \in 1..Len(V)
      BY <1>6
    <3>2. CASE k \in 1..a /\ V[k] = W[k]
      <4>1. k \in (p + 1)..(e - 1)
        <5>1. k \in Int /\ p + 1 <= k /\ k <= a
          BY <1>6, <3>2
        <5> QED  BY <1>6, <5>1
      <4> QED  BY <1>2, <3>2, <4>1
    <3>3. CASE k - a \in 1..Len(L) /\ V[k] = L[k - a]
      BY <3>3 DEF Headless
    <3>4. CASE /\ k > a + Len(L) /\ k - a - Len(L) + b - 1 \in b..Len(W)
               /\ V[k] = W[k - a - Len(L) + b - 1]
      <4> DEFINE j == k - a - Len(L) + b - 1
      <4>1. j \in (p + 1)..(e - 1) /\ V[k] = W[j]
        <5>1. k \in Int /\ k <= f - 1 /\ k > a + Len(L) /\ V[k] = W[j]
          BY <1>6, <3>4
        <5>2. j \in Int /\ p + 1 <= j /\ j <= e - 1
          BY <1>6, <5>1, SMTT(30)
        <5> QED  BY <1>6, <5>1, <5>2
      <4> HIDE DEF j
      <4> QED  BY <1>2, <4>1
    <3>5. \/ k \in 1..a /\ V[k] = W[k]
          \/ k \in (a + 1)..(a + Len(L)) /\ k - a \in 1..Len(L) /\ V[k] = L[k - a]
          \/ /\ k > a + Len(L) /\ k - a - Len(L) + b - 1 \in b..Len(W)
             /\ V[k] = W[k - a - Len(L) + b - 1]
      <4>1. b <= Len(W) + 1
        BY <1>6
      <4> QED  BY <3>1, <4>1, LineOfSplice, SMTT(30)
    <3> QED  BY <3>2, <3>3, <3>4, <3>5
  <2>4. f <= Len(V) => V[f].heading # "none"
    <3>1. f <= Len(V) => e \in b..Len(W)
      BY <1>6
    <3> QED  BY <1>2, <1>5, <1>6, <3>1, SMTT(30)
  <2> QED  BY <2>1, <2>2, <2>3, <2>4 DEF IsSection
<1>8. /\ SectionLines(V, s) \in Seq(BodyLines) /\ Len(SectionLines(V, s)) = f - p - 1
      /\ \A k \in 1..(f - p - 1) : SectionLines(V, s)[k] = V[p + k]
  <2>1. HasLines(V, s, p, f)
    BY <1>1, <1>7, SectionIsFound
  <2> QED  BY <2>1 DEF HasLines
<1>9. ASSUME NEW k \in 1..(a - p) PROVE SectionLines(V, s)[k] = W[p + k]
  <2>1. k \in 1..(f - p - 1) /\ p + k \in 1..a
    BY <1>6
  <2> QED  BY <1>3, <1>8, <2>1
<1>10. ASSUME NEW k \in 1..Len(L) PROVE SectionLines(V, s)[a - p + k] = L[k]
  <2> DEFINE n == a - p + k
  <2>1. n \in 1..(f - p - 1) /\ p + n = a + k
    BY <1>6
  <2> HIDE DEF n
  <2>2. SectionLines(V, s)[n] = L[k]
    BY <1>4, <1>8, <2>1
  <2> QED  BY <2>2 DEF n
<1>11. ASSUME NEW k \in 1..(e - b) PROVE SectionLines(V, s)[a - p + Len(L) + k] = W[b + k - 1]
  <2> DEFINE n == a - p + Len(L) + k
             j == b + k - 1
  <2>1. n \in 1..(f - p - 1) /\ j \in b..Len(W) /\ p + n = j + d
    BY <1>6
  <2> HIDE DEF n, j
  <2>2. SectionLines(V, s)[n] = W[j]
    BY <1>5, <1>8, <2>1
  <2> QED  BY <2>2 DEF n, j
<1>12. Len(SectionLines(V, s)) = (a - p) + Len(L) + (e - b)
  <2>1. Len(SectionLines(V, s)) = f - p - 1
    BY <1>8
  <2>2. f - p - 1 = (a - p) + Len(L) + (e - b)
    BY <1>6
  <2> QED  BY <2>1, <2>2
<1> QED  BY <1>8, <1>9, <1>10, <1>11, <1>12 DEF HasSplice

(* V is W and at its end a section t.                                      *)
HasNewSection(W, V, t) ==
  /\ t # "none" /\ Len(W) < Len(V) /\ \A k \in 1..Len(W) : V[k] = W[k]
  /\ V[Len(W) + 1].heading = t
  /\ \A k \in (Len(W) + 2)..Len(V) : V[k].heading = "none"

(* It changes no line of the others.                                       *)
LEMMA NewSectionIsApart ==
  ASSUME NEW W \in Seq(BodyLines), NEW V \in Seq(BodyLines), NEW t, HasNewSection(W, V, t),
         NEW s \in Sections, s # t
  PROVE  SectionLines(V, s) = SectionLines(W, s)
<1> USE DEF HasNewSection
<1>1. /\ Len(W) \in Nat /\ Len(V) \in Nat /\ s # "none"
      /\ DOMAIN W = 1..Len(W) /\ DOMAIN V = 1..Len(V)
  BY DEF Sections
<1>2. ASSUME NEW k \in 1..Len(V), V[k].heading = s PROVE k \in 1..Len(W) /\ W[k].heading = s
  <2>1. k # Len(W) + 1 /\ ~(k \in (Len(W) + 2)..Len(V))
    BY <1>1, <1>2
  <2>2. k \in 1..Len(W)
    BY <1>1, <2>1
  <2> QED  BY <1>2, <2>2
<1>3. CASE HeadingOf(W, s) = {}
  <2>1. HeadingOf(V, s) = {}
    BY <1>1, <1>2, <1>3 DEF HeadingOf
  <2> QED  BY <1>3, <2>1 DEF SectionLines
<1>4. CASE HeadingOf(W, s) # {}
  <2>1. PICK p \in Int, e \in Int : IsSection(W, s, p, e)
    BY <1>4, SectionExists
  <2>2. /\ p \in 1..Len(W) /\ W[p].heading = s /\ e \in (p + 1)..(Len(W) + 1)
        /\ \A k \in 1..(p - 1) : W[k].heading # s
        /\ \A k \in (p + 1)..(e - 1) : W[k].heading = "none"
        /\ e <= Len(W) => W[e].heading # "none"
    BY <2>1 DEF IsSection
  <2>3. /\ SectionLines(W, s) \in Seq(BodyLines) /\ Len(SectionLines(W, s)) = e - p - 1
        /\ \A k \in 1..(e - p - 1) : SectionLines(W, s)[k] = W[p + k]
    BY <2>1, SectionIsFound DEF HasLines
  <2>4. \A k \in 1..(e - 1) : k \in 1..Len(W)
    BY <1>1, <2>2
  <2>5. \A k \in 1..(e - 1) : V[k] = W[k]
    BY <2>4
  <2>6. IsSection(V, s, p, e)
    <3>1. p \in 1..Len(V) /\ V[p].heading = s /\ e \in (p + 1)..(Len(V) + 1)
      BY <1>1, <2>2
    <3>2. \A k \in 1..(p - 1) : V[k].heading # s
      <4>1. \A k \in 1..(p - 1) : k \in 1..(e - 1)
        BY <1>1, <2>2
      <4> QED  BY <2>2, <2>5, <4>1
    <3>3. \A k \in (p + 1)..(e - 1) : V[k].heading = "none"
      <4>1. \A k \in (p + 1)..(e - 1) : k \in 1..(e - 1)
        BY <1>1, <2>2
      <4> QED  BY <2>2, <2>5, <4>1
    <3>4. V[e].heading # "none"
      <4>1. CASE e <= Len(W)
        BY <1>1, <2>2, <4>1
      <4>2. CASE e = Len(W) + 1
        BY <4>2
      <4> QED  BY <1>1, <2>2, <4>1, <4>2
    <3> QED  BY <3>1, <3>2, <3>3, <3>4 DEF IsSection
  <2>7. /\ SectionLines(V, s) \in Seq(BodyLines) /\ Len(SectionLines(V, s)) = e - p - 1
        /\ \A k \in 1..(e - p - 1) : SectionLines(V, s)[k] = V[p + k]
    BY <2>6, SectionIsFound DEF HasLines
  <2>8. ASSUME NEW k \in 1..Len(SectionLines(V, s))
        PROVE  SectionLines(V, s)[k] = SectionLines(W, s)[k]
    <3>1. k \in 1..(e - p - 1) /\ p + k \in 1..(e - 1)
      BY <1>1, <2>2, <2>7
    <3> QED  BY <2>3, <2>5, <2>7, <3>1
  <2> QED  BY <2>3, <2>7, <2>8, SeqEqual
<1> QED  BY <1>3, <1>4

(* A message is about a part of the document, and an item only of a list.  *)
LEMMA TargetIsPart ==
  ASSUME saying \in Sayings
  PROVE  /\ Target(saying).part \in Sections \cup {"title", "whole", "other"}
         /\ Target(saying).item \in Nat
         /\ Target(saying).part \notin Sections => Target(saying).item = 0
         /\ Target(saying).part = "title" => Target(saying).rule = "title"
         /\ Target(saying).rule = "whole" => Target(saying).part = "whole"
         /\ Target(saying).rule \in Sections \cup {"title", "whole", "other"}
<1> DEFINE found == {i \in DOMAIN Parts : Has(Content(saying), Parts[i])}
           label == IF saying.quoted # "none" THEN Quotes[saying.quoted]
                    ELSE IF found = {} THEN Quotes["whole"] ELSE Quotes[Parts[First(found)]]
           numbered == /\ label.part \in Sections
                       /\ saying.quoted = "none" => label.part # "summary"
<1>1. DOMAIN Parts = 1..5 /\ found \subseteq Nat
  BY SMT DEF Parts
<1>2. found # {} => First(found) \in found
  <2> HIDE DEF found
  <2> QED  BY <1>1, FirstOf
<1>3. \E x \in DOMAIN Quotes : label = Quotes[x]
  <2>1. ASSUME NEW i \in 1..5 PROVE Parts[i] \in DOMAIN Quotes
    BY SMT DEF Parts, Quotes
  <2>2. found # {} => First(found) \in 1..5
    BY <1>1, <1>2
  <2>3. "whole" \in DOMAIN Quotes
    BY SMT DEF Quotes
  <2>4. saying.quoted # "none" => saying.quoted \in DOMAIN Quotes
    BY WordingAssumption DEF Messages
  <2> HIDE DEF found
  <2> QED  BY <2>1, <2>2, <2>3, <2>4
<1>4. ASSUME NEW x \in DOMAIN Quotes
      PROVE  /\ Quotes[x].part \in Sections \cup {"title", "whole", "other"}
             /\ Quotes[x].part = "title" => Quotes[x].rule = "title"
             /\ Quotes[x].rule = "whole" => Quotes[x].part = "whole"
             /\ Quotes[x].rule \in Sections \cup {"title", "whole", "other"}
  BY SMT DEF Quotes, Quote, Sections
<1>5. Target(saying) = [part |-> label.part, rule |-> label.rule, guarded |-> label.guarded,
                        item |-> IF numbered THEN saying.item ELSE 0]
  BY DEF Target
<1>6. saying.item \in Nat
  BY WordingAssumption DEF Messages
<1> HIDE DEF label
<1> QED  BY <1>3, <1>4, <1>5, <1>6

LEMMA LinesOfSection ==
  ASSUME NEW W \in Seq(BodyLines), NEW s \in Sections
  PROVE  SectionLines(W, s) \in Seq(BodyLines) /\ Headless(SectionLines(W, s))
<1>1. CASE HeadingOf(W, s) = {}
  BY <1>1 DEF SectionLines, Headless
<1>2. CASE HeadingOf(W, s) # {}
  <2>1. PICK p \in Int, e \in Int : IsSection(W, s, p, e)
    BY <1>2, SectionExists
  <2>2. /\ SectionLines(W, s) \in Seq(BodyLines) /\ Len(SectionLines(W, s)) = e - p - 1
        /\ \A k \in 1..(e - p - 1) : SectionLines(W, s)[k] = W[p + k]
    BY <2>1, SectionIsFound DEF HasLines
  <2>3. /\ p \in Int /\ e \in Int
        /\ \A k \in (p + 1)..(e - 1) : W[k].heading = "none"
    BY <2>1 DEF IsSection
  <2>4. ASSUME NEW k \in 1..Len(SectionLines(W, s)) PROVE SectionLines(W, s)[k].heading = "none"
    <3>1. k \in 1..(e - p - 1) /\ p + k \in (p + 1)..(e - 1)
      BY <2>2, <2>3
    <3> QED  BY <2>2, <2>3, <3>1
  <2> QED  BY <2>2, <2>4 DEF Headless
<1> QED  BY <1>1, <1>2

LEMMA LineOf ==
  ASSUME NEW W \in Seq(BodyLines), NEW i \in Nat
  PROVE  /\ LineAt(W, i) \in Seq(BodyLines)
         /\ Len(LineAt(W, i)) = 0 \/ Len(LineAt(W, i)) = 1
         /\ \A k \in 1..Len(LineAt(W, i)) : i \in 1..Len(W) /\ LineAt(W, i)[k] = W[i]
<1>1. CASE i \in DOMAIN W
  <2>1. W[i] \in BodyLines /\ LineAt(W, i) = <<W[i]>>
    BY <1>1 DEF LineAt
  <2> QED  BY <1>1, <2>1
<1>2. CASE i \notin DOMAIN W
  <2>1. LineAt(W, i) = <<>>
    BY <1>2 DEF LineAt
  <2> QED  BY <2>1
<1> QED  BY <1>1, <1>2

(* What is in the scope of a section, or of an item of it, has no heading. *)
LEMMA ScopeOfSection ==
  ASSUME NEW W \in Seq(BodyLines), NEW target, target.part \in Sections, target.item \in Nat
  PROVE  Scope(W, target) \in Seq(BodyLines) /\ Headless(Scope(W, target))
<1>1. target.part # "whole" /\ target.part # "title"
  BY DEF Sections
<1>2. CASE target.item = 0
  <2>1. Scope(W, target) = SectionLines(W, target.part)
    BY <1>1, <1>2 DEF Scope
  <2> QED  BY <2>1, LinesOfSection
<1>3. CASE target.item > 0
  <2> DEFINE X == SectionLines(W, target.part)
  <2>1. Scope(W, target) = LineAt(X, target.item)
    BY <1>1, <1>3 DEF Scope
  <2>2. X \in Seq(BodyLines) /\ Headless(X)
    BY LinesOfSection
  <2> HIDE DEF X
  <2>3. /\ LineAt(X, target.item) \in Seq(BodyLines)
        /\ Len(LineAt(X, target.item)) = 0 \/ Len(LineAt(X, target.item)) = 1
        /\ \A k \in 1..Len(LineAt(X, target.item)) :
             target.item \in 1..Len(X) /\ LineAt(X, target.item)[k] = X[target.item]
    BY <2>2, LineOf
  <2>4. ASSUME NEW k \in 1..Len(LineAt(X, target.item))
        PROVE  LineAt(X, target.item)[k].heading = "none"
    <3> QED  BY <2>2, <2>3 DEF Headless
  <2> QED  BY <2>1, <2>3, <2>4 DEF Headless
<1> QED  BY <1>2, <1>3

LEMMA ItemIsLine ==
  ASSUME NEW id \in {"rule", "cut", "fallback"}, NEW traits \in SUBSET Traits
  PROVE  Item(id, traits) \in BodyLines /\ Item(id, traits).heading = "none"
BY DEF Item, BodyLines, Texts

LEMMA TraitsAreText ==
  ASSUME NEW W \in Seq(BodyLines)
  PROVE  AllTraits(W) \in SUBSET Traits
<1>1. \A i \in DOMAIN W : W[i] \in BodyLines
  OBVIOUS
<1> QED  BY <1>1 DEF AllTraits, BodyLines

LEMMA AppendHeadless ==
  ASSUME NEW W \in Seq(BodyLines), Headless(W), NEW l \in BodyLines, l.heading = "none"
  PROVE  Append(W, l) \in Seq(BodyLines) /\ Headless(Append(W, l))
<1>1. Append(W, l) \in Seq(BodyLines) /\ Len(Append(W, l)) = Len(W) + 1
  OBVIOUS
<1>2. ASSUME NEW k \in 1..(Len(W) + 1) PROVE Append(W, l)[k].heading = "none"
  <2>1. CASE k \in 1..Len(W)
    BY <2>1 DEF Headless
  <2>2. CASE k = Len(W) + 1
    BY <2>2
  <2> QED  BY <2>1, <2>2
<1> QED  BY <1>1, <1>2 DEF Headless

LEMMA OneLineHeadless ==
  ASSUME NEW l \in BodyLines, l.heading = "none"
  PROVE  <<l>> \in Seq(BodyLines) /\ Headless(<<l>>)
BY DEF Headless

LEMMA WithLastHeadless ==
  ASSUME NEW W \in Seq(BodyLines), Headless(W), NEW traits \in SUBSET Traits
  PROVE  WithLast(W, traits) \in Seq(BodyLines) /\ Headless(WithLast(W, traits))
<1>1. CASE W = <<>>
  BY <1>1, ItemIsLine, OneLineHeadless DEF WithLast
<1>2. CASE W # <<>>
  <2> DEFINE n == Len(W)
             l == Item("rule", W[n].traits \cup traits)
  <2>1. n \in 1..Len(W) /\ W[n] \in BodyLines
    BY <1>2
  <2>2. l \in BodyLines /\ l.heading = "none"
    <3>1. W[n].traits \cup traits \in SUBSET Traits
      BY <2>1 DEF BodyLines
    <3> HIDE DEF n
    <3> QED  BY <3>1, ItemIsLine
  <2>3. WithLast(W, traits) = [W EXCEPT ![n] = l]
    BY <1>2 DEF WithLast
  <2> HIDE DEF l, n
  <2>4. [W EXCEPT ![n] = l] \in Seq(BodyLines) /\ Len([W EXCEPT ![n] = l]) = Len(W)
    BY <2>1, <2>2
  <2>5. \A k \in 1..Len(W) : [W EXCEPT ![n] = l][k] = IF k = n THEN l ELSE W[k]
    OBVIOUS
  <2> QED  BY <2>2, <2>3, <2>4, <2>5 DEF Headless
<1> QED  BY <1>1, <1>2

(* The fixed rules write no heading.                                       *)
LEMMA FixedAreHeadless ==
  ASSUME NEW words, NEW target, NEW old \in Seq(BodyLines), Headless(old),
         target.rule \in Sections \cup {"title", "other"},
         NEW r \in FixedReplies(words, target, old)
  PROVE  r \in Seq(BodyLines) /\ Headless(r)
<1> DEFINE S == {"operational", "strong"}
           O == {"operational"}
<1>1. S \in SUBSET Traits /\ O \in SUBSET Traits
  BY DEF Traits
<1>2. CASE Has(words, "delete")
  BY <1>2 DEF FixedReplies, Headless
<1>3. CASE ~Has(words, "delete") /\ Has(words, "short") /\ old # <<>>
  <2>1. FixedReplies(words, target, old) =
          {Append(SubSeq(old, 1, n - 1), Item("cut", t)) :
             n \in 1..Len(old), t \in SUBSET AllTraits(old)}
    BY <1>3 DEF FixedReplies
  <2>2. PICK n \in 1..Len(old), t \in SUBSET AllTraits(old) :
          r = Append(SubSeq(old, 1, n - 1), Item("cut", t))
    BY <2>1
  <2>3. Item("cut", t) \in BodyLines /\ Item("cut", t).heading = "none"
    BY TraitsAreText, ItemIsLine
  <2>4. /\ SubSeq(old, 1, n - 1) \in Seq(BodyLines)
        /\ Headless(SubSeq(old, 1, n - 1))
    <3>1. \A i \in 1..(n - 1) : old[i] \in BodyLines /\ i \in 1..Len(old)
      OBVIOUS
    <3>2. /\ SubSeq(old, 1, n - 1) \in Seq(BodyLines)
          /\ Len(SubSeq(old, 1, n - 1)) = IF 1 <= n - 1 THEN n - 1 - 1 + 1 ELSE 0
          /\ \A i \in 1..(n - 1 - 1 + 1) : SubSeq(old, 1, n - 1)[i] = old[1 + i - 1]
      BY <3>1, SubSeqProperties
    <3>3. ASSUME NEW i \in 1..Len(SubSeq(old, 1, n - 1))
          PROVE  SubSeq(old, 1, n - 1)[i].heading = "none"
      <4>1. i \in 1..(n - 1) /\ i \in 1..(n - 1 - 1 + 1) /\ 1 + i - 1 = i
        BY <3>2
      <4>2. SubSeq(old, 1, n - 1)[i] = old[i]
        BY <3>2, <4>1
      <4> QED  BY <3>1, <4>1, <4>2 DEF Headless
    <3> QED  BY <3>2, <3>3 DEF Headless
  <2> QED  BY <2>2, <2>3, <2>4, AppendHeadless
<1>4. CASE ~Has(words, "delete") /\ ~(Has(words, "short") /\ old # <<>>)
  <2>1. /\ target.rule = "safety" => r = <<Item("rule", S)>> \/ r = WithLast(old, S)
        /\ target.rule \in {"procedure", "summary", "title"} => r = WithLast(old, O)
        /\ target.rule = "risk" => r = Append(old, Item("rule", O))
        /\ target.rule = "other" => r = WithLast(old, {})
    BY <1>4 DEF FixedReplies
  <2>2. Item("rule", S) \in BodyLines /\ Item("rule", S).heading = "none"
    BY <1>1, ItemIsLine
  <2>3. Item("rule", O) \in BodyLines /\ Item("rule", O).heading = "none"
    BY <1>1, ItemIsLine
  <2>4. WithLast(old, S) \in Seq(BodyLines) /\ Headless(WithLast(old, S))
    BY <1>1, WithLastHeadless
  <2>5. WithLast(old, O) \in Seq(BodyLines) /\ Headless(WithLast(old, O))
    BY <1>1, WithLastHeadless
  <2> HIDE DEF S, O
  <2>6. <<Item("rule", S)>> \in Seq(BodyLines) /\ Headless(<<Item("rule", S)>>)
    BY <2>2, OneLineHeadless
  <2>7. Append(old, Item("rule", O)) \in Seq(BodyLines)
        /\ Headless(Append(old, Item("rule", O)))
    BY <2>3, AppendHeadless
  <2>8. target.rule \in {"safety", "procedure", "summary", "title", "risk", "other"}
    BY DEF Sections
  <2>9. WithLast(old, {}) \in Seq(BodyLines) /\ Headless(WithLast(old, {}))
    BY WithLastHeadless
  <2> QED  BY <2>1, <2>4, <2>5, <2>6, <2>7, <2>8, <2>9
<1> QED  BY <1>2, <1>3, <1>4

(* What is put into a section has no heading; what becomes the title has   *)
(* none, or is one that the language model wrote.                          *)
LEMMA ReplacementHeadless ==
  ASSUME reply \in Seq(BodyLines), workOrder \in Seq(BodyLines),
         Target(saying).part \in Sections \cup {"title"}, Target(saying).item \in Nat,
         Target(saying).rule \in Sections \cup {"title", "other"},
         Target(saying).part = "title" => workOrder[1].heading = "none",
         NEW r \in Replacements
  PROVE  /\ r \in Seq(BodyLines)
         /\ \/ Headless(r)
            \/ Target(saying).part = "title" /\ Len(r) = 1 /\ r[1].heading # "none"
<1> DEFINE target == Target(saying)
           usable == Bounded(reply, target)
<1>1. target.part # "whole"
  BY DEF Sections
<1>2. Scope(workOrder, target) \in Seq(BodyLines) /\ Headless(Scope(workOrder, target))
  <2> HIDE DEF target
  <2>1. CASE target.part \in Sections
    BY <2>1, ScopeOfSection DEF target
  <2>2. CASE target.part = "title"
    <3>1. Scope(workOrder, target) = LineAt(workOrder, 1)
      BY <2>2 DEF Scope, Sections
    <3>2. /\ LineAt(workOrder, 1) \in Seq(BodyLines)
          /\ Len(LineAt(workOrder, 1)) = 0 \/ Len(LineAt(workOrder, 1)) = 1
          /\ \A k \in 1..Len(LineAt(workOrder, 1)) : LineAt(workOrder, 1)[k] = workOrder[1]
      BY LineOf
    <3>3. ASSUME NEW k \in 1..Len(LineAt(workOrder, 1))
          PROVE  LineAt(workOrder, 1)[k].heading = "none"
      <4> QED  BY <2>2, <3>2 DEF target
    <3> QED  BY <3>1, <3>2, <3>3 DEF Headless
  <2> QED  BY <2>1, <2>2 DEF target
<1>3. /\ usable \in Seq(BodyLines)
      /\ \/ Headless(usable)
         \/ target.part = "title" /\ Len(usable) = 1 /\ usable[1].heading # "none"
  <2> HIDE DEF target
  <2>1. CASE usable = reply /\ \A i \in DOMAIN reply : reply[i].heading = "none"
    BY <2>1 DEF Headless
  <2>2. CASE usable = Scope(reply, target) /\ target.part \in Sections
    BY <2>2, ScopeOfSection DEF target
  <2>3. CASE usable = Scope(reply, target) /\ target.part = "title"
    <3>1. usable = LineAt(reply, 1)
      BY <2>3 DEF Scope, Sections
    <3>2. /\ LineAt(reply, 1) \in Seq(BodyLines)
          /\ Len(LineAt(reply, 1)) = 0 \/ Len(LineAt(reply, 1)) = 1
      BY LineOf
    <3> HIDE DEF usable
    <3>3. usable \in Seq(BodyLines) /\ (Len(usable) = 0 \/ Len(usable) = 1)
      BY <3>1, <3>2
    <3>4. CASE Len(usable) = 0
      BY <3>3, <3>4 DEF Headless
    <3>5. CASE Len(usable) = 1
      BY <2>3, <3>3, <3>5 DEF Headless
    <3> QED  BY <3>3, <3>4, <3>5
  <2>4. \/ usable = reply /\ \A i \in DOMAIN reply : reply[i].heading = "none"
        \/ usable = Scope(reply, target)
    BY DEF Bounded
  <2>5. target.part \in Sections \/ target.part = "title"
    BY DEF target
  <2> HIDE DEF usable
  <2> QED  BY <2>1, <2>2, <2>3, <2>4, <2>5
<1>4. r = usable \/ r \in FixedReplies(Instruction(saying), target, Scope(workOrder, target))
  BY <1>1 DEF Replacements
<1>5. CASE r \in FixedReplies(Instruction(saying), target, Scope(workOrder, target))
  <2>1. target.rule \in Sections \cup {"title", "other"}
    OBVIOUS
  <2> HIDE DEF target
  <2> QED  BY <1>2, <1>5, <2>1, FixedAreHeadless
<1> HIDE DEF usable
<1> QED  BY <1>3, <1>4, <1>5

LEMMA FallbackIsLine ==
  ASSUME NEW words
  PROVE  /\ Fallback(words) \in BodyLines /\ Fallback(words).heading = "none"
         /\ Fallback(words).traits \in SUBSET Traits
<1>1. {t \in {"operational", "strong"} : Has(words, t)} \in SUBSET Traits
  BY DEF Traits
<1>2. Fallback(words) = Item("fallback", {t \in {"operational", "strong"} : Has(words, t)})
  BY DEF Fallback
<1> QED  BY <1>1, <1>2, ItemIsLine DEF Item

LEMMA SpliceIsSplice ==
  ASSUME workOrder \in Seq(BodyLines), NEW first \in Nat, NEW past \in Nat, 1 <= first,
         first <= past, past <= Len(workOrder) + 1, NEW L \in Seq(BodyLines)
  PROVE  IsSplice(workOrder, Splice(first, past, L), first - 1, past, L)
<1>1. /\ Len(workOrder) \in Nat /\ first - 1 \in Nat /\ 1 <= past
      /\ first - 1 <= Len(workOrder)
  OBVIOUS
<1>2. IsSplice(workOrder, SubSeq(workOrder, 1, first - 1) \o L
                            \o SubSeq(workOrder, past, Len(workOrder)), first - 1, past, L)
  BY <1>1, SpliceOf
<1> QED  BY <1>2 DEF Splice

(* There is such an item in the section, or it is the next one.            *)
HasPlace(W, target) ==
  target.item \in Nat /\ target.item <= Len(SectionLines(W, target.part)) + 1

(* What is written into a section that is there is spliced in between its  *)
(* heading and its end; for one of its items in the place of the item.     *)
LEMMA SectionIsSpliced ==
  ASSUME workOrder \in Seq(BodyLines), NEW target, target.part \in Sections,
         NEW p \in Int, NEW e \in Int, IsSection(workOrder, target.part, p, e),
         HasPlace(workOrder, target),
         NEW isNone \in BOOLEAN, NEW r \in Seq(BodyLines), Headless(r)
  PROVE  \E a \in Nat, b \in Nat, L \in Seq(BodyLines) :
           /\ Headless(L) /\ p <= a /\ a < b /\ b <= e
           /\ IsSplice(workOrder, Written(target, isNone, r), a, b, L)
           /\ target.item \in 1..Len(SectionLines(workOrder, target.part)) =>
                a = p + target.item - 1 /\ b = p + target.item + 1
<1> DEFINE W == workOrder
           s == target.part
           F == Fallback(Instruction(saying))
           lines == IF isNone THEN <<F>> ELSE r
           orFallback == IF lines = <<>> THEN <<F>> ELSE lines
           items == SectionLines(W, s)
           at == SectionStart(W, s) + target.item
           G == Item("fallback", items[target.item].traits \cup F.traits)
           inItem == IF isNone THEN <<G>> ELSE IF lines = <<>> THEN <<>> ELSE lines
           V == Written(target, isNone, r)
<1>1. /\ HeadingOf(W, s) # {} /\ SectionStart(W, s) = p /\ SectionEnd(W, s) = e
      /\ items \in Seq(BodyLines) /\ Len(items) = e - p - 1
  BY SectionIsFound DEF HasLines
<1>2. <<F>> \in Seq(BodyLines) /\ Headless(<<F>>)
  BY FallbackIsLine, OneLineHeadless
<1>3. /\ lines \in Seq(BodyLines) /\ Headless(lines)
      /\ orFallback \in Seq(BodyLines) /\ Headless(orFallback)
  <2> HIDE DEF F
  <2> QED  BY <1>2
<1>4. target.part # "whole" /\ target.part # "title" /\ target.part # "other"
  BY DEF Sections
<1>5. Len(W) \in Nat /\ 1 <= p /\ p + 1 <= e /\ e <= Len(W) + 1 /\ p <= Len(W)
  BY DEF IsSection
<1> DEFINE i == target.item
           n == Len(items)
<1>5a. i \in Nat /\ n \in Nat /\ n = e - p - 1 /\ i <= n + 1 /\ at = p + i
  BY <1>1 DEF HasPlace
<1>6. CASE target.item = 0
  <2>1. V = Splice(p + 1, e, lines)
    BY <1>1, <1>4, <1>6 DEF Written
  <2> HIDE DEF V, lines
  <2>2. p \in Nat /\ p + 1 \in Nat /\ e \in Nat /\ 1 <= p + 1
    BY <1>5
  <2>3. IsSplice(W, V, (p + 1) - 1, e, lines)
    BY <1>3, <1>5, <2>1, <2>2, SpliceIsSplice
  <2>4. (p + 1) - 1 = p /\ p < e
    BY <1>5
  <2>5. target.item \notin 1..Len(items)
    BY <1>6
  <2>6. IsSplice(W, V, p, e, lines)
    BY <2>3, <2>4
  <2> QED  BY <1>3, <2>2, <2>4, <2>5, <2>6 DEF V
<1>7. CASE target.item \in 1..Len(items)
  <2>0. target.item # 0 /\ i \in 1..n
    BY <1>7
  <2>1. V = Splice(at, at + 1, inItem)
    BY <1>1, <1>4, <1>7, <2>0 DEF Written
  <2>2. items[target.item] \in BodyLines
    BY <1>1, <1>7
  <2>3. G \in BodyLines /\ G.heading = "none"
    <3>1. items[target.item].traits \in SUBSET Traits
      BY <2>2 DEF BodyLines
    <3>2. F.traits \in SUBSET Traits
      BY FallbackIsLine
    <3>3. items[target.item].traits \cup F.traits \in SUBSET Traits
      BY <3>1, <3>2
    <3> HIDE DEF items, F
    <3> QED  BY <3>3, ItemIsLine
  <2>4. inItem \in Seq(BodyLines) /\ Headless(inItem)
    <3>1. <<G>> \in Seq(BodyLines) /\ Headless(<<G>>)
      BY <2>3, OneLineHeadless
    <3>2. inItem = <<G>> \/ inItem = lines
      OBVIOUS
    <3> HIDE DEF inItem, lines, G
    <3> QED  BY <1>3, <3>1, <3>2
  <2> DEFINE a == p + i - 1
             b == p + i + 1
  <2> HIDE DEF V, inItem, at, i, n
  <2>6. /\ at \in Nat /\ at + 1 \in Nat /\ 1 <= at /\ at <= at + 1 /\ at + 1 <= Len(W) + 1
        /\ at - 1 = a /\ at + 1 = b /\ a \in Nat /\ b \in Nat /\ p <= a /\ a < b /\ b <= e
    BY <1>5, <1>5a, <2>0
  <2> HIDE DEF a, b
  <2>7. IsSplice(W, V, at - 1, at + 1, inItem)
    BY <2>1, <2>4, <2>6, SpliceIsSplice
  <2>8. IsSplice(W, V, a, b, inItem)
    BY <2>6, <2>7
  <2> QED  BY <2>4, <2>6, <2>8 DEF V, a, b, i
<1>8. CASE target.item # 0 /\ target.item \notin 1..Len(items)
  <2>1. V = Splice(at, at, orFallback)
    BY <1>1, <1>4, <1>8 DEF Written
  <2>0. i # 0 /\ i \notin 1..n
    BY <1>8
  <2> HIDE DEF V, at, orFallback, i, n
  <2>2. at = e
    BY <1>5a, <2>0
  <2>3. at \in Nat /\ e \in Nat /\ 1 <= at /\ at <= Len(W) + 1
    BY <1>5, <2>2
  <2>4. IsSplice(W, V, at - 1, at, orFallback)
    BY <1>3, <2>1, <2>3, SpliceIsSplice
  <2>5. e - 1 \in Nat /\ p <= e - 1 /\ e - 1 < e
    BY <1>5
  <2>6. IsSplice(W, V, e - 1, e, orFallback)
    BY <2>2, <2>4
  <2> QED  BY <1>3, <1>8, <2>3, <2>5, <2>6 DEF V
<1> QED  BY <1>6, <1>7, <1>8

(* A proposal is one revision of the document, by the answer or by the     *)
(* fallback.                                                               *)
LEMMA ProposalIsRevision ==
  ASSUME NEW target, NEW r, NEW apart \in BOOLEAN
  PROVE  \E isNone \in BOOLEAN, x \in {r, <<>>} :
           LET lines == IF isNone THEN <<Fallback(Instruction(saying))>> ELSE x IN
           \/ Proposed(target, r, apart) = Written(target, isNone, x)
           \/ RunsOn(target, lines) /\ Proposed(target, r, apart) = RunOn(target, lines)
BY DEF Proposed, Spliced

(* Lines of which one runs into a heading are no headings.                 *)
LEMMA RunTogether ==
  ASSUME NEW L \in Seq(BodyLines), Headless(L), NEW k \in 1..Len(L), NEW t \in SUBSET Traits
  PROVE  LET M == [L EXCEPT ![k] = Item(@.id, @.traits \cup t)] IN
         M \in Seq(BodyLines) /\ Headless(M) /\ Len(M) = Len(L)
<1> DEFINE l == Item(L[k].id, L[k].traits \cup t)
           M == [L EXCEPT ![k] = l]
<1>1. l \in BodyLines /\ l.heading = "none"
  <2>1. L[k] \in BodyLines
    OBVIOUS
  <2>2. L[k].id \in Texts /\ L[k].traits \cup t \in SUBSET Traits
    BY <2>1 DEF BodyLines
  <2> QED  BY <2>2 DEF Item, BodyLines
<1> HIDE DEF l
<1>2. /\ M \in Seq(BodyLines) /\ Len(M) = Len(L)
      /\ \A j \in 1..Len(L) : M[j] = IF j = k THEN l ELSE L[j]
  BY <1>1
<1>3. Headless(M)
  BY <1>1, <1>2 DEF Headless
<1>4. M = [L EXCEPT ![k] = Item(@.id, @.traits \cup t)]
  BY DEF l
<1> QED  BY <1>2, <1>3, <1>4

(* A heading that runs into the lines is none any more, and nothing is     *)
(* found behind it.                                                        *)
LEMMA LastHeadingIsLost ==
  ASSUME workOrder \in Seq(BodyLines), NEW target, target.part \in Sections, target.item \in Nat,
         NEW L \in Seq(BodyLines), Headless(L), RunsOn(target, L),
         SectionStart(workOrder, target.part) = Len(workOrder)
  PROVE  Scope(RunOn(target, L), target) = <<>>
<1> DEFINE W == workOrder
           p == Len(W)
           M == [L EXCEPT ![1] = Item(@.id, @.traits \cup W[p].traits)]
           V == RunOn(target, L)
<1>1. IsSection(W, target.part, p, SectionEnd(W, target.part))
  BY SectionFound DEF RunsOn
<1>2. p \in 1..Len(W) /\ \A k \in 1..(p - 1) : W[k].heading # target.part
  BY <1>1 DEF IsSection
<1>3. p \in Nat /\ 1 <= p /\ p + 1 <= Len(W) + 1 /\ p - 1 \in Nat /\ p + 1 \in Nat
  BY <1>2
<1>4. V = Splice(p, p + 1, M)
  BY DEF RunOn
<1>5. M \in Seq(BodyLines) /\ Headless(M)
  <2>1. 1 \in 1..Len(L)
    BY DEF RunsOn
  <2>2. W[p].traits \in SUBSET Traits
    <3>1. W[p] \in BodyLines
      BY <1>2
    <3> QED  BY <3>1 DEF BodyLines
  <2> QED  BY <2>1, <2>2, RunTogether
<1> HIDE DEF M, V, p
<1>6. IsSplice(W, V, p - 1, p + 1, M)
  BY <1>3, <1>4, <1>5, SpliceIsSplice
<1>7. ASSUME NEW k \in 1..Len(V) PROVE V[k].heading # target.part
  <2>1. p - 1 < p + 1
    BY <1>3
  <2>2. CASE k \in 1..(p - 1) /\ V[k] = W[k]
    BY <1>2, <2>2
  <2>3. CASE k - (p - 1) \in 1..Len(M) /\ V[k] = M[k - (p - 1)]
    <3>1. V[k].heading = "none"
      BY <1>5, <2>3 DEF Headless
    <3> QED  BY <3>1 DEF Sections
  <2>4. ~(k - (p - 1) - Len(M) + (p + 1) - 1 \in (p + 1)..Len(W))
    BY <1>3 DEF p
  <2> QED  BY <1>3, <1>5, <1>6, <2>1, <2>2, <2>3, <2>4, LineOfSplice
<1>8. V \in Seq(BodyLines)
  BY <1>6 DEF IsSplice
<1>9. SectionLines(V, target.part) = <<>>
  <2>1. HeadingOf(V, target.part) = {}
    BY <1>7, <1>8 DEF HeadingOf
  <2> QED  BY <2>1 DEF SectionLines
<1>10. \A i \in Nat : LineAt(<<>>, i) = <<>>
  BY DEF LineAt
<1>11. target.part # "whole" /\ target.part # "title" /\ target.part # "other"
  BY DEF Sections
<1>12. target.item = 0 \/ target.item > 0
  OBVIOUS
<1> QED  BY <1>9, <1>10, <1>11, <1>12 DEF Scope, V

(* Lines that run into the next heading cost the document that heading.    *)
LEMMA NextHeadingIsSwallowed ==
  ASSUME workOrder \in Seq(BodyLines), NEW target, target.part \in Sections,
         NEW L \in Seq(BodyLines), Headless(L), RunsOn(target, L),
         SectionStart(workOrder, target.part) # Len(workOrder)
  PROVE  SwallowsHeading(workOrder, RunOn(target, L), target)
<1> DEFINE W == workOrder
           p == SectionStart(W, target.part)
           n == Len(L)
           M == [L EXCEPT ![n] = Item(@.id, @.traits \cup W[p + 1].traits)]
           V == RunOn(target, L)
<1>1. IsSection(W, target.part, p, SectionEnd(W, target.part))
  BY SectionFound DEF RunsOn
<1>2. /\ Len(W) \in Nat /\ p \in Nat /\ 1 <= p /\ p < Len(W)
      /\ p + 1 \in Nat /\ p + 2 \in Nat /\ p + 2 <= Len(W) + 1 /\ p + 1 - 1 = p
  <2>1. p \in 1..Len(W) /\ p # Len(W)
    BY <1>1 DEF IsSection
  <2> HIDE DEF p
  <2> QED  BY <2>1
<1>3. V = Splice(p + 1, p + 2, M)
  BY DEF RunOn
<1>4. n \in Nat /\ n >= 1 /\ n \in 1..Len(L)
  BY DEF RunsOn
<1>5. M \in Seq(BodyLines) /\ Headless(M) /\ Len(M) = n
  <2>1. W[p + 1].traits \in SUBSET Traits
    <3>1. p + 1 \in 1..Len(W)
      BY <1>2
    <3>2. W[p + 1] \in BodyLines
      BY <3>1
    <3> QED  BY <3>2 DEF BodyLines
  <2>2. n = Len(L)
    OBVIOUS
  <2>3. PICK t : t = W[p + 1].traits
    OBVIOUS
  <2>4. M = [L EXCEPT ![n] = Item(@.id, @.traits \cup t)]
    BY <2>3
  <2> HIDE DEF p, n, M
  <2>5. n \in 1..Len(L) /\ t \in SUBSET Traits
    BY <1>4, <2>1, <2>3
  <2> DEFINE X == [L EXCEPT ![n] = Item(@.id, @.traits \cup t)]
  <2>6. X \in Seq(BodyLines) /\ Headless(X) /\ Len(X) = Len(L)
    BY <2>5, RunTogether
  <2> HIDE DEF X
  <2>7. M = X
    BY <2>4 DEF X
  <2> QED  BY <2>2, <2>6, <2>7
<1> HIDE DEF M, V, p, n
<1>6. IsSplice(W, V, p, p + 2, M)
  <2>1. IsSplice(W, V, (p + 1) - 1, p + 2, M)
    BY <1>2, <1>3, <1>5, SpliceIsSplice
  <2> QED  BY <1>2, <2>1
<1>7. Len(V) \in Nat /\ Len(V) - Len(W) = n - 1
  <2>1. Len(V) = p + Len(M) + (Len(W) - (p + 2) + 1)
    BY <1>6 DEF IsSplice
  <2> QED  BY <1>2, <1>4, <1>5, <2>1
<1>8. ASSUME NEW k \in (p + 2)..Len(W) PROVE V[k + (Len(V) - Len(W))] = W[k]
  <2>1. V[p + Len(M) + (k - (p + 2) + 1)] = W[k]
    BY <1>6 DEF IsSplice
  <2>2. p + Len(M) + (k - (p + 2) + 1) = k + (n - 1)
    BY <1>2, <1>4, <1>5
  <2> QED  BY <1>7, <2>1, <2>2
<1>9. \A k \in 1..p : V[k] = W[k]
  BY <1>6 DEF IsSplice
<1>10. Len(V) >= Len(W)
  BY <1>2, <1>4, <1>7
<1>11. HeadingOf(W, target.part) # {} /\ SectionLines(W, target.part) = <<>>
  BY DEF RunsOn
<1> QED  BY <1>2, <1>8, <1>9, <1>10, <1>11 DEF SwallowsHeading, V, p

(* What is in the scope of the safety section or of an item of it is in    *)
(* the section.                                                            *)
LEMMA ScopeIsOfSection ==
  ASSUME NEW W, NEW target, target.part = "safety", target.item \in Nat, target.guarded,
         Accepted(target, Scope(W, target))
  PROVE  "strong" \in AllTraits(SectionLines(W, "safety"))
<1> DEFINE X == SectionLines(W, "safety")
<1>1. "strong" \in AllTraits(Scope(W, target))
  BY DEF Accepted
<1>2. target.part \in Sections /\ target.part \notin {"whole", "title", "other"}
  BY DEF Sections
<1>3. CASE target.item = 0
  <2>1. Scope(W, target) = X
    BY <1>2, <1>3 DEF Scope
  <2> QED  BY <1>1, <2>1
<1>4. CASE target.item > 0
  <2>1. Scope(W, target) = LineAt(X, target.item)
    BY <1>2, <1>4 DEF Scope
  <2> HIDE DEF X
  <2>2. CASE target.item \in DOMAIN X
    <3>1. LineAt(X, target.item) = <<X[target.item]>>
      BY <2>2 DEF LineAt
    <3>2. "strong" \in X[target.item].traits
      BY <1>1, <2>1, <3>1 DEF AllTraits
    <3> QED  BY <2>2, <3>2 DEF AllTraits, X
  <2>3. CASE target.item \notin DOMAIN X
    BY <1>1, <2>1, <2>3 DEF LineAt, AllTraits
  <2> QED  BY <2>2, <2>3
<1> QED  BY <1>3, <1>4

LEMMA TitleStaysInScope ==
  ASSUME workOrder \in Seq(BodyLines), workOrder # <<>>, workOrder[1].heading = "none",
         NEW target, target.part = "title", target.item = 0,
         NEW isNone \in BOOLEAN, NEW r \in Seq(BodyLines),
         Headless(r) \/ (Len(r) = 1 /\ r[1].heading # "none"),
         Written(target, isNone, r)[1].heading = "none"
  PROVE  StaysInScope(workOrder, Written(target, isNone, r), target)
<1> DEFINE W == workOrder
           F == Fallback(Instruction(saying))
           lines == IF isNone THEN <<F>> ELSE r
           L == IF lines = <<>> THEN <<F>> ELSE lines
           V == Written(target, isNone, r)
<1>1. V = Splice(1, 2, L)
  BY DEF Written, Sections
<1>2. <<F>> \in Seq(BodyLines) /\ Headless(<<F>>)
  BY FallbackIsLine, OneLineHeadless
<1>3. L \in Seq(BodyLines) /\ (Headless(L) \/ (Len(L) = 1 /\ L[1].heading # "none"))
  <2> HIDE DEF F
  <2> QED  BY <1>2
<1>4. Len(W) \in Nat /\ 1 <= Len(W) /\ 2 <= Len(W) + 1 /\ 1 - 1 = 0
  OBVIOUS
<1> HIDE DEF V, L
<1>5. IsSplice(W, V, 0, 2, L)
  <2>1. IsSplice(W, V, 1 - 1, 2, L)
    BY <1>1, <1>3, <1>4, SpliceIsSplice
  <2> QED  BY <1>4, <2>1
<1>6. Headless(L)
  <2> SUFFICES ASSUME Len(L) = 1, L[1].heading # "none" PROVE FALSE
    BY <1>3
  <2>1. V[0 + 1] = L[1]
    BY <1>5 DEF IsSplice
  <2>2. V[1] = L[1]
    BY <2>1
  <2> QED  BY <2>2 DEF V
<1>7. ASSUME NEW s \in Sections PROVE SectionLines(V, s) = SectionLines(W, s)
  <2>1. \A k \in (0 + 1)..(2 - 1) : W[k].heading = "none"
    OBVIOUS
  <2>2. \A k \in 1..0 : W[k].heading = s => \E j \in (k + 1)..0 : W[j].heading # "none"
    OBVIOUS
  <2>3. 0 \in Nat /\ 2 \in Nat /\ 0 < 2
    OBVIOUS
  <2>4. IsOutside(W, s, 0, 2)
    BY <2>1, <2>2 DEF IsOutside
  <2> QED  BY <1>3, <1>4, <1>5, <1>6, <2>3, <2>4, OthersStay
<1>8. target.item \notin 1..Len(SectionLines(W, target.part))
  OBVIOUS
<1> QED  BY <1>7, <1>8 DEF StaysInScope, V

LEMMA NewSectionStaysInScope ==
  ASSUME workOrder \in Seq(BodyLines), workOrder # <<>>,
         NEW target, target.part \in Sections, HeadingOf(workOrder, target.part) = {},
         NEW isNone \in BOOLEAN, NEW r \in Seq(BodyLines), Headless(r)
  PROVE  StaysInScope(workOrder, Written(target, isNone, r), target)
<1> DEFINE W == workOrder
           t == target.part
           F == Fallback(Instruction(saying))
           lines == IF isNone THEN <<F>> ELSE r
           L == IF lines = <<>> THEN <<F>> ELSE lines
           H == <<Heading(t)>>
           V == Written(target, isNone, r)
<1>1. V = W \o H \o L
  BY DEF Written, Sections
<1>2. <<F>> \in Seq(BodyLines) /\ Headless(<<F>>)
  BY FallbackIsLine, OneLineHeadless
<1>3. L \in Seq(BodyLines) /\ Headless(L)
  <2> HIDE DEF F
  <2> QED  BY <1>2
<1>4. H \in Seq(BodyLines) /\ Len(H) = 1 /\ H[1].heading = t
  <2>1. Heading(t) \in BodyLines /\ Heading(t).heading = t
    BY DEF Heading, BodyLines, Texts, Traits
  <2> QED  BY <2>1
<1>5. Len(W) \in Nat /\ 1 <= Len(W) /\ Len(L) \in Nat /\ t # "none"
  BY <1>3 DEF Sections
<1> HIDE DEF V, L, H
<1> DEFINE X == W \o H
<1>6. /\ X \in Seq(BodyLines) /\ Len(X) = Len(W) + 1
      /\ \A k \in 1..Len(W) + 1 : X[k] = IF k <= Len(W) THEN W[k] ELSE H[k - Len(W)]
  <2>1. /\ X \in Seq(BodyLines) /\ Len(X) = Len(W) + Len(H)
        /\ \A k \in 1..Len(W) + Len(H) : X[k] = IF k <= Len(W) THEN W[k] ELSE H[k - Len(W)]
    BY <1>4, ConcatProperties
  <2> QED  BY <1>4, <2>1
<1>7. /\ X \o L \in Seq(BodyLines) /\ Len(X \o L) = Len(X) + Len(L)
      /\ \A k \in 1..Len(X) + Len(L) :
           (X \o L)[k] = IF k <= Len(X) THEN X[k] ELSE L[k - Len(X)]
  <2> HIDE DEF X
  <2> QED  BY <1>3, <1>6, ConcatProperties
<1>8. V = X \o L
  BY <1>1
<1> HIDE DEF X
<1>9. V \in Seq(BodyLines) /\ Len(V) = Len(W) + 1 + Len(L)
  BY <1>6, <1>7, <1>8
<1>10. ASSUME NEW k \in 1..Len(W) PROVE V[k] = W[k]
  <2>1. k \in 1..Len(X) + Len(L) /\ k <= Len(X) /\ k \in 1..Len(W) + 1 /\ k <= Len(W)
    BY <1>5, <1>6
  <2> QED  BY <1>6, <1>7, <1>8, <2>1
<1>11. V[Len(W) + 1].heading = t
  <2> DEFINE n == Len(W) + 1
  <2>1. /\ n \in 1..Len(X) + Len(L) /\ n <= Len(X) /\ n \in 1..Len(W) + 1
        /\ ~(n <= Len(W)) /\ n - Len(W) = 1
    BY <1>5, <1>6
  <2> HIDE DEF n
  <2>2. V[n] = H[1]
    BY <1>6, <1>7, <1>8, <2>1
  <2> QED  BY <1>4, <2>2 DEF n
<1>12. ASSUME NEW k \in (Len(W) + 2)..Len(V) PROVE V[k].heading = "none"
  <2> DEFINE n == k - Len(X)
  <2>1. k \in 1..Len(X) + Len(L) /\ ~(k <= Len(X)) /\ n \in 1..Len(L)
    BY <1>5, <1>6, <1>9
  <2> HIDE DEF n
  <2>2. V[k] = L[n]
    BY <1>7, <1>8, <2>1 DEF n
  <2> QED  BY <1>3, <2>1, <2>2 DEF Headless
<1>13. ASSUME NEW s \in Sections, s # t PROVE SectionLines(V, s) = SectionLines(W, s)
  <2>1. Len(W) < Len(V)
    BY <1>5, <1>9
  <2>2. HasNewSection(W, V, t)
    BY <1>5, <1>10, <1>11, <1>12, <2>1 DEF HasNewSection
  <2> QED  BY <1>9, <1>13, <2>2, NewSectionIsApart
<1>14. SectionLines(W, t) = <<>>
  BY DEF SectionLines
<1>15. V[1] = W[1]
  BY <1>5, <1>10
<1>16. target.item \notin 1..Len(SectionLines(W, t))
  BY <1>14
<1> QED  BY <1>13, <1>15, <1>16 DEF StaysInScope, V

(* A list x in which the item i is replaced by n others, y, still begins   *)
(* and ends as it did.                                                     *)
LEMMA ItemReplaced ==
  ASSUME NEW S, NEW x \in Seq(S), NEW y \in Seq(S), NEW i \in 1..Len(x), NEW n \in Nat,
         Len(y) = Len(x) - 1 + n, \A k \in 1..(i - 1) : y[k] = x[k],
         \A k \in 1..(Len(x) - i) : y[i - 1 + n + k] = x[i + k]
  PROVE  /\ SubSeq(y, 1, i - 1) = SubSeq(x, 1, i - 1)
         /\ LET rest == SubSeq(x, i + 1, Len(x)) IN
              /\ Len(rest) <= Len(y) /\ rest = SubSeq(y, Len(y) - Len(rest) + 1, Len(y))
<1>1. Len(x) \in Nat /\ Len(y) \in Nat /\ i \in Int
  OBVIOUS
<1>2. \A k \in 1..Len(x) : x[k] \in S
  OBVIOUS
<1>3. \A k \in 1..Len(y) : y[k] \in S
  OBVIOUS
<1>4. SubSeq(y, 1, i - 1) = SubSeq(x, 1, i - 1)
  <2> DEFINE u == SubSeq(x, 1, i - 1)
             v == SubSeq(y, 1, i - 1)
  <2>1. /\ 1 \in Int /\ i - 1 \in Int
        /\ \A k \in 1..(i - 1) : k \in 1..Len(x) /\ k \in 1..Len(y) /\ 1 + k - 1 = k
    BY <1>1
  <2>2. \A k \in 1..(i - 1) : x[k] \in S /\ y[k] \in S
    BY <1>2, <1>3, <2>1
  <2>3. /\ u \in Seq(S) /\ Len(u) = IF 1 <= i - 1 THEN i - 1 - 1 + 1 ELSE 0
        /\ \A k \in 1..(i - 1 - 1 + 1) : u[k] = x[1 + k - 1]
    BY <2>1, <2>2, SubSeqProperties
  <2>4. /\ v \in Seq(S) /\ Len(v) = IF 1 <= i - 1 THEN i - 1 - 1 + 1 ELSE 0
        /\ \A k \in 1..(i - 1 - 1 + 1) : v[k] = y[1 + k - 1]
    BY <2>1, <2>2, SubSeqProperties
  <2> HIDE DEF u, v
  <2>5. Len(v) = Len(u)
    BY <2>3, <2>4
  <2>6. ASSUME NEW k \in 1..Len(v) PROVE v[k] = u[k]
    <3>1. k \in 1..(i - 1) /\ k \in 1..(i - 1 - 1 + 1)
      BY <1>1, <2>4
    <3>2. v[k] = y[k] /\ u[k] = x[k]
      BY <2>1, <2>3, <2>4, <3>1
    <3> QED  BY <3>1, <3>2
  <2>7. v = u
    BY <2>3, <2>4, <2>5, <2>6, SeqEqual
  <2> QED  BY <2>7 DEF u, v
<1> DEFINE rest == SubSeq(x, i + 1, Len(x))
           c == i + n
           same == SubSeq(y, c, Len(y))
<1>5. /\ rest \in Seq(S) /\ Len(rest) = Len(x) - i
      /\ \A k \in 1..(Len(x) - i) : rest[k] = x[i + k]
  <2>1. /\ i + 1 \in Int /\ Len(x) \in Int /\ \A k \in (i + 1)..Len(x) : k \in 1..Len(x)
        /\ \A k \in 1..(Len(x) - i) : k \in 1..(Len(x) - (i + 1) + 1) /\ (i + 1) + k - 1 = i + k
    BY <1>1, SMTT(30)
  <2>2. \A k \in (i + 1)..Len(x) : x[k] \in S
    BY <1>2, <2>1
  <2>3. /\ rest \in Seq(S)
        /\ Len(rest) = IF i + 1 <= Len(x) THEN Len(x) - (i + 1) + 1 ELSE 0
        /\ \A k \in 1..(Len(x) - (i + 1) + 1) : rest[k] = x[(i + 1) + k - 1]
    BY <2>1, <2>2, SubSeqProperties, SMTT(30)
  <2> HIDE DEF rest
  <2>4. Len(rest) = Len(x) - i
    BY <1>1, <2>3
  <2> QED  BY <2>1, <2>3, <2>4
<1>6. /\ same \in Seq(S) /\ Len(same) = Len(x) - i
      /\ \A k \in 1..(Len(x) - i) : same[k] = y[c + k - 1]
  <2>1. /\ c \in Int /\ Len(y) \in Int /\ \A k \in c..Len(y) : k \in 1..Len(y)
        /\ Len(y) - c + 1 = Len(x) - i
    BY <1>1
  <2>2. \A k \in c..Len(y) : y[k] \in S
    BY <1>3, <2>1
  <2> HIDE DEF c
  <2>3. /\ same \in Seq(S)
        /\ Len(same) = IF c <= Len(y) THEN Len(y) - c + 1 ELSE 0
        /\ \A k \in 1..(Len(y) - c + 1) : same[k] = y[c + k - 1]
    BY <2>1, <2>2, SubSeqProperties
  <2> HIDE DEF same
  <2>4. Len(same) = Len(x) - i
    BY <1>1, <2>1, <2>3
  <2> QED  BY <2>1, <2>3, <2>4
<1>7. Len(rest) <= Len(y) /\ Len(y) - Len(rest) + 1 = c
  <2> HIDE DEF rest
  <2> QED  BY <1>1, <1>5
<1>8. rest = same
  <2>1. ASSUME NEW k \in 1..(Len(x) - i) PROVE rest[k] = same[k]
    <3>1. c + k - 1 = i - 1 + n + k
      BY <1>1
    <3> HIDE DEF rest, same, c
    <3>2. same[k] = x[i + k]
      BY <1>6, <3>1
    <3> QED  BY <1>5, <3>2
  <2> HIDE DEF rest, same
  <2> QED  BY <1>5, <1>6, <2>1, SeqEqual
<1> HIDE DEF c
<1> QED  BY <1>4, <1>7, <1>8

LEMMA SectionStaysInScope ==
  ASSUME workOrder \in Seq(BodyLines), workOrder # <<>>,
         NEW target, target.part \in Sections, HeadingOf(workOrder, target.part) # {},
         HasPlace(workOrder, target),
         NEW isNone \in BOOLEAN, NEW r \in Seq(BodyLines), Headless(r)
  PROVE  StaysInScope(workOrder, Written(target, isNone, r), target)
<1> DEFINE W == workOrder
           t == target.part
           i == target.item
           V == Written(target, isNone, r)
           before == SectionLines(W, t)
           after == SectionLines(V, t)
<1>1. PICK p \in Int, e \in Int : IsSection(W, t, p, e)
  BY SectionExists
<1>2. /\ p \in 1..Len(W) /\ W[p].heading = t /\ e \in (p + 1)..(Len(W) + 1)
      /\ \A k \in (p + 1)..(e - 1) : W[k].heading = "none"
  BY <1>1 DEF IsSection
<1>3. /\ p \in Int /\ e \in Int /\ Len(W) \in Nat /\ 1 <= p /\ p < e /\ e <= Len(W) + 1
      /\ p <= Len(W)
  BY <1>2
<1>4. PICK a \in Nat, b \in Nat, L \in Seq(BodyLines) :
        /\ Headless(L) /\ p <= a /\ a < b /\ b <= e
        /\ IsSplice(W, V, a, b, L)
        /\ i \in 1..Len(before) => a = p + i - 1 /\ b = p + i + 1
  BY <1>1, <1>3, SectionIsSpliced
<1>5. /\ before \in Seq(BodyLines) /\ Len(before) = e - p - 1
      /\ \A k \in 1..(e - p - 1) : before[k] = W[p + k]
  <2>1. W \in Seq(BodyLines) /\ t \in Sections /\ IsSection(W, t, p, e)
    BY <1>1
  <2> HIDE DEF W, t
  <2>2. /\ HeadingOf(W, t) # {} /\ SectionStart(W, t) = p /\ SectionEnd(W, t) = e
        /\ SectionLines(W, t) \in Seq(BodyLines) /\ Len(SectionLines(W, t)) = e - p - 1
        /\ \A k \in 1..(e - p - 1) : SectionLines(W, t)[k] = W[p + k]
    BY <2>1, SectionIsFound DEF HasLines
  <2> QED  BY <2>2
<1>6. V \in Seq(BodyLines)
  BY <1>4 DEF IsSplice
<1>7. t \in Sections /\ i \in Nat
  BY DEF HasPlace
<1> HIDE DEF V
<1>9. /\ after \in Seq(BodyLines) /\ Len(after) = (a - p) + Len(L) + (e - b)
      /\ \A k \in 1..(a - p) : after[k] = W[p + k]
      /\ \A k \in 1..(e - b) : after[a - p + Len(L) + k] = W[b + k - 1]
  <2>1. W \in Seq(BodyLines) /\ t \in Sections
    OBVIOUS
  <2>2. p <= a /\ a < b /\ b <= e /\ IsSplice(W, V, a, b, L) /\ Headless(L)
    BY <1>4
  <2> HIDE DEF W, t
  <2>3. HasSplice(W, V, t, p, e, a, b, L)
    BY <1>1, <2>1, <2>2, TargetIsSpliced
  <2> QED  BY <2>3 DEF HasSplice
<1> HIDE DEF W, t, i, before, after
<1>10. V[1] = W[1]
  <2>1. 1 \in 1..a
    BY <1>3, <1>4
  <2> QED  BY <1>4, <2>1 DEF IsSplice
<1>11. ASSUME NEW s \in Sections, s # t PROVE SectionLines(V, s) = SectionLines(W, s)
  <2>1. \A k \in (a + 1)..(b - 1) : W[k].heading = "none"
    <3>1. \A k \in (a + 1)..(b - 1) : k \in (p + 1)..(e - 1)
      BY <1>3, <1>4
    <3> QED  BY <1>2, <3>1
  <2>2. ASSUME NEW k \in 1..a, W[k].heading = s
        PROVE  \E j \in (k + 1)..a : W[j].heading # "none"
    <3>1. k # p /\ W[k].heading # "none" /\ W[p].heading # "none"
      BY <1>2, <1>7, <1>11, <2>2 DEF Sections
    <3>2. ~(k \in (p + 1)..(e - 1))
      BY <1>2, <3>1
    <3>3. p \in (k + 1)..a
      BY <1>3, <1>4, <3>1, <3>2
    <3> QED  BY <3>1, <3>3
  <2>3. b <= Len(W) + 1 /\ a < b /\ Headless(L) /\ IsSplice(W, V, a, b, L)
    BY <1>3, <1>4
  <2>4. W \in Seq(BodyLines)
    BY DEF W
  <2>5. \A k \in 1..a : W[k].heading = s => \E j \in (k + 1)..a : W[j].heading # "none"
    BY <2>2
  <2>6. IsOutside(W, s, a, b)
    BY <2>1, <2>5 DEF IsOutside
  <2> QED  BY <2>3, <2>4, <2>6, OthersStay
<1>12. ASSUME i \in 1..Len(before)
       PROVE  /\ SubSeq(after, 1, i - 1) = SubSeq(before, 1, i - 1)
              /\ LET rest == SubSeq(before, i + 1, Len(before)) IN
                   /\ Len(rest) <= Len(after)
                   /\ rest = SubSeq(after, Len(after) - Len(rest) + 1, Len(after))
  <2>1. a = p + i - 1 /\ b = p + i + 1
    BY <1>4, <1>12
  <2>2. Len(L) \in Nat /\ Len(before) \in Nat /\ Len(before) = e - p - 1 /\ i \in Int
    BY <1>5, <1>12
  <2>3. Len(after) = Len(before) - 1 + Len(L)
    BY <1>3, <1>9, <2>1, <2>2
  <2>4. ASSUME NEW k \in 1..(i - 1) PROVE after[k] = before[k]
    <3>1. k \in 1..(a - p) /\ k \in 1..(e - p - 1)
      BY <1>3, <1>12, <2>1, <2>2
    <3> QED  BY <1>5, <1>9, <3>1
  <2>5. ASSUME NEW k \in 1..(Len(before) - i) PROVE after[i - 1 + Len(L) + k] = before[i + k]
    <3>1. /\ k \in 1..(e - b) /\ i + k \in 1..(e - p - 1)
          /\ a - p + Len(L) + k = i - 1 + Len(L) + k /\ b + k - 1 = p + (i + k)
      BY <1>3, <1>12, <2>1, <2>2
    <3> QED  BY <1>5, <1>9, <3>1
  <2> QED  BY <1>5, <1>9, <1>12, <2>2, <2>3, <2>4, <2>5, ItemReplaced
<1> QED  BY <1>10, <1>11, <1>12 DEF StaysInScope, W, V, t, i, before, after

(* A document that is accepted as the revision of a part is changed in it, *)
(* or has lost the heading behind it.                                      *)
InItsScope(V) ==
  StaysInScope(workOrder, V, Target(saying)) \/ SwallowsHeading(workOrder, V, Target(saying))

LEMMA RevisedInScope ==
  ASSUME saying \in Sayings, workOrder \in WorkOrders, reply \in Replies,
         Target(saying).part # "whole", NEW r \in Replacements, ~NoSuchItem(Target(saying), r),
         NEW apart \in BOOLEAN, NEW V, V = Proposed(Target(saying), r, apart),
         Accepted(Target(saying), Scope(V, Target(saying))),
         Target(saying).part = "title" => workOrder[1].heading = "none" /\ V[1].heading = "none"
  PROVE  InItsScope(V)
<1> DEFINE target == Target(saying)
<1>1. workOrder \in Seq(BodyLines) /\ workOrder # <<>> /\ reply \in Seq(BodyLines)
  BY WordingAssumption
<1>2. /\ target.part \in Sections \cup {"title"} /\ target.item \in Nat
      /\ target.part = "title" => target.item = 0
      /\ target.rule \in Sections \cup {"title", "other"}
  <2>1. target.part # "other"
    <3> SUFFICES ASSUME target.part = "other" PROVE FALSE
      OBVIOUS
    <3>1. Accepted(target, <<>>)
      <4> HIDE DEF target
      <4>1. Scope(V, target) = <<>>
        BY DEF Scope, Sections
      <4> QED  BY <4>1 DEF target
    <3> QED  BY <3>1 DEF Accepted
  <2> QED  BY <2>1, TargetIsPart DEF Sections
<1>3. /\ r \in Seq(BodyLines)
      /\ Headless(r) \/ (target.part = "title" /\ Len(r) = 1 /\ r[1].heading # "none")
  BY <1>1, <1>2, ReplacementHeadless
<1> DEFINE F == <<Fallback(Instruction(saying))>>
<1>4. PICK isNone \in BOOLEAN, x \in {r, <<>>} :
        LET lines == IF isNone THEN F ELSE x IN
        V = Written(target, isNone, x) \/ (RunsOn(target, lines) /\ V = RunOn(target, lines))
  <2> HIDE DEF target
  <2> QED  BY ProposalIsRevision DEF target
<1>5. /\ x \in Seq(BodyLines)
      /\ Headless(x) \/ (target.part = "title" /\ Len(x) = 1 /\ x[1].heading # "none")
  <2>1. <<>> \in Seq(BodyLines) /\ Headless(<<>>)
    BY DEF Headless
  <2> HIDE DEF target
  <2> QED  BY <1>3, <1>4, <2>1
<1>6. HeadingOf(workOrder, target.part) # {} => HasPlace(workOrder, target)
  <2> DEFINE n == Len(SectionLines(workOrder, target.part))
  <2>1. HeadingOf(workOrder, target.part) # {} => target.item = 0 \/ ~(target.item > n + 1)
    BY <1>2 DEF NoSuchItem
  <2>2. target.part \in Sections => n \in Nat
    BY <1>1, LinesOfSection
  <2>3. target.part = "title" => target.item = 0
    BY <1>2
  <2>4. HeadingOf(workOrder, target.part) # {} => target.part \in Sections
    <3> SUFFICES ASSUME target.part = "title", HeadingOf(workOrder, target.part) # {} PROVE FALSE
      BY <1>2
    <3>1. PICK k \in DOMAIN workOrder : workOrder[k].heading = "title"
      BY DEF HeadingOf
    <3>2. workOrder[k] \in BodyLines
      BY <1>1
    <3>3. workOrder[k].heading \in Sections \cup {"none"}
      BY <3>2 DEF BodyLines
    <3> QED  BY <3>1, <3>3 DEF Sections
  <2> HIDE DEF n
  <2> SUFFICES ASSUME HeadingOf(workOrder, target.part) # {} PROVE target.item <= n + 1
    BY <1>2 DEF HasPlace, n
  <2>5. n \in Nat /\ target.item \in Nat
    BY <1>2, <2>2, <2>4
  <2> QED  BY <2>1, <2>5
<1>7. target.part = "title" => workOrder[1].heading = "none" /\ V[1].heading = "none"
  OBVIOUS
<1>8. Accepted(target, Scope(V, target))
  OBVIOUS
<1> DEFINE lines == IF isNone THEN F ELSE x
<1>9. F \in Seq(BodyLines) /\ Headless(F)
  BY FallbackIsLine, OneLineHeadless
<1> HIDE DEF target, F
<1>10. CASE V = Written(target, isNone, x)
  <2>1. CASE target.part = "title"
    <3>1. Headless(x) \/ (Len(x) = 1 /\ x[1].heading # "none")
      BY <1>5
    <3>2. workOrder[1].heading = "none" /\ Written(target, isNone, x)[1].heading = "none"
      BY <1>7, <1>10, <2>1
    <3>3. target.item = 0
      BY <1>2, <2>1
    <3> QED  BY <1>1, <1>5, <1>10, <2>1, <3>1, <3>2, <3>3, TitleStaysInScope DEF InItsScope, target
  <2>2. CASE target.part \in Sections /\ HeadingOf(workOrder, target.part) = {}
    <3>1. Headless(x)
      BY <1>5, <2>2 DEF Sections
    <3> QED  BY <1>1, <1>5, <1>10, <2>2, <3>1, NewSectionStaysInScope DEF InItsScope, target
  <2>3. CASE target.part \in Sections /\ HeadingOf(workOrder, target.part) # {}
    <3>1. Headless(x)
      BY <1>5, <2>3 DEF Sections
    <3> QED  BY <1>1, <1>5, <1>6, <1>10, <2>3, <3>1, SectionStaysInScope DEF InItsScope, target
  <2> QED  BY <1>2, <2>1, <2>2, <2>3
<1>11. CASE RunsOn(target, lines) /\ V = RunOn(target, lines)
  <2>1. target.part \in Sections
    BY <1>11 DEF RunsOn
  <2>2. lines \in Seq(BodyLines) /\ Headless(lines)
    BY <1>5, <1>9, <2>1 DEF Sections
  <2> HIDE DEF lines
  <2>3. CASE SectionStart(workOrder, target.part) = Len(workOrder)
    <3>1. Scope(V, target) = <<>>
      BY <1>1, <1>2, <1>11, <2>1, <2>2, <2>3, LastHeadingIsLost
    <3> QED  BY <1>8, <3>1 DEF Accepted
  <2>4. CASE SectionStart(workOrder, target.part) # Len(workOrder)
    BY <1>1, <1>11, <2>1, <2>2, <2>4, NextHeadingIsSwallowed DEF InItsScope, target
  <2> QED  BY <2>3, <2>4
<1> QED  BY <1>4, <1>10, <1>11

(* Until it is revised the document is the one the chat is about.          *)
DraftInv ==
  /\ saying \in Sayings
  /\ phase \in {"said", "parsed", "replied"} => workOrder \in WorkOrders
  /\ phase = "replied" => reply \in Replies

LEMMA DraftInvariance == WordingSpec => []DraftInv
<1>1. WordingInit => DraftInv
  BY DEF WordingInit, DraftInv
<1>2. DraftInv /\ [WordingNext]_wordingVars => DraftInv'
  <2> SUFFICES ASSUME DraftInv, [WordingNext]_wordingVars PROVE DraftInv'
    OBVIOUS
  <2>1. CASE Parse
    BY <2>1 DEF Parse, DraftInv
  <2>2. CASE Draft
    <3>1. phase = "parsed" /\ UNCHANGED <<saying, workOrder>>
      BY <2>2 DEF Draft
    <3>2. phase' = "replied" => reply' \in Replies
      BY <2>2 DEF Draft
    <3> QED  BY <3>1, <3>2 DEF DraftInv
  <2>3. CASE Revise
    BY <2>3 DEF Revise, DraftInv
  <2>4. CASE UNCHANGED wordingVars
    BY <2>4 DEF wordingVars, DraftInv
  <2> QED  BY <2>1, <2>2, <2>3, <2>4 DEF WordingNext
<1> QED  BY <1>1, <1>2, PTL DEF WordingSpec

(* What a revision of a part changes is that part, whatever the language   *)
(* model answers, and the heading behind a part that was empty; and the    *)
(* safety section, called by its name, keeps an instruction in force       *)
(* (review_chat_service.py, _apply_scoped_revision and                     *)
(* _revision_validation_notice).                                           *)
THEOREM ScopeSafety == WordingSpec => RevisionStaysInScope
<1> DEFINE Saved == /\ phase' = "saved" /\ Target(saying).part # "whole"
                    /\ ~TitleIsHeading /\ ~TitleIsHeading'
           Scoped == \/ StaysInScope(workOrder, workOrder', Target(saying))
                     \/ SwallowsHeading(workOrder, workOrder', Target(saying))
           Safe == Target(saying).part = "safety" /\ Target(saying).guarded
                     => "strong" \in AllTraits(SectionLines(workOrder', "safety"))
<1>1. DraftInv /\ [WordingNext]_wordingVars => [Saved => Scoped /\ Safe]_wordingVars
  <2> SUFFICES ASSUME DraftInv, WordingNext, Saved PROVE Scoped /\ Safe
    OBVIOUS
  <2>1. Revise
    BY DEF WordingNext, Parse, Draft
  <2>2. /\ phase = "replied" /\ saying' = saying
    BY <2>1 DEF Revise
  <2>3. PICK r \in Replacements, apart \in BOOLEAN :
          /\ ~NoSuchItem(Target(saying), r)
          /\ Accepted(Target(saying), Scope(Proposed(Target(saying), r, apart), Target(saying)))
          /\ workOrder' = Proposed(Target(saying), r, apart)
    BY <2>1 DEF Revise
  <2>4. Target(saying).part = "title" =>
          workOrder[1].heading = "none" /\ workOrder'[1].heading = "none"
    BY <2>2 DEF TitleIsHeading
  <2>5. PICK V : V = workOrder'
    OBVIOUS
  <2>6. saying \in Sayings /\ workOrder \in WorkOrders /\ reply \in Replies
    BY <2>2 DEF DraftInv
  <2>7. /\ V = Proposed(Target(saying), r, apart)
        /\ Accepted(Target(saying), Scope(V, Target(saying)))
        /\ Target(saying).part = "title" =>
             workOrder[1].heading = "none" /\ V[1].heading = "none"
    BY <2>3, <2>4, <2>5
  <2>8. Target(saying).part # "whole" /\ ~NoSuchItem(Target(saying), r)
    BY <2>3
  <2>9. InItsScope(V)
    BY <2>6, <2>7, <2>8, RevisedInScope
  <2>10. Scoped
    BY <2>5, <2>9 DEF InItsScope
  <2>11. Safe
    <3> SUFFICES ASSUME Target(saying).part = "safety", Target(saying).guarded
                 PROVE  "strong" \in AllTraits(SectionLines(V, "safety"))
      BY <2>5
    <3>1. Target(saying).item \in Nat
      BY <2>6, TargetIsPart
    <3> QED  BY <2>7, <3>1, ScopeIsOfSection
  <2> QED  BY <2>10, <2>11
<1> QED  BY <1>1, DraftInvariance, PTL DEF WordingSpec, RevisionStaysInScope
=============================================================================
