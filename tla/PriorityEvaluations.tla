------------------------- MODULE PriorityEvaluations -------------------------
(***************************************************************************)
(* Evaluations of the priority of every substation.  The loader            *)
(* (simulate_predictor_db.py --append) commits a substation, a window and  *)
(* the features of the window one statement at a time; a replay commits a  *)
(* whole window.  A request is answered with the latest evaluation if that *)
(* covers the data (ensure_latest_priority_evaluation); otherwise a new    *)
(* one reads the latest window of each substation, scores the batch and    *)
(* may become the active evaluation (create_priority_evaluation).          *)
(*                                                                         *)
(* updated_at and completed_at are now(), the start of a transaction.  Of  *)
(* these times one comparison is made, whether some updated_at is after    *)
(* the completed_at of an evaluation: changed.                             *)
(***************************************************************************)
EXTENDS Integers, Sequences, FiniteSets, FiniteSetsExt

CONSTANTS
  Readers,        \* requests for the latest evaluation that may be served at once
  Posters,        \* requests for a new evaluation that may be served at once
  Bodies,         \* what these ask for: an as_of_time (0: none) and a stale_after
  Expected,       \* the substations an evaluation expects
  LastEnd,        \* windows end at 1 to LastEnd
  Rows,           \* what the loader loads: pairs of a substation and an end
  Replayed,       \* the ends at which a replay scores a window
  MaxChanges,     \* bound: changes of features
  MaxEvaluationRuns, \* bound: evaluations
  MaxFailures     \* bound: evaluations that fail

Ends == 1..LastEnd

ASSUME EvaluationAssumption ==
  /\ LastEnd \in Nat /\ Rows \subseteq Expected \X Ends /\ Replayed \subseteq Ends
  /\ Bodies \subseteq [asOf : Nat, stale : {"default", "other"}]
  /\ MaxChanges \in Nat /\ MaxEvaluationRuns \in Nat /\ MaxFailures \in Nat

VARIABLES
  registered,  \* the rows of substations
  window,      \* window[s][t]: the window of s that ends at t, with its features
  loader,      \* the row the loader is at
  changes,     \* history: changes of features
  evaluations, \* priority_evaluation_runs with their results, in the order of commit
  request,     \* request[r]: where a request of either kind is
  failures     \* history: evaluations that failed

data == <<registered, window, loader, changes>>
evaluationVars == <<data, evaluations, request, failures>>

(* A window without features has version 0.                                *)
NoWindow == [loaded |-> FALSE, version |-> 0, synthetic |-> FALSE]

NoRow == [at |-> "idle", s |-> "none", end |-> 0]

NoCandidate == [end |-> 0, version |-> 0, synthetic |-> FALSE]

Idle == [step |-> "idle", asOf |-> 0, stale |-> "default", changed |-> FALSE, committed |-> 0,
         seen |-> [s \in Expected |-> NoCandidate],
         known |-> [s \in Expected |-> [t \in Ends |-> 0]]]

EvaluationInit ==
  /\ registered = {}
  /\ window = [s \in Expected |-> [t \in Ends |-> NoWindow]]
  /\ loader = NoRow
  /\ changes = 0
  /\ evaluations = <<>>
  /\ request = [r \in Readers \cup Posters |-> Idle]
  /\ failures = 0
-----------------------------------------------------------------------------
(* The loader: INSERT INTO substations, INSERT INTO windows and the upsert *)
(* of model_feature_snapshots, each in a transaction of its own.           *)
Register(s, t) ==
  /\ loader.at = "idle"
  /\ registered' = registered \cup {s}
  /\ loader' = [at |-> "registered", s |-> s, end |-> t]
  /\ UNCHANGED <<window, changes, evaluations, request, failures>>

LoadWindow ==
  /\ loader.at = "registered"
  /\ window' = [window EXCEPT ![loader.s][loader.end].loaded = TRUE]
  /\ loader' = [loader EXCEPT !.at = "windowed"]
  /\ UNCHANGED <<registered, changes, evaluations, request, failures>>

(* updated_at = now() is after the start of every transaction so far.      *)
Outdated(es) == [i \in DOMAIN es |-> [es[i] EXCEPT !.changed = TRUE]]
Overtaken ==
  [r \in DOMAIN request |->
     [request[r] EXCEPT !.changed = request[r].step \in {"locking", "scoring"}]]

LoadFeatures ==
  /\ loader.at = "windowed" /\ changes < MaxChanges
  /\ changes' = changes + 1
  /\ window' = [window EXCEPT ![loader.s][loader.end].version = @ + 1]
  /\ evaluations' = Outdated(evaluations)
  /\ request' = Overtaken
  /\ loader' = NoRow
  /\ UNCHANGED <<registered, failures>>

(* Features that are not distinct are not updated; or the loader stops.    *)
LeaveRow ==
  /\ loader.at # "idle"
  /\ loader' = NoRow
  /\ UNCHANGED <<registered, window, changes, evaluations, request, failures>>

(* complete_window: one transaction stores the windows of all substations, *)
(* their features and the evaluation of the stream of the replay, which    *)
(* goes through its windows in the order of time.                          *)
Replay(t) ==
  /\ Len(evaluations) < MaxEvaluationRuns
  /\ \A i \in DOMAIN evaluations : evaluations[i].stream = "replay" => evaluations[i].asOf < t
  /\ \A s \in Expected : ~window[s][t].loaded
  /\ registered' = Expected
  /\ window' = [s \in Expected |->
                  [window[s] EXCEPT ![t] = [loaded |-> TRUE, version |-> 1, synthetic |-> TRUE]]]
  /\ evaluations' = Append(
       [i \in DOMAIN evaluations |->
          [Outdated(evaluations)[i] EXCEPT !.active = @ /\ evaluations[i].stream # "replay"]],
       [stream |-> "replay", asOf |-> t, stale |-> "replay", status |-> "completed",
        active |-> TRUE, changed |-> FALSE,
        seen |-> [s \in Expected |-> [end |-> t, version |-> 1, synthetic |-> TRUE]]])
  /\ request' = Overtaken
  /\ UNCHANGED <<loader, changes, failures>>
-----------------------------------------------------------------------------
Loaded(s) == {t \in Ends : window[s][t].loaded}

(* latest_source_time: max(window_end) of all windows, 0 if there is none. *)
LatestSourceTime == Max({0} \cup UNION {Loaded(s) : s \in Expected})

(* LATEST_WINDOW_CANDIDATES_SQL: the latest window that ends by then, with *)
(* its features, whichever program stored it.                              *)
Candidate(s, asOf) ==
  LET t == Max({0} \cup {u \in Loaded(s) : u <= asOf})
  IN  IF t = 0 \/ s \notin registered THEN NoCandidate
      ELSE [end |-> t, version |-> window[s][t].version, synthetic |-> window[s][t].synthetic]

Completed == {i \in DOMAIN evaluations : evaluations[i].status = "completed"}

(* ORDER BY is_active DESC, as_of_time DESC, completed_at DESC: the        *)
(* evaluations of every stream.  Either of two that differ only in         *)
(* completed_at may be the latest.                                         *)
Precedes(a, b) == (a.active /\ ~b.active) \/ (a.active = b.active /\ a.asOf > b.asOf)

LatestEvaluations ==
  {i \in Completed : \A j \in Completed : ~Precedes(evaluations[j], evaluations[i])}
-----------------------------------------------------------------------------
(* ensure_latest_priority_evaluation reads the time of the latest window   *)
(* first.  known: history, the features committed by then.                 *)
Ask(r) ==
  /\ request[r].step = "idle" /\ LatestSourceTime > 0
  /\ request' = [request EXCEPT ![r] =
       [Idle EXCEPT !.step = "asked", !.asOf = LatestSourceTime,
                    !.known = [s \in Expected |-> [t \in Ends |-> window[s][t].version]]]]
  /\ UNCHANGED <<data, evaluations, failures>>

(* Then the latest evaluation, and whether features have changed since it. *)
(* What it found of the evaluation is not updated: that the features are   *)
(* read a moment later can only show more changes.                         *)
Covers(e, source) == e.asOf >= source /\ e.stale = "default" /\ ~e.changed

Compare(r) ==
  /\ request[r].step = "asked"
  /\ \/ \E i \in LatestEvaluations :
          request' = [request EXCEPT ![r] = IF Covers(evaluations[i], request[r].asOf)
                        THEN [@ EXCEPT !.step = "answered", !.committed = i]
                        ELSE [@ EXCEPT !.step = "create"]]
     \/ Completed = {} /\ request' = [request EXCEPT ![r].step = "create"]
  /\ UNCHANGED <<data, evaluations, failures>>

(* POST /api/priority-evaluations.  Nothing bounds as_of_time.             *)
Post(r, body) ==
  /\ request[r].step = "idle"
  /\ body.asOf = 0 => LatestSourceTime > 0
  /\ request' = [request EXCEPT ![r] = [Idle EXCEPT !.step = "create", !.stale = body.stale,
                   !.asOf = IF body.asOf = 0 THEN LatestSourceTime ELSE body.asOf]]
  /\ UNCHANGED <<data, evaluations, failures>>
-----------------------------------------------------------------------------
(* create_priority_evaluation: the transaction starts, waits for the       *)
(* advisory lock and reads the candidates under it: one for each of the    *)
(* substations that are expected, or it fails.                             *)
Begin(r) ==
  /\ request[r].step = "create" /\ Len(evaluations) < MaxEvaluationRuns
  /\ request' = [request EXCEPT ![r].step = "locking"]
  /\ UNCHANGED <<data, evaluations, failures>>

Score(r) ==
  /\ request[r].step = "locking"
  /\ \A q \in DOMAIN request : request[q].step # "scoring"
  /\ registered = Expected
  /\ request' = [request EXCEPT
       ![r].step = "scoring",
       ![r].seen = [s \in Expected |-> Candidate(s, request[r].asOf)]]
  /\ UNCHANGED <<data, evaluations, failures>>

Active == {i \in DOMAIN evaluations : evaluations[i].active}

(* Seeded fault: the new evaluation is active whatever it replaces.        *)
AlwaysMakesActive(asOf) == TRUE

(* The evaluation becomes the active one unless it is older.  The active   *)
(* ones are those of every stream: the latest of them decides.             *)
MakesActive(asOf) ==
  Active = {} \/ asOf >= Max({evaluations[i].asOf : i \in Active})

(* Seeded fault: completed_at is the time of the commit.                   *)
ChangedSinceCommit(r) == FALSE

(* completed_at is the start of the transaction: a change between that and *)
(* the commit is after it.                                                 *)
ChangedSince(r) == request[r].changed

NewEvaluation(r, active) ==
  [stream |-> "default", asOf |-> request[r].asOf, stale |-> request[r].stale,
   status |-> "completed", active |-> active, changed |-> ChangedSince(r),
   seen |-> request[r].seen]

(* The evaluation is completed; if it is to be active, is_active is        *)
(* cleared in every row.  lost: the commit is not acknowledged.            *)
Commit(r, lost) ==
  /\ request[r].step = "scoring"
  /\ Len(evaluations) < MaxEvaluationRuns
  /\ LET active == MakesActive(request[r].asOf)
     IN  evaluations' = Append([i \in DOMAIN evaluations |->
                                  [evaluations[i] EXCEPT !.active = @ /\ ~active]],
                               NewEvaluation(r, active))
  /\ request' = [request EXCEPT ![r] = [@ EXCEPT !.step = IF lost THEN "lost" ELSE "answered",
                                                 !.committed = Len(evaluations')]]
  /\ IF lost THEN failures < MaxFailures /\ failures' = failures + 1 ELSE UNCHANGED failures
  /\ UNCHANGED data

(* _record_failed_priority_evaluation: another transaction inserts the     *)
(* evaluation as failed, or marks it failed if it is there after all.      *)
RecordFailed(r) ==
  /\ \/ /\ request[r].step = "lost"
        /\ evaluations' = [evaluations EXCEPT ![request[r].committed].status = "failed",
                                              ![request[r].committed].active = FALSE]
        /\ UNCHANGED failures
     \/ /\ request[r].step \in {"locking", "scoring"}
        /\ Len(evaluations) < MaxEvaluationRuns /\ failures < MaxFailures
        /\ failures' = failures + 1
        /\ evaluations' = Append(evaluations,
             [NewEvaluation(r, FALSE) EXCEPT !.status = "failed", !.seen = Idle.seen])
  /\ request' = [request EXCEPT ![r] = Idle]
  /\ UNCHANGED data

(* The response is sent; or recording the failure fails as well.           *)
Leave(r) ==
  /\ \/ request[r].step \in {"answered", "lost"} /\ UNCHANGED failures
     \/ request[r].step = "scoring" /\ failures < MaxFailures /\ failures' = failures + 1
  /\ request' = [request EXCEPT ![r] = Idle]
  /\ UNCHANGED <<data, evaluations>>
-----------------------------------------------------------------------------
Load == (\E row \in Rows : Register(row[1], row[2])) \/ LoadWindow \/ LoadFeatures \/ LeaveRow

Ensure(r) == r \in Readers /\ (Ask(r) \/ Compare(r))

Create(r) ==
  \/ r \in Posters /\ \E body \in Bodies : Post(r, body)
  \/ Begin(r) \/ Score(r) \/ (\E lost \in BOOLEAN : Commit(r, lost)) \/ RecordFailed(r) \/ Leave(r)

EvaluationNext ==
  \/ Load
  \/ \E t \in Replayed : Replay(t)
  \/ \E r \in Readers \cup Posters : Ensure(r) \/ Create(r)

EvaluationSpec == EvaluationInit /\ [][EvaluationNext]_evaluationVars
-----------------------------------------------------------------------------
Candidates == [end : 0..LastEnd, version : Nat, synthetic : BOOLEAN]

EvaluationRows ==
  [stream : {"default", "replay"}, asOf : Nat, stale : {"default", "other", "replay"},
   status : {"completed", "failed"}, active : BOOLEAN, changed : BOOLEAN,
   seen : [Expected -> Candidates]]

Requests ==
  [step : {"idle", "asked", "create", "locking", "scoring", "lost", "answered"},
   asOf : Nat, stale : {"default", "other"}, changed : BOOLEAN,
   committed : 0..MaxEvaluationRuns,
   seen : [Expected -> Candidates], known : [Expected -> [Ends -> Nat]]]

EvaluationTypeOK ==
  /\ registered \subseteq Expected
  /\ window \in [Expected -> [Ends -> [loaded : BOOLEAN, version : Nat, synthetic : BOOLEAN]]]
  /\ loader \in [at : {"registered", "windowed"}, s : Expected, end : Ends] \cup {NoRow}
  /\ changes \in 0..MaxChanges /\ failures \in 0..MaxFailures
  /\ evaluations \in Seq(EvaluationRows) /\ Len(evaluations) <= MaxEvaluationRuns
  /\ request \in [Readers \cup Posters -> Requests]

(* A reader is answered with an evaluation that covers what had been       *)
(* committed when it asked: no window ended later, and of every window     *)
(* whose features the loader had stored it scored these, newer ones, or a  *)
(* later window - though data is loaded, others evaluate and as_of_time is *)
(* posted while it waits.                                                  *)
AnswerCoversWhatWasLoaded ==
  \A r \in Readers : request[r].step = "answered" =>
    LET e == evaluations[request[r].committed] IN
    /\ e.asOf >= request[r].asOf
    /\ \A s \in DOMAIN window : \A t \in DOMAIN window[s] :
         request[r].known[s][t] > 0 /\ ~window[s][t].synthetic =>
           \/ e.seen[s].end > t
           \/ e.seen[s].end = t /\ e.seen[s].version >= request[r].known[s][t]

(* At most one evaluation of the default stream is active.  Once one was   *)
(* completed one is active, and none is newer, unless an evaluation failed *)
(* (the acknowledgement of its commit may have been lost).                 *)
ActiveIsNewest ==
  /\ Cardinality({i \in Active : evaluations[i].stream = "default"}) <= 1
  /\ failures = 0 /\ Completed # {} =>
       \E i \in Active : \A j \in Completed : evaluations[j].asOf <= evaluations[i].asOf

(* REPLAY_RUNBOOK.md: the operational evaluations are of the stream        *)
(* 'default', apart from the replays.  No window of a replay is scored in  *)
(* an evaluation of the default stream.                                    *)
StreamsAreSeparate ==
  \A i \in Completed : evaluations[i].stream = "default" =>
    \A s \in Expected : ~evaluations[i].seen[s].synthetic
=============================================================================
