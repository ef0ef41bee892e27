------------------------------- MODULE Replay -------------------------------
(***************************************************************************)
(* Replay of a recorded dataset: one replay run, the commands operators    *)
(* queue for it, and the worker processes that claim it under a lease,     *)
(* apply the commands, emit its next tick and score a window at every      *)
(* window boundary.  Each step of a worker is one transaction.             *)
(*                                                                         *)
(* Ticks are numbered from 1; a window is named by its last tick.  The     *)
(* version of the run is not kept: a command is rejected once the version  *)
(* has changed since it was queued, so pending holds the queued commands   *)
(* that are still valid, and every change of the version empties it.       *)
(***************************************************************************)
EXTENDS Integers

CONSTANTS
  Workers,      \* worker processes, each with an owner name of its own
  NoWorker,     \* "no lease_owner"
  Commands,     \* kinds of commands the operators use
  LastTick,     \* number of ticks of the dataset
  WindowTicks,  \* ticks of a window
  MaxCrashes    \* bound: crashes of worker processes

ASSUME WorkerAssumption == NoWorker \notin Workers
ASSUME CommandAssumption ==
  Commands \subseteq
    {"start", "resume", "pause", "set_speed", "cancel", "reset", "seek", "malformed"}
ASSUME BoundAssumption ==
  LastTick \in Nat \ {0} /\ WindowTicks \in Nat \ {0} /\ MaxCrashes \in Nat

Ticks == 1..LastTick
NoTick == 0
States == {"ready", "running", "paused", "completed", "cancelled"}
Steps == {"down", "idle", "claimed", "applied", "completing", "tick", "begin", "score"}

VARIABLES
  state,    \* replay_runs.state
  start,    \* start_at
  current,  \* current_simulated_at, NoTick for NULL
  ticks,    \* replay_tick_batches: ticks that were emitted
  window,   \* replay_window_evaluations: status by last tick
  pending,  \* queued commands that expect the present version of the run
  rewound,  \* history: a reset or a seek was applied
  owner,    \* lease_owner
  live,     \* lease_expires_at is in the future
  step,     \* step[w]: where worker w is
  next,     \* next[w]: the tick w has read from the dataset
  crashes   \* crashes so far

runVars == <<state, start, current, pending, rewound>>
leaseVars == <<owner, live>>
vars == <<runVars, ticks, window, leaseVars, step, next, crashes>>

Init ==
  /\ state = "ready" /\ start \in Ticks /\ current = NoTick
  /\ ticks = {} /\ window = [t \in Ticks |-> "none"]
  /\ pending = {} /\ rewound = FALSE
  /\ owner = NoWorker /\ live = FALSE
  /\ step = [w \in Workers |-> "idle"] /\ next = [w \in Workers |-> NoTick]
  /\ crashes = 0

Goto(w, s) == step' = [step EXCEPT ![w] = s]
-----------------------------------------------------------------------------
(* As in the other modules, a variant marked "seeded fault" is used by no  *)
(* specification.                                                          *)

(* POST .../commands: queued if the version is the one the operator saw;   *)
(* the payload is not looked at.                                           *)
EnqueueCommand(c) ==
  /\ pending' = pending \cup {c}
  /\ UNCHANGED <<state, start, current, rewound, ticks, window, leaseVars, step, next, crashes>>

(* Seeded fault: a run in any state is claimed (TerminalIsFinal).          *)
InAnyState == TRUE

(* WHERE state IN ('ready', 'running', 'paused')                           *)
InClaimableState == state \in {"ready", "running", "paused"}

(* _claim_run.                                                             *)
ClaimRun(w) ==
  /\ step[w] = "idle"
  /\ InClaimableState
  /\ ~live \/ owner = w
  /\ owner' = w /\ live' = TRUE
  /\ Goto(w, "claimed")
  /\ UNCHANGED <<runVars, ticks, window, next, crashes>>

(* _command_updates.  A seek or set_speed with an unusable payload is      *)
(* "malformed".                                                            *)
CommandState(c) ==
  CASE c \in {"start", "resume"} -> "running"
    [] c \in {"pause", "set_speed"} -> "paused"
    [] c = "cancel" -> "cancelled"
    [] c \in {"reset", "seek"} -> "ready"
ResetsCursor(c) == c \in {"reset", "seek"}

(* _apply_commands: the first valid command changes the version, so that   *)
(* the others are rejected.  created_at, the start of the transaction that *)
(* queued it, does not say which one that is.  Neither the lease nor the   *)
(* state of the run is looked at.                                          *)
ApplyCommand(w) ==
  /\ step[w] = "claimed"
  /\ \E c \in pending \ {"malformed"} :
       /\ state' = CommandState(c)
       /\ start' \in IF c = "seek" THEN 1..(LastTick + 1) ELSE {start}
       /\ current' = IF ResetsCursor(c) THEN NoTick ELSE current
       /\ rewound' = (rewound \/ ResetsCursor(c))
  /\ pending' = {}
  /\ Goto(w, "applied")
  /\ UNCHANGED <<ticks, window, leaseVars, next, crashes>>

(* Nothing is queued, or another worker's transaction has it locked (SKIP  *)
(* LOCKED).                                                                *)
ApplyNothing(w) ==
  /\ step[w] = "claimed"
  /\ pending = {} \/ \E v \in Workers \ {w} : step[v] = "claimed"
  /\ Goto(w, "applied")
  /\ UNCHANGED <<runVars, ticks, window, leaseVars, next, crashes>>

(* The exception rolls the transaction back and ends the process.          *)
ApplyRaises(w) ==
  /\ step[w] = "claimed" /\ "malformed" \in pending
  /\ Goto(w, "down")
  /\ UNCHANGED <<runVars, ticks, window, leaseVars, next, crashes>>

NextTick == IF current = NoTick THEN start ELSE current + 1

(* Seeded fault: the end of the dataset is not noticed (TypeOK).           *)
ReadPastEnd(w) ==
  /\ step[w] = "applied"
  /\ IF state # "running" THEN Goto(w, "idle") /\ UNCHANGED next
     ELSE Goto(w, "tick") /\ next' = [next EXCEPT ![w] = NextTick]
  /\ UNCHANGED <<runVars, ticks, window, leaseVars, crashes>>

(* _run: reads the run and the dataset.                                    *)
ReadRun(w) ==
  /\ step[w] = "applied"
  /\ IF state # "running" THEN Goto(w, "idle") /\ UNCHANGED next
     ELSE IF NextTick \notin Ticks THEN Goto(w, "completing") /\ UNCHANGED next
     ELSE Goto(w, "tick") /\ next' = [next EXCEPT ![w] = NextTick]
  /\ UNCHANGED <<runVars, ticks, window, leaseVars, crashes>>

(* _complete: no guard, no new version.                                    *)
CompleteRun(w) ==
  /\ step[w] = "completing"
  /\ state' = "completed"
  /\ Goto(w, "idle")
  /\ UNCHANGED <<start, current, pending, rewound, ticks, window, leaseVars, next, crashes>>

(* Seeded fault: only a lease that has not expired moves the run           *)
(* (RunningRunEnds).                                                       *)
MovesIfLive(w) == owner = w /\ live

(* WHERE run_id = ... AND lease_owner = ...                                *)
MovesRun(w) == owner = w

(* (sequence + 1) % window_ticks = 0                                       *)
IsBoundary(t) == t % WindowTicks = 0

(* Seeded fault: the run is moved before the tick is written, in a         *)
(* transaction of its own (NoSkippedTick).                                 *)
PersistTickInTwo(w) ==
  /\ step[w] = "tick"
  /\ IF MovesRun(w) /\ current # next[w]
     THEN /\ current' = next[w] /\ pending' = {}
          /\ UNCHANGED <<ticks, step>>
     ELSE /\ ticks' = ticks \cup {next[w]}
          /\ Goto(w, IF IsBoundary(next[w]) THEN "begin" ELSE "idle")
          /\ UNCHANGED <<current, pending>>
  /\ UNCHANGED <<state, start, rewound, window, leaseVars, next, crashes>>

(* persist_tick and the way on in advance_tick: a tick that is there       *)
(* already ends the turn.                                                  *)
PersistTick(w) ==
  /\ step[w] = "tick"
  /\ IF next[w] \in ticks
     THEN Goto(w, "idle") /\ UNCHANGED <<current, pending, ticks>>
     ELSE /\ ticks' = ticks \cup {next[w]}
          /\ IF MovesRun(w) THEN current' = next[w] /\ pending' = {}
             ELSE UNCHANGED <<current, pending>>
          /\ Goto(w, IF IsBoundary(next[w]) THEN "begin" ELSE "idle")
  /\ UNCHANGED <<state, start, rewound, window, leaseVars, next, crashes>>

(* begin_window: only the first one inserts the row.                       *)
BeginWindow(w) ==
  /\ step[w] = "begin"
  /\ IF window[next[w]] = "none"
     THEN window' = [window EXCEPT ![next[w]] = "running"] /\ Goto(w, "score")
     ELSE Goto(w, "idle") /\ UNCHANGED window
  /\ UNCHANGED <<runVars, ticks, leaseVars, next, crashes>>

(* Seeded fault: the evaluation is consumed after the window's transaction *)
(* (VerdictIsFinal).                                                       *)
CompleteWindowInTwo(w) ==
  /\ step[w] = "score"
  /\ window' = [window EXCEPT ![next[w]] = "completed"]
  /\ IF window[next[w]] = "running" THEN UNCHANGED step ELSE Goto(w, "idle")
  /\ UNCHANGED <<runVars, ticks, leaseVars, next, crashes>>

(* complete_window, which also consumes the evaluation.                    *)
CompleteWindow(w) ==
  /\ step[w] = "score"
  /\ window' = [window EXCEPT ![next[w]] = "completed"]
  /\ Goto(w, "idle")
  /\ UNCHANGED <<runVars, ticks, leaseVars, next, crashes>>

(* Inference or complete_window raises: fail_window, whatever the status   *)
(* of the row, and the exception ends the process.                         *)
FailWindow(w) ==
  /\ step[w] = "score"
  /\ window' = [window EXCEPT ![next[w]] = "failed"]
  /\ Goto(w, "down")
  /\ UNCHANGED <<runVars, ticks, leaseVars, next, crashes>>

(* The process ends between two transactions.                              *)
Crash(w) ==
  /\ crashes < MaxCrashes /\ step[w] # "down"
  /\ crashes' = crashes + 1
  /\ Goto(w, "down")
  /\ UNCHANGED <<runVars, ticks, window, leaseVars, next>>

(* main: run_forever from the beginning, with the same owner name.         *)
WorkerStart(w) ==
  /\ step[w] = "down"
  /\ Goto(w, "idle")
  /\ UNCHANGED <<runVars, ticks, window, leaseVars, next, crashes>>

(* Fifteen seconds without a claim have passed.                            *)
LeaseExpires ==
  /\ live /\ live' = FALSE
  /\ UNCHANGED <<runVars, ticks, window, owner, step, next, crashes>>

(* What a worker does of its own accord.                                   *)
Work(w) ==
  \/ ClaimRun(w) \/ ApplyCommand(w) \/ ApplyNothing(w) \/ ApplyRaises(w)
  \/ ReadRun(w) \/ CompleteRun(w) \/ PersistTick(w)
  \/ BeginWindow(w) \/ CompleteWindow(w) \/ FailWindow(w)
  \/ WorkerStart(w)

Next ==
  \/ \E c \in Commands : EnqueueCommand(c)
  \/ \E w \in Workers : Work(w) \/ Crash(w)
  \/ LeaseExpires

Spec == Init /\ [][Next]_vars

(* Workers keep running, and are started again when they end.              *)
FairSpec == Spec /\ \A w \in Workers : WF_vars(Work(w))
-----------------------------------------------------------------------------
TypeOK ==
  /\ state \in States
  /\ start \in 1..(LastTick + 1) /\ current \in 0..LastTick
  /\ ticks \subseteq Ticks
  /\ window \in [Ticks -> {"none", "running", "completed", "failed"}]
  /\ pending \subseteq Commands /\ rewound \in BOOLEAN
  /\ owner \in Workers \cup {NoWorker} /\ live \in BOOLEAN
  /\ step \in [Workers -> Steps]
  /\ next \in [Workers -> Ticks \cup {NoTick}]
  /\ \A w \in Workers : step[w] \in {"tick", "begin", "score"} => next[w] \in Ticks
  /\ crashes \in 0..MaxCrashes

(* Nothing is left out: when the run stands at a tick, every tick from its *)
(* start on has been emitted, whichever workers lost the lease or crashed  *)
(* in between.                                                             *)
NoSkippedTick == (current # NoTick) => (start..current \subseteq ticks)

(* A window is scored once: neither a worker that takes the run over nor   *)
(* one that has lost it changes a completed or failed window.              *)
VerdictIsFinal ==
  [][\A t \in Ticks : window[t] \in {"completed", "failed"} => (window'[t] = window[t])]_vars

(* With one worker process, a completed or cancelled run stays so, also    *)
(* when commands were queued for it.                                       *)
TerminalIsFinal == [][(state \in {"completed", "cancelled"}) => UNCHANGED state]_vars

(* With one worker process, nothing is emitted for a run that is paused,   *)
(* cancelled or was reset: a command that was applied is obeyed.           *)
EmitsOnlyWhileRunning == [][ticks' # ticks => (state = "running")]_vars

(* The run is at a tick that an earlier pass emitted: a reset or a seek    *)
(* has taken the run back without the rows of its ticks.                   *)
StandsInOldTicks == rewound /\ NextTick \in ticks

(* A running run does not hang, unless a reset or a seek has taken it back *)
(* among ticks it has emitted: it reaches its last tick, a command stops   *)
(* it, or one is queued whose payload raises at every claim.               *)
RunningRunEnds ==
  (state = "running") ~> (state # "running" \/ "malformed" \in pending \/ StandsInOldTicks)
=============================================================================
