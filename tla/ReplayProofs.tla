---------------------------- MODULE ReplayProofs ----------------------------
(***************************************************************************)
(* Proofs about Replay, for every set of workers, every dataset and every  *)
(* window size.  What holds of a single worker process, or without seek,   *)
(* has that as an assumption of its theorem.                               *)
(***************************************************************************)
EXTENDS Replay, TLAPS

USE WorkerAssumption, CommandAssumption, BoundAssumption

(***************************************************************************)
(* Type correctness.                                                       *)
(***************************************************************************)

(* Where a worker may go: to a step, with a tick of the dataset if it has  *)
(* read one.                                                               *)
LEMMA GotoType ==
  ASSUME TypeOK, NEW w \in Workers, NEW s \in Steps \ {"tick"}, Goto(w, s),
         next' = next, s \in {"begin", "score"} => next[w] \in Ticks
  PROVE  /\ step' \in [Workers -> Steps]
         /\ \A v \in Workers : step'[v] \in {"tick", "begin", "score"} => next'[v] \in Ticks
  BY DEF TypeOK, Goto

(* A worker reads a tick of the dataset.                                   *)
LEMMA ReadType ==
  ASSUME TypeOK, NEW w \in Workers, ReadRun(w)
  PROVE  /\ step' \in [Workers -> Steps]
         /\ next' \in [Workers -> Ticks \cup {NoTick}]
         /\ \A v \in Workers : step'[v] \in {"tick", "begin", "score"} => next'[v] \in Ticks
  <1>1. CASE Goto(w, "idle") /\ UNCHANGED next
    BY <1>1, GotoType DEF Steps, TypeOK
  <1>2. CASE Goto(w, "completing") /\ UNCHANGED next
    BY <1>2, GotoType DEF Steps, TypeOK
  <1>3. CASE /\ NextTick \in Ticks
             /\ Goto(w, "tick") /\ next' = [next EXCEPT ![w] = NextTick]
    BY <1>3 DEF Goto, Steps, TypeOK
  <1> QED
    BY <1>1, <1>2, <1>3 DEF ReadRun

(* The commands lead to states of a run.                                   *)
LEMMA CommandType ==
  ASSUME NEW c \in Commands, c # "malformed"
  PROVE  CommandState(c) \in States
  BY DEF CommandState, States

LEMMA TypeInit == Init => TypeOK
  <1> SUFFICES ASSUME Init PROVE TypeOK
    OBVIOUS
  <1>1. start \in 1..(LastTick + 1) /\ current \in 0..LastTick
    BY DEF Init, Ticks, NoTick
  <1>2. step \in [Workers -> Steps] /\ next \in [Workers -> Ticks \cup {NoTick}]
    BY DEF Init, Steps
  <1>3. \A w \in Workers : step[w] = "idle"
    BY DEF Init
  <1>4. window \in [Ticks -> {"none", "running", "completed", "failed"}]
    BY DEF Init
  <1>5. /\ state \in States /\ ticks \subseteq Ticks /\ pending \subseteq Commands
        /\ owner \in Workers \cup {NoWorker} /\ crashes \in 0..MaxCrashes
    BY DEF Init, States
  <1>6. live \in BOOLEAN /\ rewound \in BOOLEAN
    BY DEF Init
  <1> QED
    BY <1>1, <1>2, <1>3, <1>4, <1>5, <1>6 DEF TypeOK

LEMMA TypeStep == TypeOK /\ [Next]_vars => TypeOK'
  <1> SUFFICES ASSUME TypeOK, [Next]_vars PROVE TypeOK'
    OBVIOUS
  <1> USE DEF TypeOK
  <1>1. ASSUME NEW c \in Commands, EnqueueCommand(c) PROVE TypeOK'
    BY <1>1 DEF EnqueueCommand, leaseVars
  <1>2. ASSUME NEW w \in Workers, Work(w) PROVE TypeOK'
    <2>1. CASE ClaimRun(w)
      BY <2>1, GotoType DEF ClaimRun, runVars, Steps
    <2>2. CASE ApplyCommand(w)
      <3>1. PICK c \in pending \ {"malformed"} :
              /\ state' = CommandState(c)
              /\ start' \in IF c = "seek" THEN 1..(LastTick + 1) ELSE {start}
              /\ current' = IF ResetsCursor(c) THEN NoTick ELSE current
        BY <2>2 DEF ApplyCommand
      <3>2. state' \in States
        BY <3>1, CommandType
      <3>3. start' \in 1..(LastTick + 1) /\ current' \in 0..LastTick
        BY <3>1 DEF NoTick
      <3> QED
        BY <2>2, <3>2, <3>3, GotoType DEF ApplyCommand, leaseVars, Steps
    <2>3. CASE ApplyNothing(w)
      BY <2>3, GotoType DEF ApplyNothing, runVars, leaseVars, Steps
    <2>4. CASE ApplyRaises(w)
      BY <2>4, GotoType DEF ApplyRaises, runVars, leaseVars, Steps
    <2>5. CASE ReadRun(w)
      BY <2>5, ReadType DEF ReadRun, runVars, leaseVars
    <2>6. CASE CompleteRun(w)
      BY <2>6, GotoType DEF CompleteRun, leaseVars, Steps, States
    <2>7. CASE PersistTick(w)
      <3>1. next[w] \in Ticks /\ next[w] \in 0..LastTick
        BY <2>7 DEF PersistTick, Ticks
      <3>2. /\ step' \in [Workers -> Steps]
            /\ \A v \in Workers : step'[v] \in {"tick", "begin", "score"} => next'[v] \in Ticks
        BY <2>7, <3>1, GotoType DEF PersistTick, Steps
      <3>3. current' \in 0..LastTick /\ ticks' \subseteq Ticks /\ pending' \subseteq Commands
        BY <2>7, <3>1 DEF PersistTick
      <3> QED
        BY <2>7, <3>2, <3>3 DEF PersistTick, leaseVars
    <2>8. CASE BeginWindow(w)
      BY <2>8, GotoType DEF BeginWindow, runVars, leaseVars, Steps
    <2>9. CASE CompleteWindow(w)
      BY <2>9, GotoType DEF CompleteWindow, runVars, leaseVars, Steps
    <2>10. CASE FailWindow(w)
      BY <2>10, GotoType DEF FailWindow, runVars, leaseVars, Steps
    <2>11. CASE WorkerStart(w)
      BY <2>11, GotoType DEF WorkerStart, runVars, leaseVars, Steps
    <2> QED
      BY <1>2, <2>1, <2>2, <2>3, <2>4, <2>5, <2>6, <2>7, <2>8, <2>9, <2>10, <2>11 DEF Work
  <1>3. ASSUME NEW w \in Workers, Crash(w) PROVE TypeOK'
    BY <1>3, GotoType DEF Crash, runVars, leaseVars, Steps
  <1>4. CASE LeaseExpires
    BY <1>4 DEF LeaseExpires, runVars
  <1>5. CASE UNCHANGED vars
    BY <1>5 DEF vars, runVars, leaseVars
  <1> QED
    BY <1>1, <1>2, <1>3, <1>4, <1>5 DEF Next

(* The run, its ticks and windows, and the steps of the workers keep their *)
(* types; in particular a worker only ever has a tick of the dataset.      *)
THEOREM TypeCorrect == Spec => []TypeOK
  BY TypeInit, TypeStep, PTL DEF Spec

(***************************************************************************)
(* Windows: the row a worker scores is its own.                            *)
(***************************************************************************)

(* A worker that scores a window has inserted its row, which is still      *)
(* running, and no other worker scores the same one.                       *)
OwnWindow ==
  /\ \A w \in Workers : step[w] = "score" => window[next[w]] = "running"
  /\ \A v, w \in Workers :
       step[v] = "score" /\ step[w] = "score" /\ next[v] = next[w] => v = w

LEMMA OwnWindowStep == TypeOK /\ OwnWindow /\ [Next]_vars => OwnWindow'
  <1> SUFFICES ASSUME TypeOK, OwnWindow, [Next]_vars PROVE OwnWindow'
    OBVIOUS
  <1> USE DEF TypeOK, OwnWindow
  <1>1. ASSUME NEW w \in Workers, NEW s \in Steps \ {"score"}, Goto(w, s),
               \A v \in Workers \ {w} : next'[v] = next[v],
               UNCHANGED window
        PROVE  OwnWindow'
    BY <1>1 DEF Goto
  <1>2. ASSUME NEW w \in Workers, BeginWindow(w) PROVE OwnWindow'
    BY <1>2 DEF BeginWindow, Goto
  <1>3. ASSUME NEW w \in Workers, CompleteWindow(w) \/ FailWindow(w) PROVE OwnWindow'
    BY <1>3 DEF CompleteWindow, FailWindow, Goto
  <1>4. ASSUME NEW w \in Workers, ReadRun(w) PROVE OwnWindow'
    BY <1>4, <1>1 DEF ReadRun, Steps
  <1>5. ASSUME NEW w \in Workers, PersistTick(w) PROVE OwnWindow'
    BY <1>5, <1>1 DEF PersistTick, Steps
  <1>6. ASSUME NEW w \in Workers,
               \/ ClaimRun(w) \/ ApplyCommand(w) \/ ApplyNothing(w) \/ ApplyRaises(w)
               \/ CompleteRun(w) \/ WorkerStart(w) \/ Crash(w)
        PROVE  OwnWindow'
    BY <1>6, <1>1 DEF ClaimRun, ApplyCommand, ApplyNothing, ApplyRaises, CompleteRun,
                      WorkerStart, Crash, Steps
  <1>7. ASSUME \/ \E c \in Commands : EnqueueCommand(c)
               \/ LeaseExpires
               \/ UNCHANGED vars
        PROVE  OwnWindow'
    BY <1>7 DEF EnqueueCommand, LeaseExpires, vars
  <1> QED
    BY <1>2, <1>3, <1>4, <1>5, <1>6, <1>7 DEF Next, Work

(* Each window is scored by the one worker that inserted its row, also     *)
(* when several workers believe that the run is theirs.                    *)
THEOREM WindowOwnership == Spec => []OwnWindow
  <1>1. Init => OwnWindow
    BY DEF Init, OwnWindow
  <1> QED
    BY <1>1, TypeCorrect, OwnWindowStep, PTL DEF Spec

(* A completed or failed window is never scored again.                     *)
THEOREM VerdictSafety == Spec => VerdictIsFinal
  <1>1. TypeOK /\ OwnWindow /\ [Next]_vars =>
          [\A t \in Ticks : window[t] \in {"completed", "failed"} => (window'[t] = window[t])]_vars
    <2> SUFFICES ASSUME TypeOK, OwnWindow, Next, NEW t \in Ticks,
                        window[t] \in {"completed", "failed"}
                 PROVE  window'[t] = window[t]
      OBVIOUS
    <2>1. ASSUME NEW w \in Workers, BeginWindow(w) \/ CompleteWindow(w) \/ FailWindow(w)
          PROVE  window'[t] = window[t]
      <3>1. next[w] # t \/ UNCHANGED window
        BY <2>1 DEF BeginWindow, CompleteWindow, FailWindow, OwnWindow
      <3> QED
        BY <2>1, <3>1 DEF BeginWindow, CompleteWindow, FailWindow, TypeOK
    <2> QED
      BY <2>1 DEF Next, Work, EnqueueCommand, ClaimRun, ApplyCommand, ApplyNothing,
                  ApplyRaises, ReadRun, CompleteRun, PersistTick, Crash, WorkerStart,
                  LeaseExpires
  <1> QED
    BY <1>1, TypeCorrect, WindowOwnership, PTL DEF Spec, VerdictIsFinal

(***************************************************************************)
(* Ticks: nothing is left out, if nobody seeks.                            *)
(***************************************************************************)

(* Every tick before the one a worker is about to emit has been emitted.   *)
Contiguous ==
  \A w \in Workers : step[w] = "tick" => start..(next[w] - 1) \subseteq ticks

LEMMA TickStep ==
  ASSUME "seek" \notin Commands
  PROVE  TypeOK /\ NoSkippedTick /\ Contiguous /\ [Next]_vars => NoSkippedTick' /\ Contiguous'
  <1> SUFFICES ASSUME TypeOK, NoSkippedTick, Contiguous, [Next]_vars
               PROVE  NoSkippedTick' /\ Contiguous'
    OBVIOUS
  <1> USE DEF TypeOK, NoSkippedTick, Contiguous
  <1>1. ASSUME NEW w \in Workers, NEW s \in Steps \ {"tick"}, Goto(w, s),
               UNCHANGED <<start, next>>, ticks \subseteq ticks'
        PROVE  Contiguous'
    BY <1>1 DEF Goto
  <1>2. ASSUME NEW w \in Workers, ReadRun(w) PROVE NoSkippedTick' /\ Contiguous'
    <2>1. NoSkippedTick'
      BY <1>2 DEF ReadRun, runVars
    <2>2. ASSUME next' = [next EXCEPT ![w] = NextTick], Goto(w, "tick")
          PROVE  Contiguous'
      <3>1. start..(NextTick - 1) \subseteq ticks
        BY DEF NextTick, NoTick
      <3> QED
        BY <1>2, <2>2, <3>1 DEF ReadRun, runVars, Goto
    <2> QED
      BY <1>1, <1>2, <2>1, <2>2 DEF ReadRun, runVars, Steps
  <1>3. ASSUME NEW w \in Workers, PersistTick(w) PROVE NoSkippedTick' /\ Contiguous'
    <2>1. Contiguous'
      BY <1>1, <1>3 DEF PersistTick, Steps
    <2>2. CASE UNCHANGED current
      <3>1. start' = start /\ ticks \subseteq ticks'
        BY <1>3 DEF PersistTick
      <3> QED
        BY <2>1, <2>2, <3>1
    <2>3. CASE current' = next[w] /\ ticks' = ticks \cup {next[w]}
      <3>1. start..(next[w] - 1) \subseteq ticks /\ next[w] \in Ticks
        BY <1>3 DEF PersistTick
      <3>2. start..next[w] \subseteq ticks'
        BY <2>3, <3>1 DEF Ticks
      <3> QED
        BY <1>3, <2>1, <2>3, <3>2 DEF PersistTick
    <2> QED
      BY <1>3, <2>1, <2>2, <2>3 DEF PersistTick
  <1>4. ASSUME NEW w \in Workers, ApplyCommand(w) PROVE NoSkippedTick' /\ Contiguous'
    <2>1. start' = start /\ current' \in {NoTick, current}
      BY <1>4 DEF ApplyCommand
    <2> QED
      BY <1>1, <1>4, <2>1 DEF ApplyCommand, Steps
  <1>5. ASSUME NEW w \in Workers,
               \/ ClaimRun(w) \/ ApplyNothing(w) \/ ApplyRaises(w) \/ CompleteRun(w)
               \/ BeginWindow(w) \/ CompleteWindow(w) \/ FailWindow(w)
               \/ WorkerStart(w) \/ Crash(w)
        PROVE  NoSkippedTick' /\ Contiguous'
    <2>1. UNCHANGED <<start, current, ticks, next>>
      BY <1>5 DEF ClaimRun, ApplyNothing, ApplyRaises, CompleteRun, BeginWindow,
                  CompleteWindow, FailWindow, WorkerStart, Crash, runVars
    <2>2. \E s \in Steps \ {"tick"} : Goto(w, s)
      BY <1>5 DEF ClaimRun, ApplyNothing, ApplyRaises, CompleteRun, BeginWindow,
                  CompleteWindow, FailWindow, WorkerStart, Crash, Steps
    <2> QED
      BY <1>1, <2>1, <2>2
  <1>6. ASSUME \/ \E c \in Commands : EnqueueCommand(c)
               \/ LeaseExpires
               \/ UNCHANGED vars
        PROVE  NoSkippedTick' /\ Contiguous'
    BY <1>6 DEF EnqueueCommand, LeaseExpires, vars, runVars
  <1> QED
    BY <1>2, <1>3, <1>4, <1>5, <1>6 DEF Next, Work

(* Whichever workers lose the lease, fail or crash in between, and         *)
(* whatever commands but seek arrive, the ticks of a run up to where it    *)
(* stands have all been emitted.                                           *)
THEOREM TickSafety ==
  ASSUME "seek" \notin Commands
  PROVE  Spec => []NoSkippedTick
  <1>1. Init => NoSkippedTick /\ Contiguous
    BY DEF Init, NoSkippedTick, Contiguous
  <1>2. TypeOK /\ NoSkippedTick /\ Contiguous /\ [Next]_vars => NoSkippedTick' /\ Contiguous'
    BY TickStep
  <1> QED
    BY <1>1, <1>2, TypeCorrect, PTL DEF Spec

(***************************************************************************)
(* A single worker process obeys the commands it has applied.              *)
(***************************************************************************)

OneWorker == \A v, w \in Workers : v = w

(* What the worker has read of the run still holds.                        *)
Fresh ==
  \A w \in Workers :
    /\ step[w] = "claimed" => state \in {"ready", "running", "paused"}
    /\ step[w] \in {"tick", "completing"} => state = "running"

LEMMA FreshStep ==
  ASSUME OneWorker
  PROVE  TypeOK /\ Fresh /\ [Next]_vars => Fresh'
  <1> SUFFICES ASSUME TypeOK, Fresh, [Next]_vars PROVE Fresh'
    OBVIOUS
  <1> USE DEF TypeOK, Fresh, OneWorker
  <1>1. ASSUME NEW w \in Workers, ClaimRun(w) PROVE Fresh'
    BY <1>1 DEF ClaimRun, InClaimableState, runVars, Goto
  <1>2. ASSUME NEW w \in Workers, ReadRun(w) PROVE Fresh'
    BY <1>2 DEF ReadRun, runVars, Goto
  <1>3. ASSUME NEW w \in Workers, NEW s \in Steps \ {"claimed", "tick", "completing"}, Goto(w, s)
        PROVE  Fresh'
    BY <1>3 DEF Goto
  <1>4. ASSUME NEW w \in Workers,
               \/ ApplyCommand(w) \/ ApplyNothing(w) \/ ApplyRaises(w) \/ CompleteRun(w)
               \/ PersistTick(w) \/ BeginWindow(w) \/ CompleteWindow(w) \/ FailWindow(w)
               \/ WorkerStart(w) \/ Crash(w)
        PROVE  Fresh'
    <2>1. \E s \in Steps \ {"claimed", "tick", "completing"} : Goto(w, s)
      BY <1>4 DEF ApplyCommand, ApplyNothing, ApplyRaises, CompleteRun, PersistTick,
                  BeginWindow, CompleteWindow, FailWindow, WorkerStart, Crash, Steps
    <2> QED
      BY <1>3, <2>1
  <1>5. ASSUME \/ \E c \in Commands : EnqueueCommand(c)
               \/ LeaseExpires
               \/ UNCHANGED vars
        PROVE  Fresh'
    BY <1>5 DEF EnqueueCommand, LeaseExpires, vars, runVars
  <1> QED
    BY <1>1, <1>2, <1>4, <1>5 DEF Next, Work

LEMMA FreshAlways ==
  ASSUME OneWorker
  PROVE  Spec => []Fresh
  <1>1. Init => Fresh
    BY DEF Init, Fresh
  <1>2. TypeOK /\ Fresh /\ [Next]_vars => Fresh'
    BY FreshStep
  <1> QED
    BY <1>1, <1>2, TypeCorrect, PTL DEF Spec

(* With one worker process a completed or cancelled run stays so.          *)
THEOREM TerminalSafety ==
  ASSUME OneWorker
  PROVE  Spec => TerminalIsFinal
  <1>1. Fresh /\ [Next]_vars =>
          [(state \in {"completed", "cancelled"}) => UNCHANGED state]_vars
    BY DEF Fresh, Next, Work, EnqueueCommand, ClaimRun, ApplyCommand, ApplyNothing,
           ApplyRaises, ReadRun, CompleteRun, PersistTick, BeginWindow, CompleteWindow,
           FailWindow, Crash, WorkerStart, LeaseExpires, runVars, vars
  <1> QED
    BY <1>1, FreshAlways, PTL DEF Spec, TerminalIsFinal

(* With one worker process nothing is emitted for a run that is not        *)
(* running.                                                                *)
THEOREM EmissionSafety ==
  ASSUME OneWorker
  PROVE  Spec => EmitsOnlyWhileRunning
  <1>1. Fresh /\ [Next]_vars => [ticks' # ticks => (state = "running")]_vars
    BY DEF Fresh, Next, Work, EnqueueCommand, ClaimRun, ApplyCommand, ApplyNothing,
           ApplyRaises, ReadRun, CompleteRun, PersistTick, BeginWindow, CompleteWindow,
           FailWindow, Crash, WorkerStart, LeaseExpires, runVars, vars
  <1> QED
    BY <1>1, FreshAlways, PTL DEF Spec, EmitsOnlyWhileRunning
=============================================================================
