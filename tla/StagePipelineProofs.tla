------------------------- MODULE StagePipelineProofs -------------------------
(***************************************************************************)
(* Proofs about StagePipeline, for any number of runs, stages, attempts,   *)
(* redeployments and workers, any two attempts at a run at once included.  *)
(***************************************************************************)
EXTENDS StagePipeline, TLAPS

(***************************************************************************)
(* Types, and where a step comes with what it stands at.                   *)
(***************************************************************************)
StoredRows == [Stages -> Rows \cup {None}]
WorkerType ==
  [step : Steps, run : Runs, id : Runs, next : 1..(MaxStages + 1),
   chain : SUBSET (Stages \X Outputs), parent : StoredRows, mine : SUBSET Stages]
CheckpointType == [id : Runs, next : 1..(MaxStages + 1), chain : SUBSET (Stages \X Outputs)]

TypeInv ==
  /\ rows \in [Runs -> StoredRows]
  /\ checkpoint \in [Runs -> CheckpointType \cup {None}]
  /\ result \in [Runs -> Outputs \cup {None}]
  /\ attempts \in [Runs -> 0..MaxAttempts]
  /\ overlapped \subseteq Runs
  /\ target \in [Runs -> Stages \cup {NoStage}]
  /\ config \in Configs /\ deploys \in 0..MaxDeploys
  /\ worker \in [Workers -> WorkerType]
  /\ \A w \in Workers :
       worker[w].step \in {"begin", "stage", "compute", "save"} => worker[w].next \in Stages

(* The rows of a run before stage n are there, and each was computed from   *)
(* those before it.                                                        *)
Linked(stored, n) ==
  \A k \in 1..(n - 1) : stored[k] # None /\ stored[k].input.upstream = Outs(stored, k)

(* A chain of outputs is what the rows of a run hold up to stage n.        *)
ChainOf(c, stored, n) == Linked(stored, n) /\ c = Outs(stored, n)

OwnLinked ==
  \A r \in Runs, k \in Stages : rows[r][k] # None /\ rows[r][k].from = NoRun =>
    Linked(rows[r], k + 1) /\ rows[r][k].output.run = r
ParentSeen ==
  \A w \in Workers : worker[w].step \in {"own", "insert"} =>
    \A k \in Stages : worker[w].parent[k] # None =>
      worker[w].run > 1 /\ rows[worker[w].run - 1][k] = worker[w].parent[k]

(* What worker w holds is the chain of the run its state names.            *)
Follows(w) ==
  LET stored == rows[worker[w].id] IN
  /\ worker[w].step \in {"prefix", "own", "insert", "hydrate", "begin"} =>
       worker[w].id = worker[w].run
  /\ worker[w].step \in {"begin", "stage", "compute"} =>
       ChainOf(worker[w].chain, stored, worker[w].next)
  /\ Busy(w, "save") => ChainOf(worker[w].chain, stored, worker[w].next + 1)
  /\ Busy(w, "persist") => ChainOf(worker[w].chain, stored, MaxStages + 1)
WorkersLinked == \A w \in Workers : Follows(w)
CheckpointsLinked ==
  \A r \in Runs : checkpoint[r] # None =>
    ChainOf(checkpoint[r].chain, rows[checkpoint[r].id], checkpoint[r].next)
ResultsLinked ==
  \A r \in Runs : result[r] # None =>
    Linked(rows[r], MaxStages + 1) /\ result[r] = rows[r][MaxStages].output

IInv ==
  /\ TypeInv /\ OwnLinked /\ ReusedIsValid /\ ParentSeen
  /\ WorkersLinked /\ CheckpointsLinked /\ ResultsLinked
-----------------------------------------------------------------------------
LEMMA NoneIsNoRecord == None \notin Rows /\ None \notin Outputs /\ None \notin CheckpointType
  <1>1. "none" \in DOMAIN None
    BY DEF None
  <1>2. \A x \in Rows : "none" \notin DOMAIN x
    BY DEF Rows
  <1>3. \A x \in Outputs : "none" \notin DOMAIN x
    BY DEF Outputs
  <1>4. \A x \in CheckpointType : "none" \notin DOMAIN x
    BY DEF CheckpointType
  <1> QED
    BY <1>1, <1>2, <1>3, <1>4

LEMMA NumbersType == 1 \in Runs /\ 1 \in 1..(MaxStages + 1) /\ NoRun \notin Runs /\ NoStage \notin Stages
  BY BoundAssumption DEF Runs, Stages, NoRun, NoStage

LEMMA IdleType == Idle \in WorkerType
  <1>1. NoRows \in StoredRows
    BY DEF NoRows, StoredRows
  <1> QED
    BY <1>1, NumbersType DEF Idle, WorkerType, Steps

(* What a chain is made of, and how it grows.                              *)
LEMMA OutsType ==
  ASSUME NEW stored \in StoredRows, NEW k \in 1..(MaxStages + 1)
  PROVE  Outs(stored, k) \in SUBSET (Stages \X Outputs)
  <1>1. ASSUME NEW j \in 1..(k - 1), stored[j] # None
        PROVE  j \in Stages /\ stored[j].output \in Outputs
    <2>1. j \in Stages
      BY BoundAssumption DEF Stages
    <2> QED
      BY <1>1, <2>1 DEF StoredRows, Rows
  <1> QED
    BY <1>1 DEF Outs

LEMMA OutsNext ==
  ASSUME NEW stored, NEW k \in Stages, stored[k] # None
  PROVE  Outs(stored, k + 1) = Outs(stored, k) \cup {<<k, stored[k].output>>}
  <1>1. 1..((k + 1) - 1) = (1..(k - 1)) \cup {k}
    BY BoundAssumption DEF Stages
  <1> QED
    BY <1>1 DEF Outs

LEMMA OutsKept ==
  ASSUME NEW old, NEW new, NEW k \in 1..(MaxStages + 1),
         \A j \in 1..(k - 1) : old[j] # None /\ new[j] = old[j]
  PROVE  Outs(new, k) = Outs(old, k)
  BY DEF Outs

(* The only worker a step changes.                                         *)
LEMMA OneChanges ==
  ASSUME TypeInv, NEW w \in Workers, NEW change, Become(w, change)
  PROVE  /\ worker'[w] = change
         /\ \A v \in Workers : v # w => worker'[v] = worker[v]
         /\ change \in WorkerType => worker' \in [Workers -> WorkerType]
  BY DEF TypeInv, Become

LEMMA WorkerFields ==
  ASSUME TypeInv, NEW w \in Workers
  PROVE  /\ worker[w] \in WorkerType
         /\ worker[w].step \in Steps /\ worker[w].run \in Runs /\ worker[w].id \in Runs
         /\ worker[w].next \in 1..(MaxStages + 1)
         /\ worker[w].chain \in SUBSET (Stages \X Outputs)
         /\ worker[w].parent \in StoredRows /\ worker[w].mine \in SUBSET Stages
  BY DEF TypeInv, WorkerType

LEMMA TypeInit == Init => TypeInv
  <1> SUFFICES ASSUME Init PROVE TypeInv
    OBVIOUS
  <1>1. NoRows \in StoredRows
    BY DEF NoRows, StoredRows
  <1>2. config \in Configs
    BY ConfigAssumption DEF Init
  <1>3. worker \in [Workers -> WorkerType] /\ \A w \in Workers : worker[w].step = "idle"
    BY IdleType DEF Init, Idle
  <1> QED
    BY <1>1, <1>2, <1>3, BoundAssumption DEF Init, TypeInv

LEMMA ClaimType ==
  ASSUME TypeInv, NEW w \in Workers, NEW r \in Runs, Claim(w, r)
  PROVE  TypeInv'
  <1>1. attempts' \in [Runs -> 0..MaxAttempts]
    BY BoundAssumption DEF TypeInv, Claim
  <1>2. CASE checkpoint[r] = None
    <2> DEFINE change == [Idle EXCEPT !.step = "prefix", !.run = r, !.id = r]
    <2>1. change \in WorkerType /\ change.step = "prefix"
      BY IdleType DEF WorkerType, Steps, Idle
    <2>2. Become(w, change)
      BY <1>2 DEF Claim
    <2> QED
      BY <1>1, <2>1, <2>2, OneChanges, ZenonT(30) DEF TypeInv, Claim
  <1>3. CASE checkpoint[r] # None
    <2> DEFINE c == checkpoint[r]
               change == [Idle EXCEPT !.step = IF c.next > MaxStages THEN "persist" ELSE "stage",
                                      !.run = r, !.id = c.id, !.next = c.next, !.chain = c.chain]
    <2>1. c \in CheckpointType
      BY <1>3 DEF TypeInv
    <2>2. change \in WorkerType
      BY <2>1, IdleType DEF CheckpointType, WorkerType, Steps, Idle
    <2>3. change.step = IF c.next > MaxStages THEN "persist" ELSE "stage"
      BY DEF Idle
    <2>4. change.next = c.next
      BY DEF Idle
    <2>5. change.step \in {"begin", "stage", "compute", "save"} => change.next \in Stages
      BY <2>1, <2>3, <2>4, BoundAssumption DEF CheckpointType, Stages
    <2>6. Become(w, change)
      BY <1>3 DEF Claim
    <2> HIDE DEF change
    <2> QED
      BY <1>1, <2>2, <2>5, <2>6, OneChanges DEF TypeInv, Claim
  <1> QED
    BY <1>2, <1>3

LEMMA ReadParentType ==
  ASSUME TypeInv, NEW w \in Workers, ReadParent(w)
  PROVE  TypeInv'
  <1> DEFINE r == worker[w].run
             change == [worker[w] EXCEPT !.step = "own",
                          !.parent = IF r = 1 THEN NoRows ELSE rows[r - 1]]
  <1>1. (IF r = 1 THEN NoRows ELSE rows[r - 1]) \in StoredRows
    <2>1. NoRows \in StoredRows
      BY DEF NoRows, StoredRows
    <2>2. r # 1 => r - 1 \in Runs
      BY WorkerFields, BoundAssumption DEF Runs
    <2> QED
      BY <2>1, <2>2 DEF TypeInv
  <1>2. change \in WorkerType /\ change.step = "own"
    BY <1>1, WorkerFields DEF WorkerType, Steps
  <1>3. Become(w, change)
    BY DEF ReadParent
  <1> HIDE DEF change
  <1> QED
    BY <1>2, <1>3, OneChanges DEF TypeInv, ReadParent

LEMMA ReadOwnType ==
  ASSUME TypeInv, NEW w \in Workers, ReadOwn(w)
  PROVE  TypeInv'
  <1> DEFINE change == [worker[w] EXCEPT !.step = "insert",
                          !.mine = {k \in Stages : rows[worker[w].run][k] # None}]
  <1>1. change \in WorkerType /\ change.step = "insert"
    BY WorkerFields DEF WorkerType, Steps
  <1>2. Become(w, change)
    BY DEF ReadOwn
  <1> HIDE DEF change
  <1> QED
    BY <1>1, <1>2, OneChanges DEF TypeInv, ReadOwn

LEMMA OriginalType ==
  ASSUME TypeInv, NEW r \in Runs, NEW k \in Stages, rows[r][k] # None
  PROVE  Original(r, k) \in Runs
  <1>1. rows[r][k] \in Rows
    BY DEF TypeInv, StoredRows
  <1>2. rows[r][k].from \in Runs \cup {NoRun}
    BY <1>1 DEF Rows
  <1> QED
    BY <1>2 DEF Original

(* What is copied, and from where.                                         *)
LEMMA CopiedFrom ==
  ASSUME TypeInv, NEW w \in Workers, NEW k \in Copied(w)
  PROVE  /\ k \in Stages /\ k < target[worker[w].run]
         /\ Reusable(worker[w].run, worker[w].parent, k)
  BY WorkerFields DEF Copied, Stages

LEMMA CopyType ==
  ASSUME TypeInv, ParentSeen, NEW w \in Workers, Busy(w, "insert"), NEW k \in Copied(w)
  PROVE  CopyOf(w, k) \in Rows
  <1> DEFINE r == worker[w].run
             source == worker[w].parent[k]
  <1>1. k \in Stages /\ source # None /\ r \in Runs /\ worker[w].parent \in StoredRows
    BY CopiedFrom, WorkerFields DEF Reusable
  <1>2. source \in Rows /\ rows[r - 1][k] = source /\ r - 1 \in Runs
    BY <1>1, BoundAssumption DEF ParentSeen, StoredRows, Runs, Busy
  <1>3. source.output \in Outputs
    BY <1>2 DEF Rows
  <1>4. Outs(worker[w].parent, k) \in SUBSET (Stages \X Outputs)
    BY <1>1, OutsType, BoundAssumption DEF Stages
  <1>5. StageInput(Outs(worker[w].parent, k)) \in Inputs
    BY <1>4 DEF StageInput, Inputs, TypeInv
  <1>6. Original(r - 1, k) \in Runs
    BY <1>1, <1>2, OriginalType
  <1> QED
    BY <1>3, <1>5, <1>6 DEF CopyOf, Rows

LEMMA GiveUpType ==
  ASSUME TypeInv, NEW w \in Workers, GiveUp(w)
  PROVE  /\ worker' \in [Workers -> WorkerType]
         /\ worker'[w].step = "idle"
         /\ \A v \in Workers : v # w => worker'[v] = worker[v]
  BY IdleType, OneChanges DEF GiveUp, Idle

LEMMA CopyPrefixType ==
  ASSUME TypeInv, ParentSeen, NEW w \in Workers, CopyPrefix(w)
  PROVE  TypeInv'
  <1> DEFINE r == worker[w].run
             change == [worker[w] EXCEPT !.step = "hydrate", !.parent = NoRows, !.mine = {}]
             copied == [k \in Stages |-> IF k \in Copied(w) /\ rows[r][k] = None
                                         THEN CopyOf(w, k) ELSE rows[r][k]]
  <1>1. CASE GiveUp(w) /\ UNCHANGED rows
    BY <1>1, GiveUpType DEF TypeInv, CopyPrefix
  <1>2. CASE rows' = [rows EXCEPT ![r] = copied] /\ Become(w, change)
    <2>1. change \in WorkerType /\ change.step = "hydrate"
      <3>1. NoRows \in StoredRows
        BY DEF NoRows, StoredRows
      <3> QED
        BY <3>1, WorkerFields DEF WorkerType, Steps
    <2>2. copied \in StoredRows
      <3>1. ASSUME NEW k \in Stages PROVE copied[k] \in Rows \cup {None}
        BY CopyType, WorkerFields DEF CopyPrefix, TypeInv, StoredRows
      <3> QED
        BY <3>1 DEF StoredRows
    <2> HIDE DEF change, copied
    <2>3. rows' \in [Runs -> StoredRows]
      BY <1>2, <2>2 DEF TypeInv
    <2> QED
      BY <1>2, <2>1, <2>3, OneChanges DEF TypeInv, CopyPrefix
  <1> QED
    BY <1>1, <1>2, WorkerFields DEF CopyPrefix, TypeInv, StoredRows

LEMMA HydrateType ==
  ASSUME TypeInv, NEW w \in Workers, Hydrate(w)
  PROVE  TypeInv'
  <1> DEFINE r == worker[w].run
  <1>1. PICK n \in Hydrated(r) :
          Become(w, [worker[w] EXCEPT !.step = "begin", !.next = n + 1, !.chain = Outs(rows[r], n + 1)])
    BY DEF Hydrate
  <1> DEFINE change == [worker[w] EXCEPT !.step = "begin", !.next = n + 1, !.chain = Outs(rows[r], n + 1)]
  <1>2. n + 1 \in Stages
    BY WorkerFields, BoundAssumption DEF Hydrated, TypeInv, Stages, NoStage
  <1>3. Outs(rows[r], n + 1) \in SUBSET (Stages \X Outputs)
    BY <1>2, OutsType, WorkerFields, BoundAssumption DEF TypeInv, Stages
  <1>4. change \in WorkerType /\ change.step = "begin" /\ change.next = n + 1
    <2> DEFINE outs == Outs(rows[r], n + 1)
    <2>1. n + 1 \in 1..(MaxStages + 1)
      BY <1>2, BoundAssumption DEF Stages
    <2>2. outs \in SUBSET (Stages \X Outputs)
      BY <1>3
    <2> HIDE DEF outs
    <2>3. [worker[w] EXCEPT !.step = "begin", !.next = n + 1, !.chain = outs] \in WorkerType
      BY <2>1, <2>2, WorkerFields DEF WorkerType, Steps
    <2>4. change = [worker[w] EXCEPT !.step = "begin", !.next = n + 1, !.chain = outs]
      BY DEF outs
    <2> QED
      BY <2>3, <2>4, WorkerFields DEF WorkerType
  <1>5. Become(w, change)
    BY <1>1
  <1> HIDE DEF change
  <1> QED
    BY <1>2, <1>4, <1>5, OneChanges DEF TypeInv, Hydrate

(* The checkpoint takes what the worker holds.                             *)
LEMMA SaveType ==
  ASSUME TypeInv, NEW w \in Workers, worker' \in [Workers -> WorkerType],
         SaveCheckpoint(w)
  PROVE  checkpoint' \in [Runs -> CheckpointType \cup {None}]
  <1> DEFINE saved == [id |-> worker'[w].id, next |-> worker'[w].next, chain |-> worker'[w].chain]
  <1>1. saved \in CheckpointType
    BY DEF WorkerType, CheckpointType
  <1> HIDE DEF saved
  <1>2. checkpoint' = [checkpoint EXCEPT ![worker[w].run] = saved]
    BY DEF SaveCheckpoint, saved
  <1> QED
    BY <1>1, <1>2 DEF TypeInv

LEMMA BeginType ==
  ASSUME TypeInv, NEW w \in Workers, Begin(w)
  PROVE  TypeInv'
  <1> DEFINE change == [worker[w] EXCEPT !.step = "stage"]
  <1>1. change \in WorkerType /\ change.next = worker[w].next
    BY WorkerFields DEF WorkerType, Steps
  <1>2. Become(w, change) /\ worker[w].next \in Stages
    BY DEF Begin, Busy, TypeInv
  <1> HIDE DEF change
  <1>3. worker' \in [Workers -> WorkerType]
    BY <1>1, <1>2, OneChanges
  <1>4. checkpoint' \in [Runs -> CheckpointType \cup {None}]
    BY <1>3, SaveType DEF Begin, WorkerType, Steps
  <1> QED
    BY <1>1, <1>2, <1>3, <1>4, OneChanges DEF TypeInv, Begin

LEMMA AdoptType ==
  ASSUME TypeInv, NEW w \in Workers, worker[w].next \in Stages,
         NEW output \in Outputs, Adopt(w, output)
  PROVE  /\ worker' \in [Workers -> WorkerType]
         /\ \A v \in Workers : v # w => worker'[v] = worker[v]
         /\ worker'[w].step = "save" /\ worker'[w].next = worker[w].next
         /\ worker'[w].id = output.run /\ worker'[w].run = worker[w].run
         /\ worker'[w].chain = worker[w].chain \cup {<<worker[w].next, output>>}
  <1> DEFINE longer == worker[w].chain \cup {<<worker[w].next, output>>}
             change == [worker[w] EXCEPT !.step = "save", !.id = output.run, !.chain = longer]
  <1>1. longer \in SUBSET (Stages \X Outputs)
    BY WorkerFields
  <1>2. output.run \in Runs
    BY DEF Outputs
  <1> HIDE DEF longer
  <1>3. /\ change \in WorkerType /\ change.step = "save" /\ change.next = worker[w].next
        /\ change.id = output.run /\ change.run = worker[w].run /\ change.chain = longer
    BY <1>1, <1>2, WorkerFields DEF WorkerType, Steps
  <1>4. Become(w, change)
    BY WorkerFields DEF Adopt, longer, WorkerType
  <1> HIDE DEF change
  <1> QED
    BY <1>3, <1>4, OneChanges DEF longer

LEMMA RowType ==
  ASSUME TypeInv, NEW r \in Runs, NEW k \in Stages, rows[r][k] # None
  PROVE  /\ rows[r][k] \in Rows /\ rows[r][k].output \in Outputs
         /\ rows[r][k].input \in Inputs /\ rows[r][k].from \in Runs \cup {NoRun}
  BY DEF TypeInv, StoredRows, Rows

LEMMA LookUpType ==
  ASSUME TypeInv, NEW w \in Workers, LookUp(w)
  PROVE  TypeInv'
  <1> DEFINE row == rows[worker[w].id][worker[w].next]
  <1>1. worker[w].next \in Stages /\ worker[w].id \in Runs /\ Busy(w, "stage")
    BY WorkerFields DEF LookUp, Busy, TypeInv
  <1>2. CASE row = None /\ Become(w, [worker[w] EXCEPT !.step = "compute"])
    <2> DEFINE change == [worker[w] EXCEPT !.step = "compute"]
    <2>1. change \in WorkerType /\ change.next = worker[w].next
      BY WorkerFields DEF WorkerType, Steps
    <2>2. Become(w, change)
      BY <1>2
    <2> HIDE DEF change
    <2> QED
      BY <1>1, <2>1, <2>2, OneChanges DEF TypeInv, LookUp
  <1>3. CASE row # None /\ Adopt(w, row.output)
    BY <1>1, <1>3, RowType, AdoptType DEF TypeInv, LookUp
  <1>4. CASE GiveUp(w)
    BY <1>4, GiveUpType DEF TypeInv, LookUp
  <1> QED
    BY <1>2, <1>3, <1>4 DEF LookUp

(* What a worker stores for a stage it has computed.                       *)
New(w, value, execution) ==
  [input |-> StageInput(worker[w].chain), output |-> [run |-> worker[w].id, value |-> value],
   execution |-> execution, from |-> NoRun]

LEMMA NewType ==
  ASSUME TypeInv, NEW w \in Workers, NEW value \in Values,
         NEW execution \in {"passed", "reused", "other"}
  PROVE  New(w, value, execution) \in Rows /\ New(w, value, execution).output \in Outputs
  <1>1. StageInput(worker[w].chain) \in Inputs
    BY WorkerFields DEF StageInput, Inputs, TypeInv
  <1>2. [run |-> worker[w].id, value |-> value] \in Outputs
    BY WorkerFields DEF Outputs
  <1> QED
    BY <1>1, <1>2 DEF New, Rows

(* The three ways a computed stage ends.                                   *)
LEMMA RecordCases ==
  ASSUME NEW w \in Workers, NEW value, NEW execution, Record(w, value, execution)
  PROVE  LET id == worker[w].id
             k == worker[w].next
             new == New(w, value, execution)
         IN /\ Busy(w, "compute")
            /\ UNCHANGED <<checkpoint, result, attempts, overlapped, target, config, deploys>>
            /\ \/ rows[id][k] = None /\ rows' = [rows EXCEPT ![id][k] = new] /\ Adopt(w, new.output)
               \/ rows[id][k] # None /\ SameSnapshot(rows[id][k], new) /\ rows' = rows
                  /\ Adopt(w, new.output)
               \/ rows' = rows /\ GiveUp(w)
  BY DEF Record, New

LEMMA RecordType ==
  ASSUME TypeInv, NEW w \in Workers, NEW value \in Values,
         NEW execution \in {"passed", "reused", "other"}, Record(w, value, execution)
  PROVE  TypeInv'
  <1> DEFINE id == worker[w].id
             k == worker[w].next
             new == New(w, value, execution)
  <1>1. k \in Stages /\ id \in Runs /\ new \in Rows /\ new.output \in Outputs
    BY RecordCases, WorkerFields, NewType DEF Busy, TypeInv
  <1>2. UNCHANGED <<checkpoint, result, attempts, overlapped, target, config, deploys>>
    BY DEF Record
  <1> HIDE DEF new
  <1>3. CASE rows' = [rows EXCEPT ![id][k] = new] /\ Adopt(w, new.output)
    <2>1. rows' \in [Runs -> StoredRows]
      BY <1>1, <1>3 DEF TypeInv, StoredRows
    <2> QED
      BY <1>1, <1>2, <1>3, <2>1, AdoptType DEF TypeInv
  <1>4. CASE rows' = rows /\ Adopt(w, new.output)
    BY <1>1, <1>2, <1>4, AdoptType DEF TypeInv
  <1>5. CASE rows' = rows /\ GiveUp(w)
    BY <1>2, <1>5, GiveUpType DEF TypeInv
  <1> QED
    BY <1>3, <1>4, <1>5, RecordCases DEF new

LEMMA SaveStepType ==
  ASSUME TypeInv, NEW w \in Workers, Save(w)
  PROVE  TypeInv'
  <1> DEFINE n == worker[w].next
             change == [worker[w] EXCEPT !.next = n + 1,
                          !.step = IF n = MaxStages THEN "persist" ELSE "stage"]
  <1>1. n \in Stages
    BY DEF Save, Busy, TypeInv
  <1>2. n + 1 \in 1..(MaxStages + 1) /\ (n # MaxStages => n + 1 \in Stages)
    BY <1>1, BoundAssumption DEF Stages
  <1>3. /\ change \in WorkerType /\ change.next = n + 1
        /\ change.step = IF n = MaxStages THEN "persist" ELSE "stage"
    BY <1>2, WorkerFields DEF WorkerType, Steps
  <1>4. Become(w, change)
    BY WorkerFields DEF Save, WorkerType
  <1> HIDE DEF change
  <1>5. worker' \in [Workers -> WorkerType]
    BY <1>3, <1>4, OneChanges
  <1>6. checkpoint' \in [Runs -> CheckpointType \cup {None}]
    BY <1>5, SaveType DEF Save
  <1> QED
    BY <1>2, <1>3, <1>4, <1>5, <1>6, OneChanges DEF TypeInv, Save

LEMMA PersistType ==
  ASSUME TypeInv, NEW w \in Workers, Persist(w)
  PROVE  TypeInv'
  <1>1. worker' \in [Workers -> WorkerType] /\ worker'[w].step = "idle"
        /\ \A v \in Workers : v # w => worker'[v] = worker[v]
    BY GiveUpType DEF Persist, GiveUp
  <1>2. result' \in [Runs -> Outputs \cup {None}]
    BY WorkerFields DEF Persist, TypeInv
  <1> QED
    BY <1>1, <1>2 DEF TypeInv, Persist

LEMMA RedeployType ==
  ASSUME TypeInv, NEW c \in Configs, Redeploy(c)
  PROVE  TypeInv'
  <1>1. worker' \in [Workers -> WorkerType] /\ \A w \in Workers : worker'[w].step = "idle"
    BY IdleType DEF Redeploy, Idle
  <1>2. deploys' \in 0..MaxDeploys
    BY BoundAssumption DEF Redeploy, TypeInv
  <1> QED
    BY <1>1, <1>2 DEF TypeInv, Redeploy

LEMMA TypeStep == TypeInv /\ ParentSeen /\ [Next]_vars => TypeInv'
  <1> SUFFICES ASSUME TypeInv, ParentSeen, [Next]_vars PROVE TypeInv'
    OBVIOUS
  <1>1. ASSUME NEW r \in Runs, NEW k \in Stages, CreateTargetedChild(r, k) PROVE TypeInv'
    BY <1>1 DEF TypeInv, CreateTargetedChild
  <1>2. ASSUME NEW w \in Workers, Fail(w) PROVE TypeInv'
    BY <1>2, GiveUpType DEF TypeInv, Fail
  <1>3. CASE UNCHANGED vars
    BY <1>3 DEF TypeInv, vars
  <1> QED
    BY <1>1, <1>2, <1>3, ClaimType, ReadParentType, ReadOwnType, CopyPrefixType, HydrateType,
       BeginType, LookUpType, RecordType, SaveStepType, PersistType, RedeployType DEF Next
-----------------------------------------------------------------------------
(***************************************************************************)
(* A row that was stored stays as it is, and with it what was computed     *)
(* from it.                                                                *)
(***************************************************************************)
RowsKept == \A r \in Runs, k \in Stages : rows[r][k] # None => rows'[r][k] = rows[r][k]

LEMMA KeepsRows == TypeInv /\ [Next]_vars => RowsKept
  <1> SUFFICES ASSUME TypeInv, [Next]_vars PROVE RowsKept
    OBVIOUS
  <1>1. ASSUME NEW w \in Workers, CopyPrefix(w) PROVE RowsKept
    BY <1>1, WorkerFields DEF CopyPrefix, RowsKept, TypeInv, StoredRows
  <1>2. ASSUME NEW w \in Workers, NEW v \in Values, NEW e \in {"passed", "reused", "other"},
               Record(w, v, e)
        PROVE  RowsKept
    <2> DEFINE id == worker[w].id
               k == worker[w].next
    <2>1. PICK new : rows' = rows \/ (rows[id][k] = None /\ rows' = [rows EXCEPT ![id][k] = new])
      BY <1>2, RecordCases
    <2> HIDE DEF id, k
    <2> QED
      BY <2>1 DEF RowsKept, TypeInv, StoredRows
  <1>3. CASE rows' = rows
    BY <1>3 DEF RowsKept
  <1> QED
    BY <1>1, <1>2, <1>3 DEF Next, vars, CreateTargetedChild, Claim, ReadParent, ReadOwn, Hydrate,
       Begin, LookUp, Save, Persist, Fail, Redeploy

(* Rows that follow from each other do so as long as they are kept.        *)
LEMMA LinkedKept ==
  ASSUME NEW old, NEW new, NEW n \in 1..(MaxStages + 1), Linked(old, n),
         \A k \in Stages : old[k] # None => new[k] = old[k]
  PROVE  Linked(new, n) /\ Outs(new, n) = Outs(old, n)
  <1>1. \A k \in 1..(n - 1) : k \in Stages /\ old[k] # None /\ new[k] = old[k]
    BY BoundAssumption DEF Linked, Stages
  <1>2. ASSUME NEW k \in 1..(n - 1) PROVE Outs(new, k) = Outs(old, k)
    <2>1. k \in 1..(MaxStages + 1) /\ \A j \in 1..(k - 1) : j \in 1..(n - 1)
      BY BoundAssumption
    <2> QED
      BY <1>1, <2>1, OutsKept
  <1>3. Outs(new, n) = Outs(old, n)
    BY <1>1, OutsKept
  <1> QED
    BY <1>1, <1>2, <1>3 DEF Linked

LEMMA ChainKept ==
  ASSUME RowsKept, NEW c, NEW r \in Runs, NEW n \in 1..(MaxStages + 1), ChainOf(c, rows[r], n)
  PROVE  ChainOf(c, rows'[r], n)
  BY LinkedKept DEF ChainOf, RowsKept

LEMMA LinkedNext ==
  ASSUME NEW stored, NEW k \in Stages, Linked(stored, k), stored[k] # None,
         stored[k].input.upstream = Outs(stored, k)
  PROVE  Linked(stored, k + 1)
  <1>1. 1..((k + 1) - 1) = (1..(k - 1)) \cup {k}
    BY BoundAssumption DEF Stages
  <1> QED
    BY <1>1 DEF Linked

LEMMA LinkedLast ==
  ASSUME NEW stored, NEW k \in Stages, Linked(stored, k + 1)
  PROVE  /\ Linked(stored, k) /\ stored[k] # None
         /\ stored[k].input.upstream = Outs(stored, k)
  BY BoundAssumption DEF Linked, Stages

(* What a worker adopts continues the chain of the run it then names: the  *)
(* run that computed the row, which a reused row need not belong to.       *)
LEMMA AdoptedChain ==
  ASSUME IInv, NEW i \in Runs, NEW k \in Stages, NEW c, ChainOf(c, rows[i], k),
         rows[i][k] # None, rows[i][k].input.upstream = c
  PROVE  LET q == rows[i][k].output.run IN
         /\ q \in Runs
         /\ ChainOf(c \cup {<<k, rows[i][k].output>>}, rows[q], k + 1)
  <1> DEFINE q == rows[i][k].output.run
  <1>1. /\ q \in Runs /\ rows[q][k] # None /\ rows[q][k].output = rows[i][k].output
        /\ rows[q][k].input = rows[i][k].input /\ Linked(rows[q], k + 1)
    <2>1. CASE rows[i][k].from = NoRun
      <3>1. q = i /\ Linked(rows[i], k + 1)
        BY <2>1 DEF IInv, OwnLinked
      <3> QED
        BY <3>1
    <2>2. CASE rows[i][k].from # NoRun
      <3> DEFINE f == rows[i][k].from
      <3>1. f \in Runs
        BY <2>2, RowType DEF IInv
      <3>2. /\ rows[f][k] # None /\ rows[f][k].from = NoRun
            /\ SameSnapshot(rows[i][k], rows[f][k])
        BY <2>2 DEF IInv, ReusedIsValid
      <3>3. Linked(rows[f], k + 1) /\ rows[f][k].output.run = f
        BY <3>1, <3>2 DEF IInv, OwnLinked
      <3>4. q = f
        BY <3>2, <3>3 DEF SameSnapshot
      <3> QED
        BY <3>1, <3>2, <3>3, <3>4 DEF SameSnapshot
    <2> QED
      BY <2>1, <2>2
  <1>2. Outs(rows[q], k) = c
    BY <1>1, LinkedLast
  <1>3. Outs(rows[q], k + 1) = Outs(rows[q], k) \cup {<<k, rows[q][k].output>>}
    BY <1>1, OutsNext
  <1> QED
    BY <1>1, <1>2, <1>3 DEF ChainOf
-----------------------------------------------------------------------------
(***************************************************************************)
(* Each part of the invariant is kept.                                     *)
(***************************************************************************)

(* Who writes rows: a copied row names its original, a computed one is the *)
(* run's own and continues the chain of the attempt.                       *)
NewRow(r, k) == rows[r][k] = None /\ rows'[r][k] # None

CopiedRow(w, r, k) ==
  /\ CopyPrefix(w) /\ r = worker[w].run /\ k \in Copied(w)
  /\ rows'[r][k] = CopyOf(w, k)

ComputedRow(w, r, k) ==
  /\ Busy(w, "compute") /\ r = worker[w].id /\ k = worker[w].next
  /\ rows'[r][k].from = NoRun /\ rows'[r][k].output.run = r
  /\ rows'[r][k].input.upstream = worker[w].chain
  /\ \A j \in Stages : j # k => rows'[r][j] = rows[r][j]

LEMMA NewRows ==
  ASSUME TypeInv, [Next]_vars, NEW r \in Runs, NEW k \in Stages, NewRow(r, k)
  PROVE  \E w \in Workers : CopiedRow(w, r, k) \/ ComputedRow(w, r, k)
  <1>1. ASSUME NEW w \in Workers, CopyPrefix(w) PROVE CopiedRow(w, r, k)
    BY <1>1, WorkerFields DEF CopyPrefix, CopiedRow, NewRow, TypeInv, StoredRows
  <1>2. ASSUME NEW w \in Workers, NEW v \in Values, NEW e \in {"passed", "reused", "other"},
               Record(w, v, e)
        PROVE  ComputedRow(w, r, k)
    <2> DEFINE new == New(w, v, e)
    <2>1. /\ new.from = NoRun /\ new.output.run = worker[w].id
          /\ new.input.upstream = worker[w].chain
      BY DEF New, StageInput
    <2>2. Busy(w, "compute") /\ rows' = [rows EXCEPT ![worker[w].id][worker[w].next] = new]
      BY <1>2, RecordCases DEF NewRow
    <2>3. /\ r = worker[w].id /\ k = worker[w].next /\ rows'[r][k] = new
          /\ \A j \in Stages : j # k => rows'[r][j] = rows[r][j]
      <3> HIDE DEF new
      <3> DEFINE id == worker[w].id
                 n == worker[w].next
      <3>1. rows' = [rows EXCEPT ![id][n] = new] /\ id \in Runs /\ n \in Stages
        BY <2>2, WorkerFields DEF TypeInv, Busy
      <3> HIDE DEF id, n
      <3>2. r = id /\ k = n
        BY <3>1 DEF NewRow, TypeInv, StoredRows
      <3>3. rows'[r][k] = new /\ \A j \in Stages : j # k => rows'[r][j] = rows[r][j]
        BY <3>1, <3>2 DEF TypeInv, StoredRows
      <3> QED
        BY <3>2, <3>3 DEF id, n
    <2> QED
      BY <2>1, <2>2, <2>3 DEF ComputedRow
  <1>3. rows' # rows
    BY DEF NewRow
  <1> QED
    BY <1>1, <1>2, <1>3 DEF Next, vars, CreateTargetedChild, Claim, ReadParent, ReadOwn, Hydrate,
       Begin, LookUp, Save, Persist, Fail, Redeploy

LEMMA OwnLinkedStep == IInv /\ [Next]_vars => OwnLinked'
  <1> SUFFICES ASSUME IInv, [Next]_vars, NEW r \in Runs, NEW k \in Stages,
                      rows'[r][k] # None, rows'[r][k].from = NoRun
               PROVE  Linked(rows'[r], k + 1) /\ rows'[r][k].output.run = r
    BY DEF OwnLinked
  <1>0. RowsKept
    BY KeepsRows DEF IInv
  <1>1. CASE rows[r][k] # None
    <2>1. rows'[r][k] = rows[r][k]
      BY <1>0, <1>1 DEF RowsKept
    <2>2. Linked(rows[r], k + 1) /\ rows[r][k].output.run = r
      BY <1>1, <2>1 DEF IInv, OwnLinked
    <2>3. k + 1 \in 1..(MaxStages + 1)
      BY BoundAssumption DEF Stages
    <2> QED
      BY <1>0, <2>1, <2>2, <2>3, LinkedKept DEF RowsKept
  <1>2. CASE rows[r][k] = None
    <2>1. PICK w \in Workers : CopiedRow(w, r, k) \/ ComputedRow(w, r, k)
      BY <1>2, NewRows DEF NewRow, IInv
    <2>2. ~CopiedRow(w, r, k)
      <3> SUFFICES ASSUME CopiedRow(w, r, k) PROVE FALSE
        OBVIOUS
      <3>1. CopyOf(w, k) \in Rows /\ CopyOf(w, k).from = Original(r - 1, k)
        BY CopyType DEF IInv, CopiedRow, CopyPrefix, CopyOf
      <3>2. worker[w].parent[k] # None
        BY CopiedFrom DEF IInv, CopiedRow, Reusable
      <3>3. r - 1 \in Runs /\ rows[r - 1][k] # None
        BY <3>2, BoundAssumption DEF IInv, ParentSeen, CopiedRow, CopyPrefix, Runs, Busy
      <3>4. Original(r - 1, k) \in Runs
        BY <3>3, OriginalType DEF IInv
      <3> QED
        BY <3>1, <3>4, NumbersType DEF CopiedRow
    <2>3. ComputedRow(w, r, k)
      BY <2>1, <2>2
    <2>4. ChainOf(worker[w].chain, rows[r], k)
      BY <2>3 DEF IInv, WorkersLinked, Follows, ComputedRow, Busy
    <2>5. ChainOf(worker[w].chain, rows'[r], k)
      BY <1>0, <2>4, ChainKept, BoundAssumption DEF Stages
    <2> QED
      BY <2>3, <2>5, LinkedNext DEF ChainOf, ComputedRow
  <1> QED
    BY <1>1, <1>2

(* A run's target is set when it is created.                               *)
LEMMA TargetKept ==
  ASSUME TypeInv, [Next]_vars, NEW r \in Runs, target[r] # NoStage
  PROVE  target'[r] = target[r]
  <1>1. ASSUME NEW q \in Runs, NEW k \in Stages, CreateTargetedChild(q, k)
        PROVE  target'[r] = target[r]
    BY <1>1 DEF CreateTargetedChild, TypeInv
  <1>2. CASE target' = target
    BY <1>2
  <1> QED
    BY <1>1, <1>2 DEF Next, vars, CopyPrefix, Claim, ReadParent, ReadOwn, Hydrate, Begin,
       LookUp, Record, Save, Persist, Fail, Redeploy

(* Where a copied row comes from.                                          *)
LEMMA CopySource ==
  ASSUME IInv, NEW w \in Workers, Busy(w, "insert"), NEW k \in Copied(w)
  PROVE  LET r == worker[w].run
             f == Original(r - 1, k) IN
         /\ f \in Runs /\ f < r /\ k < target[r]
         /\ rows[f][k] # None /\ rows[f][k].from = NoRun /\ rows[f][k].execution = "passed"
         /\ SameSnapshot(CopyOf(w, k), rows[f][k])
  <1> DEFINE r == worker[w].run
             f == Original(r - 1, k)
             seen == worker[w].parent[k]
  <1>1. k \in Stages /\ k < target[r] /\ Reusable(r, worker[w].parent, k)
    BY CopiedFrom DEF IInv
  <1>2. r \in Runs /\ r - 1 \in Runs /\ rows[r - 1][k] = seen /\ seen # None
    BY <1>1, WorkerFields, BoundAssumption DEF IInv, ParentSeen, Reusable, Runs, Busy
  <1>3. rows[f][k].execution = "passed"
    BY <1>1 DEF Reusable
  <1>4. SameSnapshot(CopyOf(w, k), seen)
    BY <1>1 DEF SameSnapshot, CopyOf, Reusable
  <1>5. CASE seen.from = NoRun
    <2>1. f = r - 1
      BY <1>2, <1>5 DEF Original
    <2> QED
      BY <1>1, <1>2, <1>3, <1>4, <1>5, <2>1 DEF Runs
  <1>6. CASE seen.from # NoRun
    <2>1. f = seen.from
      BY <1>2, <1>6 DEF Original
    <2>2. f \in Runs
      BY <1>1, <1>2, OriginalType DEF IInv
    <2>3. /\ f < r - 1 /\ rows[f][k] # None /\ rows[f][k].from = NoRun
          /\ SameSnapshot(seen, rows[f][k])
      BY <1>1, <1>2, <1>6, <2>1 DEF IInv, ReusedIsValid
    <2> QED
      BY <1>1, <1>2, <1>3, <1>4, <2>2, <2>3 DEF SameSnapshot, Runs
  <1> QED
    BY <1>5, <1>6

LEMMA ReusedStep == IInv /\ [Next]_vars => ReusedIsValid'
  <1> SUFFICES ASSUME IInv, [Next]_vars, NEW r \in Runs, NEW k \in Stages,
                      rows'[r][k] # None, rows'[r][k].from # NoRun
               PROVE  LET f == rows'[r][k].from IN
                      /\ k < target'[r] /\ f < r
                      /\ rows'[f][k] # None /\ rows'[f][k].from = NoRun
                      /\ rows'[f][k].execution = "passed"
                      /\ SameSnapshot(rows'[r][k], rows'[f][k])
    BY DEF ReusedIsValid
  <1> DEFINE f == rows'[r][k].from
  <1>0. RowsKept
    BY KeepsRows DEF IInv
  <1>1. /\ f \in Runs /\ k < target[r] /\ f < r
        /\ rows[f][k] # None /\ rows[f][k].from = NoRun /\ rows[f][k].execution = "passed"
        /\ SameSnapshot(rows'[r][k], rows[f][k])
    <2>1. CASE rows[r][k] # None
      <3>1. rows'[r][k] = rows[r][k]
        BY <1>0, <2>1 DEF RowsKept
      <3>2. f \in Runs
        BY <2>1, <3>1, RowType DEF IInv
      <3> QED
        BY <2>1, <3>1, <3>2 DEF IInv, ReusedIsValid
    <2>2. CASE rows[r][k] = None
      <3>1. PICK w \in Workers : CopiedRow(w, r, k)
        BY <2>2, NewRows DEF NewRow, IInv, ComputedRow
      <3>2. Busy(w, "insert") /\ k \in Copied(w) /\ r = worker[w].run
            /\ rows'[r][k] = CopyOf(w, k)
        BY <3>1 DEF CopiedRow, CopyPrefix
      <3>3. f = Original(r - 1, k)
        BY <3>2 DEF CopyOf
      <3> QED
        BY <3>2, <3>3, CopySource
    <2> QED
      BY <2>1, <2>2
  <1>2. rows'[f][k] = rows[f][k]
    BY <1>0, <1>1 DEF RowsKept
  <1>3. target'[r] = target[r]
    BY <1>1, TargetKept DEF IInv, TypeInv, NoStage, Stages
  <1> QED
    BY <1>1, <1>2, <1>3

(* Between its reads and the copy an attempt keeps what it read of the     *)
(* parent.                                                                 *)
ParentRead(v) ==
  LET r == worker[v].run IN
  worker'[v].parent = IF r = 1 THEN NoRows ELSE rows[r - 1]

LEMMA ParentMoves ==
  ASSUME IInv, [Next]_vars, NEW v \in Workers, worker'[v].step \in {"own", "insert"}
  PROVE  /\ worker'[v].run = worker[v].run
         /\ \/ ParentRead(v) /\ rows' = rows
            \/ worker'[v].parent = worker[v].parent /\ worker[v].step \in {"own", "insert"}
  <1>1. CASE ReadParent(v)
    <2> DEFINE r == worker[v].run
               read == IF r = 1 THEN NoRows ELSE rows[r - 1]
               change == [worker[v] EXCEPT !.step = "own", !.parent = read]
    <2>1. Become(v, change) /\ rows' = rows
      BY <1>1 DEF ReadParent
    <2>2. change.run = r /\ change.parent = read
      BY WorkerFields DEF IInv, WorkerType
    <2> HIDE DEF change
    <2> QED
      BY <2>1, <2>2, OneChanges DEF IInv, ParentRead
  <1>2. CASE ReadOwn(v)
    <2> DEFINE change == [worker[v] EXCEPT !.step = "insert",
                            !.mine = {j \in Stages : rows[worker[v].run][j] # None}]
    <2>1. Become(v, change)
      BY <1>2 DEF ReadOwn
    <2>2. change.run = worker[v].run /\ change.parent = worker[v].parent
      BY WorkerFields DEF IInv, WorkerType
    <2> HIDE DEF change
    <2> QED
      BY <1>2, <2>1, <2>2, OneChanges DEF IInv, ReadOwn, Busy
  <1>3. worker'[v] = worker[v] \/ ReadParent(v) \/ ReadOwn(v)
    <2>1. ASSUME NEW w \in Workers, NEW change, Become(w, change),
                 change.step \notin {"own", "insert"}
          PROVE  worker'[v] = worker[v]
      BY <2>1, OneChanges DEF IInv
    <2>2. ASSUME NEW w \in Workers, NEW r \in Runs, Claim(w, r) PROVE worker'[v] = worker[v]
      <3>1. CASE checkpoint[r] = None
        BY <2>2, <3>1, <2>1 DEF Claim, Idle
      <3>2. CASE checkpoint[r] # None
        <4> DEFINE c == checkpoint[r]
                   change == [Idle EXCEPT
                     !.step = IF c.next > MaxStages THEN "persist" ELSE "stage",
                     !.run = r, !.id = c.id, !.next = c.next, !.chain = c.chain]
        <4>1. Become(w, change)
          BY <2>2, <3>2 DEF Claim
        <4>2. change.step = IF c.next > MaxStages THEN "persist" ELSE "stage"
          BY DEF Idle
        <4> HIDE DEF change
        <4> QED
          BY <2>1, <4>1, <4>2
      <3> QED
        BY <3>1, <3>2
    <2>3. ASSUME NEW w \in Workers, GiveUp(w) PROVE worker'[v] = worker[v]
      BY <2>3, <2>1 DEF GiveUp, Idle
    <2>4. ASSUME NEW w \in Workers, ReadParent(w)
          PROVE  worker'[v] = worker[v] \/ ReadParent(v)
      BY <2>4, OneChanges, ZenonT(30) DEF ReadParent, IInv
    <2>17. ASSUME NEW w \in Workers, ReadOwn(w)
           PROVE  worker'[v] = worker[v] \/ ReadOwn(v)
      BY <2>17, OneChanges, ZenonT(30) DEF ReadOwn, IInv
    <2>5. ASSUME NEW w \in Workers, CopyPrefix(w) PROVE worker'[v] = worker[v]
      BY <2>5, <2>1, <2>3, WorkerFields DEF CopyPrefix, IInv, WorkerType
    <2>6. ASSUME NEW w \in Workers, Hydrate(w) PROVE worker'[v] = worker[v]
      BY <2>6, <2>1, WorkerFields DEF Hydrate, IInv, WorkerType
    <2>7. ASSUME NEW w \in Workers, Begin(w) PROVE worker'[v] = worker[v]
      BY <2>7, <2>1, WorkerFields DEF Begin, IInv, WorkerType
    <2>8. ASSUME NEW w \in Workers, NEW output, Adopt(w, output) PROVE worker'[v] = worker[v]
      BY <2>8, <2>1, WorkerFields DEF Adopt, IInv, WorkerType
    <2>9. ASSUME NEW w \in Workers, LookUp(w) PROVE worker'[v] = worker[v]
      <3>1. CASE Become(w, [worker[w] EXCEPT !.step = "compute"])
        BY <3>1, <2>1, WorkerFields DEF IInv, WorkerType
      <3> QED
        BY <2>9, <3>1, <2>3, <2>8 DEF LookUp
    <2>10. ASSUME NEW w \in Workers, NEW x \in Values, NEW e \in {"passed", "reused", "other"},
                  Record(w, x, e)
           PROVE  worker'[v] = worker[v]
      BY <2>10, <2>3, <2>8, RecordCases
    <2>11. ASSUME NEW w \in Workers, Save(w) PROVE worker'[v] = worker[v]
      <3> DEFINE change == [worker[w] EXCEPT !.next = worker[w].next + 1,
                              !.step = IF worker[w].next = MaxStages THEN "persist" ELSE "stage"]
      <3>1. Become(w, change)
        BY <2>11, WorkerFields DEF Save, IInv, WorkerType
      <3>2. change.step = IF worker[w].next = MaxStages THEN "persist" ELSE "stage"
        BY WorkerFields DEF IInv, WorkerType
      <3> HIDE DEF change
      <3> QED
        BY <2>1, <3>1, <3>2
    <2>12. ASSUME NEW w \in Workers, Persist(w) PROVE worker'[v] = worker[v]
      BY <2>12, <2>1 DEF Persist, Idle
    <2>13. ASSUME NEW c \in Configs, Redeploy(c) PROVE worker'[v] = worker[v]
      BY <2>13 DEF Redeploy, Idle
    <2>14. ASSUME worker' = worker PROVE worker'[v] = worker[v]
      BY <2>14
    <2>15. ASSUME NEW w \in Workers, Fail(w) PROVE worker'[v] = worker[v]
      BY <2>15, <2>3 DEF Fail
    <2>16. ASSUME NEW r \in Runs, NEW j \in Stages, CreateTargetedChild(r, j)
           PROVE worker'[v] = worker[v]
      BY <2>16 DEF CreateTargetedChild
    <2> QED
      BY <2>2, <2>4, <2>5, <2>6, <2>7, <2>9, <2>10, <2>11, <2>12, <2>13, <2>14, <2>15, <2>16,
         <2>17 DEF Next, vars
  <1> QED
    BY <1>1, <1>2, <1>3

LEMMA ParentSeenStep == IInv /\ [Next]_vars => ParentSeen'
  <1> SUFFICES ASSUME IInv, [Next]_vars, NEW v \in Workers,
                      worker'[v].step \in {"own", "insert"},
                      NEW k \in Stages, worker'[v].parent[k] # None
               PROVE  /\ worker'[v].run > 1
                      /\ rows'[worker'[v].run - 1][k] = worker'[v].parent[k]
    BY DEF ParentSeen, Busy
  <1>0. RowsKept /\ worker'[v].run = worker[v].run
    BY KeepsRows, ParentMoves DEF IInv
  <1>1. CASE worker'[v].parent = worker[v].parent /\ worker[v].step \in {"own", "insert"}
    <2>1. /\ worker[v].run > 1 /\ rows[worker[v].run - 1][k] = worker[v].parent[k]
          /\ worker[v].parent[k] # None
      BY <1>1 DEF IInv, ParentSeen
    <2>2. worker[v].run - 1 \in Runs
      BY <2>1, WorkerFields, BoundAssumption DEF IInv, Runs
    <2> QED
      BY <1>0, <1>1, <2>1, <2>2 DEF RowsKept
  <1>2. CASE ParentRead(v) /\ rows' = rows
    <2>1. worker[v].run # 1
      BY <1>2 DEF ParentRead, NoRows
    <2> QED
      BY <1>0, <1>2, <2>1, WorkerFields, BoundAssumption DEF IInv, Runs, ParentRead
  <1> QED
    BY <1>1, <1>2, ParentMoves

(* An attempt that does not move keeps following its run.                  *)
LEMMA FollowsKept ==
  ASSUME IInv, RowsKept, NEW v \in Workers, worker'[v] = worker[v]
  PROVE  Follows(v)'
  <1>1. Follows(v) /\ worker[v].id \in Runs
    BY WorkerFields DEF IInv, WorkersLinked
  <1>2. ASSUME NEW n \in 1..(MaxStages + 1), ChainOf(worker[v].chain, rows[worker[v].id], n)
        PROVE  ChainOf(worker[v].chain, rows'[worker[v].id], n)
    BY <1>1, <1>2, ChainKept
  <1>3. /\ worker[v].next \in 1..(MaxStages + 1)
        /\ Busy(v, "save") => worker[v].next + 1 \in 1..(MaxStages + 1)
    BY WorkerFields, BoundAssumption DEF IInv, TypeInv, Busy, Stages
  <1>4. MaxStages + 1 \in 1..(MaxStages + 1)
    BY BoundAssumption
  <1> QED
    BY <1>1, <1>2, <1>3, <1>4 DEF Follows, Busy

LEMMA FollowsAtRest ==
  ASSUME NEW v, worker'[v].step \in {"idle", "prefix", "own", "insert", "hydrate"},
         worker'[v].step = "idle" \/ worker'[v].id = worker'[v].run
  PROVE  Follows(v)'
  BY DEF Follows, Busy

(* The step that takes worker w on, and leaves every other as it is.       *)
LEMMA FollowsStep ==
  ASSUME IInv, RowsKept, NEW w \in Workers, Follows(w)',
         \A v \in Workers : v # w => worker'[v] = worker[v]
  PROVE  WorkersLinked'
  BY FollowsKept DEF WorkersLinked

LEMMA ClaimFollows ==
  ASSUME IInv, RowsKept, NEW w \in Workers, NEW r \in Runs, Claim(w, r)
  PROVE  WorkersLinked'
  <1>1. CASE checkpoint[r] = None
    <2> DEFINE change == [Idle EXCEPT !.step = "prefix", !.run = r, !.id = r]
    <2>1. Become(w, change)
      BY <1>1 DEF Claim
    <2>2. change.step = "prefix" /\ change.run = r /\ change.id = r
      BY DEF Idle
    <2> HIDE DEF change
    <2>3. worker'[w].step = "prefix" /\ worker'[w].id = worker'[w].run
          /\ \A v \in Workers : v # w => worker'[v] = worker[v]
      BY <2>1, <2>2, OneChanges DEF IInv
    <2> QED
      BY <2>3, FollowsAtRest, FollowsStep
  <1>2. CASE checkpoint[r] # None
    <2> DEFINE c == checkpoint[r]
               step == IF c.next > MaxStages THEN "persist" ELSE "stage"
               change == [Idle EXCEPT !.step = step,
                            !.run = r, !.id = c.id, !.next = c.next, !.chain = c.chain]
    <2>1. Become(w, change) /\ rows' = rows
      BY <1>2 DEF Claim
    <2>2. change.step = step /\ change.id = c.id /\ change.next = c.next /\ change.chain = c.chain
      BY DEF Idle
    <2> HIDE DEF change
    <2>3. /\ worker'[w].step = step /\ worker'[w].id = c.id
          /\ worker'[w].next = c.next /\ worker'[w].chain = c.chain
          /\ \A v \in Workers : v # w => worker'[v] = worker[v]
      BY <2>1, <2>2, OneChanges DEF IInv
    <2>4. ChainOf(c.chain, rows[c.id], c.next) /\ c.next \in 1..(MaxStages + 1)
      BY <1>2 DEF IInv, CheckpointsLinked, TypeInv, CheckpointType
    <2>5. c.next > MaxStages => c.next = MaxStages + 1
      BY <2>4, BoundAssumption
    <2>6. Follows(w)'
      BY <2>1, <2>3, <2>4, <2>5 DEF Follows, Busy
    <2> QED
      BY <2>3, <2>6, FollowsStep
  <1> QED
    BY <1>1, <1>2

LEMMA HydrateFollows ==
  ASSUME IInv, RowsKept, NEW w \in Workers, Hydrate(w)
  PROVE  WorkersLinked'
  <1> DEFINE r == worker[w].run
  <1>1. PICK n \in Hydrated(r) :
          Become(w, [worker[w] EXCEPT !.step = "begin", !.next = n + 1, !.chain = Outs(rows[r], n + 1)])
    BY DEF Hydrate
  <1> DEFINE outs == Outs(rows[r], n + 1)
             change == [worker[w] EXCEPT !.step = "begin", !.next = n + 1, !.chain = outs]
  <1>2. /\ change.step = "begin" /\ change.next = n + 1 /\ change.chain = outs
        /\ change.id = worker[w].id /\ change.run = r
    <2> HIDE DEF outs
    <2> QED
      BY WorkerFields DEF IInv, WorkerType
  <1>3. Become(w, change) /\ rows' = rows
    BY <1>1 DEF Hydrate
  <1>4. worker[w].id = r
    BY DEF IInv, WorkersLinked, Follows, Hydrate, Busy
  <1>5. Linked(rows[r], n + 1)
    <2>1. n \in Nat /\ (n + 1) - 1 = n
      BY WorkerFields DEF Hydrated, IInv, TypeInv, NoStage, Stages
    <2>2. \A k \in 1..n : rows[r][k] # None /\ rows[r][k].input.upstream = Outs(rows[r], k)
      <3>1. \A x : StageInput(x).upstream = x
        BY DEF StageInput
      <3>2. \A k \in 1..n : rows[r][k] # None /\ rows[r][k].input = StageInput(Outs(rows[r], k))
        BY DEF Hydrated
      <3> QED
        BY <3>1, <3>2
    <2> QED
      BY <2>1, <2>2 DEF Linked
  <1> HIDE DEF change
  <1> QED
    BY <1>2, <1>3, <1>4, <1>5, OneChanges, FollowsStep DEF IInv, Follows, Busy, ChainOf

LEMMA LookUpFollows ==
  ASSUME IInv, RowsKept, NEW w \in Workers, LookUp(w)
  PROVE  WorkersLinked'
  <1> DEFINE i == worker[w].id
             k == worker[w].next
             row == rows[i][k]
  <1>1. k \in Stages /\ i \in Runs /\ rows' = rows /\ ChainOf(worker[w].chain, rows[i], k)
    BY WorkerFields DEF IInv, LookUp, Busy, TypeInv, WorkersLinked, Follows
  <1>2. CASE Become(w, [worker[w] EXCEPT !.step = "compute"])
    <2> DEFINE change == [worker[w] EXCEPT !.step = "compute"]
    <2>1. /\ change.step = "compute" /\ change.id = i /\ change.next = k
          /\ change.chain = worker[w].chain
      BY WorkerFields DEF IInv, WorkerType
    <2>2. Become(w, change)
      BY <1>2
    <2> HIDE DEF change
    <2>3. worker'[w] = change /\ \A v \in Workers : v # w => worker'[v] = worker[v]
      BY <2>2, OneChanges DEF IInv
    <2>4. Follows(w)'
      BY <1>1, <2>1, <2>3 DEF Follows, Busy
    <2> QED
      BY <2>3, <2>4, FollowsStep
  <1>3. CASE row # None /\ Replays(w, row) /\ Adopt(w, row.output)
    <2>1. row.input.upstream = worker[w].chain /\ row.output \in Outputs
      BY <1>1, <1>3, RowType DEF Replays, StageInput, IInv
    <2> DEFINE q == row.output.run
    <2>2. q \in Runs /\ ChainOf(worker[w].chain \cup {<<k, row.output>>}, rows[q], k + 1)
      BY <1>1, <1>3, <2>1, AdoptedChain
    <2>3. /\ worker'[w].step = "save" /\ worker'[w].next = k /\ worker'[w].id = q
          /\ worker'[w].chain = worker[w].chain \cup {<<k, row.output>>}
          /\ \A v \in Workers : v # w => worker'[v] = worker[v]
      BY <1>1, <1>3, <2>1, AdoptType DEF IInv
    <2>4. Follows(w)'
      BY <1>1, <2>2, <2>3 DEF Follows, Busy
    <2> QED
      BY <2>3, <2>4, FollowsStep
  <1>4. CASE GiveUp(w)
    BY <1>4, GiveUpType, FollowsAtRest, FollowsStep DEF IInv
  <1> QED
    BY <1>2, <1>3, <1>4 DEF LookUp

LEMMA RecordFollows ==
  ASSUME IInv, RowsKept, NEW w \in Workers, NEW value \in Values,
         NEW execution \in {"passed", "reused", "other"}, Record(w, value, execution)
  PROVE  WorkersLinked'
  <1> DEFINE id == worker[w].id
             k == worker[w].next
             new == New(w, value, execution)
             longer == worker[w].chain \cup {<<k, new.output>>}
  <1>1. k \in Stages /\ id \in Runs /\ new \in Rows /\ new.output \in Outputs /\ new # None
    <2>1. Busy(w, "compute") /\ TypeInv
      BY RecordCases DEF IInv
    <2> QED
      BY <2>1, WorkerFields, NewType, NoneIsNoRecord DEF Busy, TypeInv
  <1>2. new.output.run = id /\ new.input.upstream = worker[w].chain
    BY DEF New, StageInput
  <1>3. ChainOf(worker[w].chain, rows[id], k)
    BY RecordCases DEF IInv, WorkersLinked, Follows, Busy
  <1> HIDE DEF new
  <1>4. CASE ChainOf(longer, rows'[id], k + 1) /\ Adopt(w, new.output)
    <2>1. /\ worker'[w].step = "save" /\ worker'[w].next = k /\ worker'[w].id = id
          /\ worker'[w].chain = longer
          /\ \A v \in Workers : v # w => worker'[v] = worker[v]
      BY <1>1, <1>2, <1>4, AdoptType DEF IInv
    <2>2. Follows(w)'
      BY <1>4, <2>1 DEF Follows, Busy
    <2> QED
      BY <2>1, <2>2, FollowsStep
  <1>5. CASE rows[id][k] = None /\ rows' = [rows EXCEPT ![id][k] = new] /\ Adopt(w, new.output)
    <2>1. rows'[id][k] = new
      BY <1>1, <1>5 DEF IInv, TypeInv, StoredRows
    <2>2. ChainOf(worker[w].chain, rows'[id], k)
      BY <1>1, <1>3, ChainKept, BoundAssumption DEF Stages
    <2>3. Linked(rows'[id], k + 1)
      BY <1>1, <1>2, <2>1, <2>2, LinkedNext DEF ChainOf
    <2>4. Outs(rows'[id], k + 1) = longer
      BY <1>1, <2>1, <2>2, OutsNext DEF ChainOf
    <2> QED
      BY <1>4, <1>5, <2>3, <2>4 DEF ChainOf
  <1>6. CASE /\ rows[id][k] # None /\ SameSnapshot(rows[id][k], new) /\ rows' = rows
             /\ Adopt(w, new.output)
    <2>1. /\ rows[id][k].input.upstream = worker[w].chain
          /\ rows[id][k].output = new.output /\ rows[id][k].output.run = id
      BY <1>2, <1>6, SMTT(30) DEF SameSnapshot
    <2>2. ChainOf(longer, rows[id], k + 1)
      BY <1>1, <1>3, <1>6, <2>1, AdoptedChain
    <2> QED
      BY <1>4, <1>6, <2>2
  <1>7. CASE GiveUp(w)
    BY <1>7, GiveUpType, FollowsAtRest, FollowsStep DEF IInv
  <1> QED
    BY <1>5, <1>6, <1>7, RecordCases DEF new

LEMMA SaveFollows ==
  ASSUME IInv, RowsKept, NEW w \in Workers, Save(w)
  PROVE  /\ WorkersLinked'
         /\ ChainOf(worker'[w].chain, rows'[worker'[w].id], worker'[w].next)
  <1> DEFINE n == worker[w].next
             step == IF n = MaxStages THEN "persist" ELSE "stage"
             change == [worker[w] EXCEPT !.next = n + 1, !.step = step]
  <1>1. change.step = step /\ change.next = n + 1 /\ change.id = worker[w].id
        /\ change.chain = worker[w].chain
    <2> HIDE DEF step
    <2> QED
      BY WorkerFields DEF IInv, WorkerType
  <1>2. Become(w, change) /\ rows' = rows
    BY WorkerFields DEF Save, IInv, WorkerType
  <1> HIDE DEF change
  <1>3. worker'[w] = change /\ \A v \in Workers : v # w => worker'[v] = worker[v]
    BY <1>2, OneChanges DEF IInv
  <1>4. ChainOf(worker[w].chain, rows[worker[w].id], n + 1)
    BY DEF Save, IInv, WorkersLinked, Follows
  <1>5. Follows(w)'
    BY <1>1, <1>2, <1>3, <1>4 DEF Follows, Busy
  <1> QED
    BY <1>1, <1>2, <1>3, <1>4, <1>5, FollowsStep

LEMMA BeginFollows ==
  ASSUME IInv, RowsKept, NEW w \in Workers, Begin(w)
  PROVE  /\ WorkersLinked'
         /\ ChainOf(worker'[w].chain, rows'[worker'[w].id], worker'[w].next)
  <1> DEFINE change == [worker[w] EXCEPT !.step = "stage"]
  <1>1. change.step = "stage" /\ change.next = worker[w].next /\ change.id = worker[w].id
        /\ change.chain = worker[w].chain
    BY WorkerFields DEF IInv, WorkerType
  <1>2. Become(w, change) /\ rows' = rows
    BY DEF Begin
  <1> HIDE DEF change
  <1>3. worker'[w] = change /\ \A v \in Workers : v # w => worker'[v] = worker[v]
    BY <1>2, OneChanges DEF IInv
  <1>4. ChainOf(worker[w].chain, rows[worker[w].id], worker[w].next)
    BY DEF Begin, IInv, WorkersLinked, Follows, Busy
  <1>5. Follows(w)'
    BY <1>1, <1>2, <1>3, <1>4 DEF Follows, Busy
  <1> QED
    BY <1>1, <1>2, <1>3, <1>4, <1>5, FollowsStep

LEMMA WorkersStep == IInv /\ [Next]_vars => WorkersLinked'
  <1> SUFFICES ASSUME IInv, [Next]_vars PROVE WorkersLinked'
    OBVIOUS
  <1>0. RowsKept
    BY KeepsRows DEF IInv
  <1>1. ASSUME worker' = worker PROVE WorkersLinked'
    BY <1>0, <1>1, FollowsKept DEF WorkersLinked
  <1>2. ASSUME NEW w \in Workers, ReadParent(w) PROVE WorkersLinked'
    <2> DEFINE r == worker[w].run
               read == IF r = 1 THEN NoRows ELSE rows[r - 1]
               change == [worker[w] EXCEPT !.step = "own", !.parent = read]
    <2>1. Become(w, change)
      BY <1>2 DEF ReadParent
    <2>2. change.step = "own" /\ change.id = worker[w].id /\ change.run = r
      BY WorkerFields DEF IInv, WorkerType
    <2>3. worker[w].id = r
      BY <1>2 DEF IInv, WorkersLinked, Follows, ReadParent, Busy
    <2> HIDE DEF change
    <2>4. worker'[w] = change /\ \A v \in Workers : v # w => worker'[v] = worker[v]
      BY <2>1, OneChanges DEF IInv
    <2> QED
      BY <1>0, <2>2, <2>3, <2>4, FollowsAtRest, FollowsStep
  <1>3. ASSUME NEW w \in Workers, CopyPrefix(w) PROVE WorkersLinked'
    <2> DEFINE change == [worker[w] EXCEPT !.step = "hydrate", !.parent = NoRows, !.mine = {}]
    <2>1. CASE Become(w, change)
      <3>1. change.step = "hydrate" /\ change.id = worker[w].id /\ change.run = worker[w].run
        BY WorkerFields DEF IInv, WorkerType
      <3>2. worker[w].id = worker[w].run
        BY <1>3 DEF IInv, WorkersLinked, Follows, CopyPrefix, Busy
      <3> HIDE DEF change
      <3>3. worker'[w] = change /\ \A v \in Workers : v # w => worker'[v] = worker[v]
        BY <2>1, OneChanges DEF IInv
      <3> QED
        BY <1>0, <3>1, <3>2, <3>3, FollowsAtRest, FollowsStep
    <2>2. CASE GiveUp(w)
      BY <1>0, <2>2, GiveUpType, FollowsAtRest, FollowsStep DEF IInv
    <2> QED
      BY <1>3, <2>1, <2>2 DEF CopyPrefix
  <1>4. ASSUME NEW w \in Workers, GiveUp(w) PROVE WorkersLinked'
    BY <1>0, <1>4, GiveUpType, FollowsAtRest, FollowsStep DEF IInv
  <1>5. ASSUME NEW c \in Configs, Redeploy(c) PROVE WorkersLinked'
    <2>1. \A w \in Workers : worker'[w].step = "idle"
      BY <1>5 DEF Redeploy, Idle
    <2> QED
      BY <2>1, FollowsAtRest DEF WorkersLinked
  <1>6. ASSUME NEW r \in Runs, NEW j \in Stages, CreateTargetedChild(r, j) PROVE WorkersLinked'
    BY <1>1, <1>6 DEF CreateTargetedChild
  <1>7. ASSUME NEW w \in Workers, Persist(w) \/ Fail(w) PROVE WorkersLinked'
    BY <1>4, <1>7 DEF Persist, Fail, GiveUp
  <1>8. ASSUME NEW w \in Workers, ReadOwn(w) PROVE WorkersLinked'
    <2> DEFINE change == [worker[w] EXCEPT !.step = "insert",
                            !.mine = {j \in Stages : rows[worker[w].run][j] # None}]
    <2>1. Become(w, change)
      BY <1>8 DEF ReadOwn
    <2>2. change.step = "insert" /\ change.id = worker[w].id /\ change.run = worker[w].run
      BY WorkerFields DEF IInv, WorkerType
    <2>3. worker[w].id = worker[w].run
      BY <1>8 DEF IInv, WorkersLinked, Follows, ReadOwn, Busy
    <2> HIDE DEF change
    <2>4. worker'[w] = change /\ \A v \in Workers : v # w => worker'[v] = worker[v]
      BY <2>1, OneChanges DEF IInv
    <2> QED
      BY <1>0, <2>2, <2>3, <2>4, FollowsAtRest, FollowsStep
  <1> QED
    BY <1>0, <1>1, <1>2, <1>3, <1>5, <1>6, <1>7, <1>8, ClaimFollows, HydrateFollows, BeginFollows,
       LookUpFollows, RecordFollows, SaveFollows DEF Next, vars

LEMMA CheckpointsStep == IInv /\ [Next]_vars => CheckpointsLinked'
  <1> SUFFICES ASSUME IInv, [Next]_vars, NEW r \in Runs, checkpoint'[r] # None
               PROVE  ChainOf(checkpoint'[r].chain, rows'[checkpoint'[r].id], checkpoint'[r].next)
    BY DEF CheckpointsLinked
  <1>0. RowsKept
    BY KeepsRows DEF IInv
  <1>1. CASE checkpoint'[r] = checkpoint[r]
    <2>1. checkpoint[r] \in CheckpointType
      BY <1>1 DEF IInv, TypeInv
    <2>2. checkpoint[r].id \in Runs /\ checkpoint[r].next \in 1..(MaxStages + 1)
      BY <2>1 DEF CheckpointType
    <2> QED
      BY <1>0, <1>1, <2>2, ChainKept DEF IInv, CheckpointsLinked
  <1>2. ASSUME NEW w \in Workers, SaveCheckpoint(w), r = worker[w].run,
               ChainOf(worker'[w].chain, rows'[worker'[w].id], worker'[w].next)
        PROVE  ChainOf(checkpoint'[r].chain, rows'[checkpoint'[r].id], checkpoint'[r].next)
    BY <1>2 DEF SaveCheckpoint, IInv, TypeInv
  <1>3. ASSUME NEW w \in Workers, SaveCheckpoint(w), r # worker[w].run
        PROVE  checkpoint'[r] = checkpoint[r]
    BY <1>3 DEF SaveCheckpoint, IInv, TypeInv
  <1>4. ASSUME NEW w \in Workers, Begin(w) \/ Save(w)
        PROVE  ChainOf(checkpoint'[r].chain, rows'[checkpoint'[r].id], checkpoint'[r].next)
    BY <1>0, <1>1, <1>2, <1>3, <1>4, BeginFollows, SaveFollows DEF Begin, Save
  <1> QED
    BY <1>1, <1>4, ZenonT(30) DEF Next, vars, CreateTargetedChild, Claim, ReadParent, ReadOwn,
       CopyPrefix, Hydrate, LookUp, Record, Persist, Fail, Redeploy

LEMMA ResultsStep == IInv /\ [Next]_vars => ResultsLinked'
  <1> SUFFICES ASSUME IInv, [Next]_vars, NEW r \in Runs, result'[r] # None
               PROVE  Linked(rows'[r], MaxStages + 1) /\ result'[r] = rows'[r][MaxStages].output
    BY DEF ResultsLinked
  <1>0. RowsKept
    BY KeepsRows DEF IInv
  <1>1. MaxStages \in Stages /\ MaxStages + 1 \in 1..(MaxStages + 1)
    BY BoundAssumption DEF Stages
  <1>2. CASE result'[r] = result[r]
    <2>1. Linked(rows[r], MaxStages + 1) /\ result[r] = rows[r][MaxStages].output
      BY <1>2 DEF IInv, ResultsLinked
    <2>2. rows'[r][MaxStages] = rows[r][MaxStages]
      BY <1>0, <1>1, <2>1, LinkedLast DEF RowsKept
    <2> QED
      BY <1>0, <1>1, <1>2, <2>1, <2>2, LinkedKept DEF RowsKept
  <1>3. ASSUME NEW w \in Workers, Persist(w), r = worker[w].id
        PROVE  Linked(rows'[r], MaxStages + 1) /\ result'[r] = rows'[r][MaxStages].output
    <2>1. PICK o \in Outputs :
            <<MaxStages, o>> \in worker[w].chain /\ result' = [result EXCEPT ![r] = o]
      BY <1>3 DEF Persist
    <2>2. ChainOf(worker[w].chain, rows[r], MaxStages + 1)
      BY <1>3 DEF Persist, IInv, WorkersLinked, Follows
    <2>3. o = rows[r][MaxStages].output
      BY <2>1, <2>2 DEF ChainOf, Outs
    <2> QED
      BY <1>3, <2>1, <2>2, <2>3 DEF Persist, ChainOf, IInv, TypeInv
  <1>4. ASSUME NEW w \in Workers, Persist(w), r # worker[w].id
        PROVE  result'[r] = result[r]
    BY <1>4, WorkerFields DEF Persist, IInv, TypeInv
  <1> QED
    BY <1>2, <1>3, <1>4 DEF Next, vars, CreateTargetedChild, Claim, ReadParent, ReadOwn, CopyPrefix,
       Hydrate, Begin, LookUp, Record, Save, Fail, Redeploy
-----------------------------------------------------------------------------
LEMMA InitInv == Init => IInv
  <1> SUFFICES ASSUME Init PROVE IInv
    OBVIOUS
  <1>1. TypeInv
    BY TypeInit
  <1>2. \A r \in Runs, k \in Stages : rows[r][k] = None
    BY DEF Init, NoRows
  <1>3. \A w \in Workers : worker[w].step = "idle"
    BY DEF Init, Idle
  <1>4. \A r \in Runs : checkpoint[r] = None /\ result[r] = None
    BY DEF Init
  <1>5. OwnLinked /\ ReusedIsValid
    BY <1>2 DEF OwnLinked, ReusedIsValid
  <1>6. ParentSeen /\ WorkersLinked
    BY <1>3 DEF ParentSeen, WorkersLinked, Follows, Busy
  <1>7. CheckpointsLinked /\ ResultsLinked
    BY <1>4 DEF CheckpointsLinked, ResultsLinked
  <1> QED
    BY <1>1, <1>5, <1>6, <1>7 DEF IInv

(* The invariant the results below rest on: an attempt, a checkpoint and a *)
(* result each hold the chain of outputs of the run they name, row by row. *)
THEOREM Invariance == Spec => []IInv
  <1>1. IInv /\ [Next]_vars => IInv'
    BY TypeStep, OwnLinkedStep, ReusedStep, ParentSeenStep, WorkersStep, CheckpointsStep,
       ResultsStep DEF IInv
  <1> QED
    BY <1>1, InitInv, PTL DEF Spec

(* Variables keep their types.                                             *)
THEOREM TypeCorrect == Spec => []TypeOK
  <1>1. IInv => TypeOK
    BY WorkerFields DEF IInv, TypeInv, TypeOK, StoredRows
  <1> QED
    BY <1>1, Invariance, PTL

(* A completed run has a row for every stage, computed from the rows before *)
(* it or validly copied, and its result is the last one's output; however   *)
(* many attempts overlap, fail or meet another configuration.               *)
THEOREM ChainSafety == Spec => []CompletedRunIsChain
  <1>1. IInv => CompletedRunIsChain
    <2> SUFFICES ASSUME IInv PROVE CompletedRunIsChain
      OBVIOUS
    <2>1. ASSUME NEW r \in Runs, result[r] # None
          PROVE  /\ \A k \in Stages : /\ rows[r][k] # None
                                      /\ rows[r][k].input.upstream = Outs(rows[r], k)
                 /\ result[r] = rows[r][MaxStages].output
      BY <2>1, BoundAssumption DEF IInv, ResultsLinked, Linked, Stages
    <2> QED
      BY <2>1 DEF CompletedRunIsChain, IInv
  <1> QED
    BY <1>1, Invariance, PTL

(* agent_stage_snapshots is insert-only: a row that was stored stays as it *)
(* is, whoever meets it again (docs/report/04_agent_v3_02_plan_ko.md).     *)
THEOREM SnapshotsStay == Spec => [][RowsKept]_vars
  <1>1. TypeInv /\ [Next]_vars => [RowsKept]_vars
    BY KeepsRows
  <1> QED
    BY <1>1, Invariance, PTL DEF Spec, IInv
-----------------------------------------------------------------------------
(***************************************************************************)
(* Two attempts at a run at once may leave a row behind one it does not    *)
(* continue: the copy of the parent's, behind a stage the other attempt    *)
(* has computed.  No other row does so.                                    *)
(***************************************************************************)
Copying == {"prefix", "own", "insert", "hydrate", "begin"}
Running == {"stage", "compute", "save", "persist"}

(* A run has a checkpoint before it has a row of its own, and whoever      *)
(* continues as a run does so behind that run's checkpoint.                *)
StartedRows ==
  \A r \in Runs, k \in Stages :
    rows[r][k] # None /\ rows[r][k].from = NoRun => checkpoint[r] # None
StartedIds ==
  /\ \A w \in Workers : worker[w].step \in Running => checkpoint[worker[w].id] # None
  /\ \A r \in Runs : checkpoint[r] # None => checkpoint[checkpoint[r].id] # None
Alone ==
  \A v, w \in Workers :
    v # w /\ ~Busy(v, "idle") /\ ~Busy(w, "idle") /\ worker[v].run = worker[w].run =>
      worker[v].run \in overlapped
NotStarted ==
  \A w \in Workers : worker[w].step \in Copying /\ worker[w].run > 1 =>
    checkpoint[worker[w].run] = None \/ worker[w].run \in overlapped
MineStored ==
  \A w \in Workers : Busy(w, "insert") =>
    \A k \in worker[w].mine : rows[worker[w].run][k] # None
(* A copied row is the parent's, and continues the rows before it there.   *)
CopiesOfParent ==
  \A r \in Runs, k \in Stages : rows[r][k] # None /\ rows[r][k].from # NoRun =>
    /\ r > 1 /\ rows[r - 1][k] # None /\ SameSnapshot(rows[r][k], rows[r - 1][k])
    /\ rows[r][k].input.upstream = Outs(rows[r - 1], k)
Filled ==
  \A r \in Runs, k \in Stages : rows[r][k] # None => \A j \in 1..(k - 1) : rows[r][j] # None
ParentFilled ==
  \A w \in Workers : worker[w].step \in {"own", "insert"} =>
    \A k \in Stages : worker[w].parent[k] # None =>
      \A j \in 1..(k - 1) : worker[w].parent[j] # None
CopiedBehindOverlapped == \A r \in Runs, k \in Stages : CopiedBehind(r, k) => r \in overlapped

AInv ==
  /\ IInv /\ StartedRows /\ StartedIds /\ Alone /\ NotStarted /\ MineStored
  /\ CopiesOfParent /\ Filled /\ ParentFilled /\ CopiedBehindOverlapped

(* The run a stored output names has computed that stage itself.           *)
LEMMA OutputOwner ==
  ASSUME IInv, NEW i \in Runs, NEW k \in Stages, rows[i][k] # None
  PROVE  LET q == rows[i][k].output.run IN
         q \in Runs /\ rows[q][k] # None /\ rows[q][k].from = NoRun
  <1>1. CASE rows[i][k].from = NoRun
    BY <1>1 DEF IInv, OwnLinked
  <1>2. CASE rows[i][k].from # NoRun
    <2> DEFINE f == rows[i][k].from
    <2>1. f \in Runs
      BY <1>2, RowType DEF IInv
    <2>2. /\ rows[f][k] # None /\ rows[f][k].from = NoRun
          /\ SameSnapshot(rows[i][k], rows[f][k])
      BY <1>2 DEF IInv, ReusedIsValid
    <2>3. rows[f][k].output.run = f
      BY <2>1, <2>2 DEF IInv, OwnLinked
    <2> QED
      BY <2>1, <2>2, <2>3 DEF SameSnapshot
  <1> QED
    BY <1>1, <1>2

(* What a step does to worker v.                                           *)
Claims(v) ==
  /\ worker'[v].run \in Runs
  /\ worker'[v].run \in overlapped'
     \/ \A u \in Workers : Busy(u, "idle") \/ worker[u].run # worker'[v].run
  /\ IF checkpoint[worker'[v].run] = None
     THEN worker'[v].step = "prefix"
     ELSE worker'[v].step \in Running /\ worker'[v].id = checkpoint[worker'[v].run].id
Copies(v) ==
  /\ worker[v].step \in Copying /\ worker'[v].step \in Copying
  /\ worker'[v].run = worker[v].run
  /\ worker'[v].step = "insert" => \A k \in worker'[v].mine : rows[worker[v].run][k] # None
Starts(v) ==
  /\ SaveCheckpoint(v) /\ worker[v].step = "begin" /\ worker'[v].step = "stage"
  /\ worker'[v].run = worker[v].run /\ worker'[v].id = worker[v].run
Goes(v) ==
  /\ worker[v].step \in Running /\ worker'[v].step \in Running
  /\ worker'[v].run = worker[v].run
  /\ \/ worker'[v].id = worker[v].id
     \/ \E k \in Stages : /\ rows[worker[v].id][k] # None
                          /\ worker'[v].id = rows[worker[v].id][k].output.run

LEMMA ClaimMoves ==
  ASSUME TypeInv, NEW v \in Workers, NEW r \in Runs, Claim(v, r)
  PROVE  Claims(v)
  <1>1. CASE checkpoint[r] = None
    <2> DEFINE change == [Idle EXCEPT !.step = "prefix", !.run = r, !.id = r]
    <2>1. Become(v, change)
      BY <1>1 DEF Claim
    <2>2. change.step = "prefix" /\ change.run = r
      BY DEF Idle
    <2> HIDE DEF change
    <2>3. worker'[v] = change
      BY <2>1, OneChanges
    <2> QED
      BY <1>1, <2>2, <2>3 DEF Claims, Claim, Attempts
  <1>2. CASE checkpoint[r] # None
    <2> DEFINE c == checkpoint[r]
               step == IF c.next > MaxStages THEN "persist" ELSE "stage"
               change == [Idle EXCEPT !.step = step,
                            !.run = r, !.id = c.id, !.next = c.next, !.chain = c.chain]
    <2>1. Become(v, change)
      BY <1>2 DEF Claim
    <2>2. change.step = step /\ change.id = c.id /\ change.run = r
      BY DEF Idle
    <2> HIDE DEF change
    <2>3. worker'[v] = change
      BY <2>1, OneChanges
    <2> QED
      BY <1>2, <2>2, <2>3 DEF Claims, Claim, Attempts, Running
  <1> QED
    BY <1>1, <1>2

LEMMA CopyingMoves ==
  ASSUME IInv, NEW v \in Workers,
         ReadParent(v) \/ ReadOwn(v) \/ CopyPrefix(v) \/ Hydrate(v)
  PROVE  worker'[v].step = "idle" \/ Copies(v)
  <1>1. CASE ReadParent(v)
    <2> DEFINE read == IF worker[v].run = 1 THEN NoRows ELSE rows[worker[v].run - 1]
               change == [worker[v] EXCEPT !.step = "own", !.parent = read]
    <2>1. Become(v, change) /\ Busy(v, "prefix")
      BY <1>1 DEF ReadParent
    <2>2. change.step = "own" /\ change.run = worker[v].run
      <3> HIDE DEF read
      <3> QED
        BY WorkerFields DEF IInv, WorkerType
    <2> HIDE DEF change
    <2>3. worker'[v] = change
      BY <2>1, OneChanges DEF IInv
    <2> QED
      BY <2>1, <2>2, <2>3 DEF Copies, Copying, Busy
  <1>4. CASE ReadOwn(v)
    <2> DEFINE mine == {j \in Stages : rows[worker[v].run][j] # None}
               change == [worker[v] EXCEPT !.step = "insert", !.mine = mine]
    <2>1. Become(v, change) /\ Busy(v, "own")
      BY <1>4 DEF ReadOwn
    <2>2. change.step = "insert" /\ change.run = worker[v].run /\ change.mine = mine
      <3> HIDE DEF mine
      <3> QED
        BY WorkerFields DEF IInv, WorkerType
    <2> HIDE DEF change
    <2>3. worker'[v] = change
      BY <2>1, OneChanges DEF IInv
    <2> QED
      BY <2>1, <2>2, <2>3 DEF Copies, Copying, Busy
  <1>2. CASE CopyPrefix(v)
    <2> DEFINE change == [worker[v] EXCEPT !.step = "hydrate", !.parent = NoRows, !.mine = {}]
    <2>1. CASE GiveUp(v)
      BY <2>1, GiveUpType DEF IInv
    <2>2. CASE Become(v, change)
      <3>1. change.step = "hydrate" /\ change.run = worker[v].run
        BY WorkerFields DEF IInv, WorkerType
      <3> HIDE DEF change
      <3>2. worker'[v] = change
        BY <2>2, OneChanges DEF IInv
      <3> QED
        BY <1>2, <3>1, <3>2 DEF Copies, Copying, CopyPrefix, Busy
    <2> QED
      BY <1>2, <2>1, <2>2 DEF CopyPrefix
  <1>3. CASE Hydrate(v)
    <2>1. PICK n \in Hydrated(worker[v].run) :
            Become(v, [worker[v] EXCEPT !.step = "begin", !.next = n + 1,
                                        !.chain = Outs(rows[worker[v].run], n + 1)])
      BY <1>3 DEF Hydrate
    <2> DEFINE outs == Outs(rows[worker[v].run], n + 1)
               change == [worker[v] EXCEPT !.step = "begin", !.next = n + 1, !.chain = outs]
    <2>2. change.step = "begin" /\ change.run = worker[v].run
      <3> HIDE DEF outs
      <3> QED
        BY WorkerFields DEF IInv, WorkerType
    <2>3. Become(v, change)
      BY <2>1
    <2> HIDE DEF change
    <2>4. worker'[v] = change
      BY <2>3, OneChanges DEF IInv
    <2> QED
      BY <1>3, <2>2, <2>4 DEF Copies, Copying, Hydrate, Busy
  <1> QED
    BY <1>1, <1>2, <1>3, <1>4

LEMMA BeginMoves ==
  ASSUME IInv, NEW v \in Workers, Begin(v)
  PROVE  Starts(v)
  <1> DEFINE change == [worker[v] EXCEPT !.step = "stage"]
  <1>1. change.step = "stage" /\ change.run = worker[v].run /\ change.id = worker[v].id
    BY WorkerFields DEF IInv, WorkerType
  <1>2. Become(v, change)
    BY DEF Begin
  <1> HIDE DEF change
  <1>3. worker'[v] = change
    BY <1>2, OneChanges DEF IInv
  <1>4. worker[v].id = worker[v].run
    BY DEF Begin, Busy, IInv, WorkersLinked, Follows
  <1> QED
    BY <1>1, <1>3, <1>4 DEF Starts, Begin, Busy

LEMMA RunningMoves ==
  ASSUME IInv, NEW v \in Workers,
         \/ LookUp(v) \/ Save(v)
         \/ \E x \in Values, e \in {"passed", "reused", "other"} : Record(v, x, e)
  PROVE  worker'[v].step = "idle" \/ Goes(v)
  <1>1. CASE LookUp(v)
    <2> DEFINE row == rows[worker[v].id][worker[v].next]
    <2>0. Busy(v, "stage") /\ worker[v].next \in Stages /\ worker[v].id \in Runs
      BY <1>1, WorkerFields DEF LookUp, Busy, IInv, TypeInv
    <2>1. CASE Become(v, [worker[v] EXCEPT !.step = "compute"])
      <3> DEFINE change == [worker[v] EXCEPT !.step = "compute"]
      <3>1. change.step = "compute" /\ change.run = worker[v].run /\ change.id = worker[v].id
        BY WorkerFields DEF IInv, WorkerType
      <3>2. Become(v, change)
        BY <2>1
      <3> HIDE DEF change
      <3>3. worker'[v] = change
        BY <3>2, OneChanges DEF IInv
      <3> QED
        BY <2>0, <3>1, <3>3 DEF Goes, Running, Busy
    <2>2. CASE row # None /\ Adopt(v, row.output)
      <3>1. row.output \in Outputs
        BY <2>0, <2>2, RowType DEF IInv
      <3> QED
        BY <2>0, <2>2, <3>1, AdoptType DEF Goes, Running, Busy, IInv
    <2>3. CASE GiveUp(v)
      BY <2>3, GiveUpType DEF IInv
    <2> QED
      BY <1>1, <2>1, <2>2, <2>3 DEF LookUp
  <1>2. CASE Save(v)
    <2> DEFINE step == IF worker[v].next = MaxStages THEN "persist" ELSE "stage"
               change == [worker[v] EXCEPT !.next = worker[v].next + 1, !.step = step]
    <2>1. change.step = step /\ change.run = worker[v].run /\ change.id = worker[v].id
      <3> HIDE DEF step
      <3> QED
        BY WorkerFields DEF IInv, WorkerType
    <2>2. Become(v, change) /\ Busy(v, "save")
      BY <1>2, WorkerFields DEF Save, IInv, WorkerType
    <2> HIDE DEF change
    <2>3. worker'[v] = change
      BY <2>2, OneChanges DEF IInv
    <2> QED
      BY <2>1, <2>2, <2>3 DEF Goes, Running, Busy
  <1>3. ASSUME NEW x \in Values, NEW e \in {"passed", "reused", "other"}, Record(v, x, e)
        PROVE  worker'[v].step = "idle" \/ Goes(v)
    <2> DEFINE new == New(v, x, e)
    <2>1. Busy(v, "compute") /\ (Adopt(v, new.output) \/ GiveUp(v))
      BY <1>3, RecordCases
    <2>2. new.output \in Outputs /\ new.output.run = worker[v].id /\ worker[v].next \in Stages
      BY <2>1, NewType DEF IInv, TypeInv, New, Busy
    <2> HIDE DEF new
    <2> QED
      BY <2>1, <2>2, AdoptType, GiveUpType DEF Goes, Running, Busy, IInv
  <1> QED
    BY <1>1, <1>2, <1>3

LEMMA Moves ==
  ASSUME IInv, [Next]_vars, NEW v \in Workers
  PROVE  \/ worker'[v] = worker[v] \/ worker'[v].step = "idle"
         \/ (Busy(v, "idle") /\ Claims(v)) \/ Copies(v) \/ Starts(v) \/ Goes(v)
  <1>1. ASSUME NEW w \in Workers, NEW change, Become(w, change), v # w
        PROVE  worker'[v] = worker[v]
    BY <1>1, OneChanges DEF IInv
  <1>2. ASSUME NEW w \in Workers, NEW r \in Runs, Claim(w, r), v # w
        PROVE  worker'[v] = worker[v]
    BY <1>1, <1>2 DEF Claim
  <1>3. ASSUME NEW w \in Workers, v # w,
               \/ ReadParent(w) \/ ReadOwn(w) \/ CopyPrefix(w) \/ Hydrate(w) \/ Begin(w)
               \/ LookUp(w)
               \/ Save(w) \/ Persist(w) \/ Fail(w)
        PROVE  worker'[v] = worker[v]
    BY <1>1, <1>3 DEF ReadParent, ReadOwn, CopyPrefix, Hydrate, Begin, LookUp, Save, Persist, Fail,
       GiveUp, Adopt
  <1>4. ASSUME NEW w \in Workers, v # w, NEW x \in Values,
               NEW e \in {"passed", "reused", "other"}, Record(w, x, e)
        PROVE  worker'[v] = worker[v]
    BY <1>1, <1>4, RecordCases DEF Adopt, GiveUp
  <1>5. ASSUME Persist(v) \/ Fail(v) PROVE worker'[v].step = "idle"
    BY <1>5, GiveUpType DEF Persist, Fail, GiveUp, IInv
  <1>6. ASSUME NEW c \in Configs, Redeploy(c) PROVE worker'[v].step = "idle"
    BY <1>6 DEF Redeploy, Idle
  <1>7. CASE worker' = worker
    BY <1>7
  <1>8. ASSUME NEW r \in Runs, Claim(v, r) PROVE Busy(v, "idle") /\ Claims(v)
    BY <1>8, ClaimMoves DEF Claim, IInv
  <1> QED
    BY <1>2, <1>3, <1>4, <1>5, <1>6, <1>7, <1>8, CopyingMoves, BeginMoves, RunningMoves
       DEF Next, vars, CreateTargetedChild

LEMMA OneMoves ==
  ASSUME IInv, [Next]_vars
  PROVE  \/ \A v \in Workers : worker'[v].step = "idle"
         \/ worker' = worker
         \/ \E w \in Workers : \A v \in Workers : v # w => worker'[v] = worker[v]
  <1>1. ASSUME NEW w \in Workers, NEW change, Become(w, change)
        PROVE  \A v \in Workers : v # w => worker'[v] = worker[v]
    BY <1>1, OneChanges DEF IInv
  <1>2. ASSUME NEW w \in Workers, NEW r \in Runs, Claim(w, r)
        PROVE  \A v \in Workers : v # w => worker'[v] = worker[v]
    BY <1>1, <1>2 DEF Claim
  <1>3. ASSUME NEW w \in Workers,
               \/ ReadParent(w) \/ ReadOwn(w) \/ CopyPrefix(w) \/ Hydrate(w) \/ Begin(w)
               \/ LookUp(w)
               \/ Save(w) \/ Persist(w) \/ Fail(w)
        PROVE  \A v \in Workers : v # w => worker'[v] = worker[v]
    BY <1>1, <1>3 DEF ReadParent, ReadOwn, CopyPrefix, Hydrate, Begin, LookUp, Save, Persist, Fail,
       GiveUp, Adopt
  <1>4. ASSUME NEW w \in Workers, NEW x \in Values,
               NEW e \in {"passed", "reused", "other"}, Record(w, x, e)
        PROVE  \A v \in Workers : v # w => worker'[v] = worker[v]
    BY <1>1, <1>4, RecordCases DEF Adopt, GiveUp
  <1>5. ASSUME NEW c \in Configs, Redeploy(c) PROVE \A v \in Workers : worker'[v].step = "idle"
    BY <1>5 DEF Redeploy, Idle
  <1> QED
    BY <1>2, <1>3, <1>4, <1>5 DEF Next, vars, CreateTargetedChild

(* A checkpoint changes only where an attempt saves it.                    *)
LEMMA CheckpointMoves ==
  ASSUME IInv, [Next]_vars, NEW r \in Runs, checkpoint'[r] # checkpoint[r]
  PROVE  /\ checkpoint'[r] # None
         /\ \E w \in Workers :
              /\ worker[w].run = r /\ ~Busy(w, "idle") /\ worker'[w].step \in Running
              /\ checkpoint'[r].id = worker'[w].id
  <1>1. PICK w \in Workers : Begin(w) \/ Save(w)
    BY DEF Next, vars, CreateTargetedChild, Claim, ReadParent, ReadOwn,
       CopyPrefix, Hydrate, LookUp, Record, Persist, Fail, Redeploy
  <1>2. SaveCheckpoint(w) /\ ~Busy(w, "idle")
    BY <1>1 DEF Begin, Save, Busy
  <1> DEFINE saved == [id |-> worker'[w].id, next |-> worker'[w].next, chain |-> worker'[w].chain]
  <1>3. r = worker[w].run /\ checkpoint'[r] = saved
    BY <1>2 DEF SaveCheckpoint, IInv, TypeInv
  <1>4. saved # None
    <2>1. "none" \in DOMAIN None /\ "none" \notin DOMAIN saved
      BY DEF None
    <2> QED
      BY <2>1
  <1>5. worker'[w].step \in Running
    <2>1. CASE Begin(w)
      BY <2>1, BeginMoves DEF Starts, Running
    <2>2. CASE Save(w)
      <3> DEFINE step == IF worker[w].next = MaxStages THEN "persist" ELSE "stage"
                 change == [worker[w] EXCEPT !.next = worker[w].next + 1, !.step = step]
      <3>1. change.step = step
        <4> HIDE DEF step
        <4> QED
          BY WorkerFields DEF IInv, WorkerType
      <3>2. Become(w, change)
        BY <2>2, WorkerFields DEF Save, IInv, WorkerType
      <3> HIDE DEF change
      <3>3. worker'[w] = change
        BY <3>2, OneChanges DEF IInv
      <3> QED
        BY <3>1, <3>3 DEF Running
    <2> QED
      BY <1>1, <2>1, <2>2
  <1> QED
    BY <1>2, <1>3, <1>4, <1>5

LEMMA StartedIdsStep == AInv /\ [Next]_vars => StartedIds'
  <1> SUFFICES ASSUME AInv, [Next]_vars PROVE StartedIds'
    OBVIOUS
  <1>0. \A r \in Runs : checkpoint[r] # None => checkpoint'[r] # None
    BY CheckpointMoves DEF AInv
  <1>1. ASSUME NEW v \in Workers, worker'[v].step \in Running
        PROVE  checkpoint'[worker'[v].id] # None
    <2>1. CASE worker'[v] = worker[v]
      BY <1>0, <1>1, <2>1, WorkerFields DEF AInv, IInv, StartedIds
    <2>2. CASE Claims(v)
      <3> DEFINE c == checkpoint[worker'[v].run]
      <3>1. c # None /\ worker'[v].id = c.id /\ worker'[v].run \in Runs
        BY <1>1, <2>2 DEF Claims, Running
      <3>2. c.id \in Runs /\ checkpoint[c.id] # None
        BY <3>1 DEF AInv, IInv, TypeInv, CheckpointType, StartedIds
      <3> QED
        BY <1>0, <3>1, <3>2
    <2>3. CASE Starts(v)
      <3> DEFINE r == worker[v].run
                 saved == [id |-> worker'[v].id, next |-> worker'[v].next,
                           chain |-> worker'[v].chain]
      <3>1. checkpoint'[r] = saved
        BY <2>3, WorkerFields DEF Starts, SaveCheckpoint, AInv, IInv, TypeInv
      <3>2. "none" \in DOMAIN None /\ "none" \notin DOMAIN saved
        BY DEF None
      <3> QED
        BY <2>3, <3>1, <3>2 DEF Starts
    <2>4. CASE Goes(v)
      <3>1. worker[v].id \in Runs /\ checkpoint[worker[v].id] # None
        BY <2>4, WorkerFields, SMTT(30) DEF Goes, AInv, IInv, StartedIds
      <3>2. worker'[v].id \in Runs /\ checkpoint[worker'[v].id] # None
        BY <2>4, <3>1, OutputOwner DEF Goes, AInv, StartedRows
      <3> QED
        BY <1>0, <3>2
    <2>5. ~Copies(v) /\ worker'[v].step # "idle"
      BY <1>1 DEF Copies, Copying, Running
    <2> QED
      BY <2>1, <2>2, <2>3, <2>4, <2>5, Moves DEF AInv
  <1>2. ASSUME NEW r \in Runs, checkpoint'[r] # None
        PROVE  checkpoint'[checkpoint'[r].id] # None
    <2>1. CASE checkpoint'[r] = checkpoint[r]
      BY <1>0, <1>2, <2>1 DEF AInv, IInv, TypeInv, CheckpointType, StartedIds
    <2>2. CASE checkpoint'[r] # checkpoint[r]
      BY <1>1, <2>2, CheckpointMoves DEF AInv
    <2> QED
      BY <2>1, <2>2
  <1> QED
    BY <1>1, <1>2 DEF StartedIds

LEMMA StartedRowsStep == AInv /\ [Next]_vars => StartedRows'
  <1> SUFFICES ASSUME AInv, [Next]_vars, NEW r \in Runs, NEW k \in Stages,
                      rows'[r][k] # None, rows'[r][k].from = NoRun
               PROVE  checkpoint'[r] # None
    BY DEF StartedRows
  <1>0. checkpoint[r] # None => checkpoint'[r] # None
    BY CheckpointMoves DEF AInv
  <1>1. CASE rows[r][k] # None
    <2>1. rows'[r][k] = rows[r][k]
      BY <1>1, KeepsRows DEF AInv, IInv, RowsKept
    <2> QED
      BY <1>0, <1>1, <2>1 DEF AInv, StartedRows
  <1>2. CASE rows[r][k] = None
    <2>1. PICK w \in Workers : CopiedRow(w, r, k) \/ ComputedRow(w, r, k)
      BY <1>2, NewRows DEF NewRow, AInv, IInv
    <2>2. CASE ComputedRow(w, r, k)
      BY <1>0, <2>2, SMTT(30) DEF ComputedRow, AInv, StartedIds, Running, Busy
    <2>3. CASE CopiedRow(w, r, k)
      <3>1. rows'[r][k].from \in Runs
        BY <2>3, CopySource DEF CopiedRow, CopyPrefix, CopyOf, AInv
      <3> QED
        BY <3>1, NumbersType, SMTT(30)
    <2> QED
      BY <2>1, <2>2, <2>3
  <1> QED
    BY <1>1, <1>2

LEMMA KeepsOverlapped == [Next]_vars => overlapped \subseteq overlapped'
  BY DEF Next, vars, CreateTargetedChild, Claim, ReadParent, ReadOwn, CopyPrefix, Hydrate, Begin,
         LookUp, Record, Save, Persist, Fail, Redeploy

LEMMA AloneStep == AInv /\ [Next]_vars => Alone'
  <1> SUFFICES ASSUME AInv, [Next]_vars, NEW v \in Workers, NEW w \in Workers, v # w,
                      worker'[v].step # "idle", worker'[w].step # "idle",
                      worker'[v].run = worker'[w].run
               PROVE  worker'[v].run \in overlapped'
    BY DEF Alone, Busy
  <1>1. ASSUME NEW x \in Workers, NEW y \in Workers, x # y,
               worker'[x].step # "idle", worker'[y].step # "idle",
               worker'[x].run = worker'[y].run, worker'[y] = worker[y]
        PROVE  worker'[x].run \in overlapped'
    <2>1. CASE Claims(x)
      BY <1>1, <2>1 DEF Claims, Busy
    <2>2. CASE ~Busy(x, "idle") /\ worker'[x].run = worker[x].run
      BY <1>1, <2>2, KeepsOverlapped DEF AInv, Alone, Busy
    <2> QED
      BY <1>1, <2>1, <2>2, Moves DEF AInv, Copies, Starts, Goes, Copying, Running, Busy
  <1>2. worker'[v] = worker[v] \/ worker'[w] = worker[w]
    BY OneMoves DEF AInv
  <1> QED
    BY <1>1, <1>2

LEMMA NotStartedStep == AInv /\ [Next]_vars => NotStarted'
  <1> SUFFICES ASSUME AInv, [Next]_vars, NEW v \in Workers,
                      worker'[v].step \in Copying, worker'[v].run > 1,
                      worker'[v].run \notin overlapped'
               PROVE  checkpoint'[worker'[v].run] = None
    BY DEF NotStarted
  <1> DEFINE r == worker'[v].run
  <1>1. r \in Runs /\ r \notin overlapped
    <2>1. TypeInv'
      BY TypeStep DEF AInv, IInv
    <2> QED
      BY <2>1, KeepsOverlapped DEF TypeInv, WorkerType
  <1>2. checkpoint[r] = None /\ \A u \in Workers : u # v => Busy(u, "idle") \/ worker[u].run # r
    <2>1. CASE Claims(v)
      BY <1>1, <2>1 DEF Claims, Copying, Running
    <2>2. CASE worker[v].step \in Copying /\ worker[v].run = r
      BY <1>1, <2>2 DEF AInv, NotStarted, Alone, Busy, Copying
    <2> QED
      BY <2>1, <2>2, Moves DEF AInv, Copies, Starts, Goes, Copying, Running
  <1>3. SUFFICES ASSUME checkpoint'[r] # checkpoint[r] PROVE FALSE
    BY <1>2
  <1>4. PICK u \in Workers : worker[u].run = r /\ ~Busy(u, "idle") /\ worker'[u].step \in Running
    BY <1>1, <1>3, CheckpointMoves DEF AInv
  <1> QED
    BY <1>2, <1>4 DEF Copying, Running

LEMMA MineStep == AInv /\ [Next]_vars => MineStored'
  <1> SUFFICES ASSUME AInv, [Next]_vars, NEW v \in Workers, worker'[v].step = "insert",
                      NEW k \in worker'[v].mine
               PROVE  rows'[worker'[v].run][k] # None
    BY DEF MineStored, Busy
  <1>1. worker'[v].run \in Runs /\ k \in Stages
    <2>1. TypeInv'
      BY TypeStep DEF AInv, IInv
    <2> QED
      BY <2>1 DEF TypeInv, WorkerType
  <1>2. rows[worker'[v].run][k] # None
    <2>1. CASE worker'[v] = worker[v]
      BY <2>1 DEF AInv, MineStored, Busy
    <2>2. CASE Copies(v)
      BY <2>2 DEF Copies
    <2> QED
      BY <2>1, <2>2, Moves DEF AInv, Claims, Starts, Goes, Running
  <1> QED
    BY <1>1, <1>2, KeepsRows DEF AInv, IInv, RowsKept

LEMMA FilledStep == AInv /\ [Next]_vars => Filled'
  <1> SUFFICES ASSUME AInv, [Next]_vars, NEW r \in Runs, NEW k \in Stages,
                      rows'[r][k] # None, NEW j \in 1..(k - 1)
               PROVE  rows'[r][j] # None
    BY DEF Filled
  <1>0. /\ \A q \in Runs, i \in Stages : rows[q][i] # None => rows'[q][i] = rows[q][i]
        /\ j \in Stages
    BY KeepsRows, BoundAssumption DEF AInv, IInv, RowsKept, Stages
  <1>1. CASE rows[r][k] # None
    BY <1>0, <1>1 DEF AInv, Filled
  <1>2. CASE rows'[r][k].from = NoRun
    <2>1. Linked(rows'[r], k + 1)
      BY <1>2, OwnLinkedStep DEF AInv, OwnLinked
    <2>2. j \in 1..((k + 1) - 1)
      BY BoundAssumption DEF Stages
    <2> QED
      BY <2>1, <2>2 DEF Linked
  <1>3. CASE rows[r][k] = None /\ rows'[r][k].from # NoRun
    <2>1. PICK w \in Workers : CopiedRow(w, r, k)
      BY <1>3, NewRows DEF NewRow, AInv, IInv, ComputedRow
    <2>2. CopyPrefix(w) /\ r = worker[w].run /\ k \in Copied(w) /\ rows'[r][k] = CopyOf(w, k)
      BY <2>1 DEF CopiedRow
    <2>3. SUFFICES ASSUME rows[r][j] = None PROVE rows'[r][j] # None
      BY <1>0
    <2>4. j \notin worker[w].mine
      BY <2>2, <2>3 DEF AInv, MineStored, CopyPrefix
    <2>5. j \in Copied(w)
      BY <1>0, <2>2, <2>4, BoundAssumption, WorkerFields
         DEF Copied, AInv, IInv, TypeInv, Stages, NoStage
    <2>6. CopyOf(w, j) # None
      BY <2>2, <2>5, CopyType, NoneIsNoRecord DEF AInv, IInv, CopyPrefix
    <2>7. rows'[r][j] = CopyOf(w, j)
      BY <1>0, <1>3, <2>2, <2>3, <2>5 DEF CopyPrefix, AInv, IInv, TypeInv, StoredRows
    <2> QED
      BY <2>6, <2>7
  <1> QED
    BY <1>1, <1>2, <1>3

LEMMA ParentFilledStep == AInv /\ [Next]_vars => ParentFilled'
  <1> SUFFICES ASSUME AInv, [Next]_vars, NEW v \in Workers,
                      worker'[v].step \in {"own", "insert"},
                      NEW k \in Stages, worker'[v].parent[k] # None, NEW j \in 1..(k - 1)
               PROVE  worker'[v].parent[j] # None
    BY DEF ParentFilled
  <1>1. CASE worker'[v].parent = worker[v].parent /\ worker[v].step \in {"own", "insert"}
    BY <1>1 DEF AInv, ParentFilled
  <1>2. CASE ParentRead(v)
    <2>1. worker[v].run # 1 /\ worker'[v].parent = rows[worker[v].run - 1]
      BY <1>2 DEF ParentRead, NoRows
    <2>2. worker[v].run - 1 \in Runs
      BY <2>1, WorkerFields, BoundAssumption DEF AInv, IInv, Runs
    <2> QED
      BY <2>1, <2>2 DEF AInv, Filled
  <1> QED
    BY <1>1, <1>2, ParentMoves DEF AInv

(* What a child copies is its parent's, and continues the rows before it   *)
(* there.                                                                  *)
LEMMA CopyOfParent ==
  ASSUME AInv, NEW w \in Workers, CopyPrefix(w), NEW k \in Copied(w)
  PROVE  LET r == worker[w].run IN
         /\ r > 1 /\ rows[r - 1][k] # None /\ SameSnapshot(CopyOf(w, k), rows[r - 1][k])
         /\ r - 1 \in Runs
         /\ CopyOf(w, k).input.upstream = Outs(rows[r - 1], k)
  <1>1. k \in Stages /\ Reusable(worker[w].run, worker[w].parent, k)
    BY CopiedFrom DEF AInv, IInv
  <1>2. \A j \in Stages : worker[w].parent[j] # None =>
          worker[w].run > 1 /\ rows[worker[w].run - 1][j] = worker[w].parent[j]
    BY DEF AInv, IInv, ParentSeen, CopyPrefix, Busy
  <1>3. SameSnapshot(CopyOf(w, k), worker[w].parent[k])
    BY <1>1 DEF SameSnapshot, CopyOf, Reusable
  <1>4. \A j \in 1..(k - 1) : j \in Stages /\ worker[w].parent[j] # None
    BY <1>1, BoundAssumption DEF AInv, ParentFilled, CopyPrefix, Busy, Reusable, Stages
  <1>5. Outs(worker[w].parent, k) = Outs(rows[worker[w].run - 1], k)
    BY <1>2, <1>4 DEF Outs
  <1>6. CopyOf(w, k).input.upstream = Outs(worker[w].parent, k)
    BY DEF CopyOf, StageInput
  <1> QED
    BY <1>1, <1>2, <1>3, <1>5, <1>6, WorkerFields, BoundAssumption DEF AInv, IInv, Runs, Reusable

LEMMA CopiesStep == AInv /\ [Next]_vars => CopiesOfParent'
  <1> SUFFICES ASSUME AInv, [Next]_vars, NEW r \in Runs, NEW k \in Stages,
                      rows'[r][k] # None, rows'[r][k].from # NoRun
               PROVE  /\ r > 1 /\ rows'[r - 1][k] # None
                      /\ SameSnapshot(rows'[r][k], rows'[r - 1][k])
                      /\ rows'[r][k].input.upstream = Outs(rows'[r - 1], k)
    BY DEF CopiesOfParent
  <1>0. /\ RowsKept
        /\ r > 1 => r - 1 \in Runs
        /\ \A j \in 1..(k - 1) : j \in Stages
    BY KeepsRows, BoundAssumption DEF AInv, IInv, Runs, Stages
  <1>1. ASSUME r > 1, rows[r - 1][k] # None, rows'[r][k].input.upstream = Outs(rows[r - 1], k),
               SameSnapshot(rows'[r][k], rows[r - 1][k])
        PROVE  /\ rows'[r - 1][k] # None /\ SameSnapshot(rows'[r][k], rows'[r - 1][k])
               /\ rows'[r][k].input.upstream = Outs(rows'[r - 1], k)
    <2>1. \A j \in 1..(k - 1) : rows[r - 1][j] # None /\ rows'[r - 1][j] = rows[r - 1][j]
      BY <1>0, <1>1 DEF AInv, Filled, RowsKept
    <2>2. Outs(rows'[r - 1], k) = Outs(rows[r - 1], k)
      BY <2>1 DEF Outs
    <2> QED
      BY <1>0, <1>1, <2>2 DEF RowsKept
  <1>2. CASE rows[r][k] # None
    <2>1. rows'[r][k] = rows[r][k]
      BY <1>0, <1>2 DEF RowsKept
    <2> QED
      BY <1>1, <1>2, <2>1 DEF AInv, CopiesOfParent
  <1>3. CASE rows[r][k] = None
    <2>1. PICK w \in Workers : CopiedRow(w, r, k)
      BY <1>3, NewRows DEF NewRow, AInv, IInv, ComputedRow
    <2>2. CopyPrefix(w) /\ r = worker[w].run /\ k \in Copied(w) /\ rows'[r][k] = CopyOf(w, k)
      BY <2>1 DEF CopiedRow
    <2> QED
      BY <1>1, <2>2, CopyOfParent
  <1> QED
    BY <1>2, <1>3

(* Only an overlapping attempt copies behind a stage the run has computed: *)
(* the run's own attempts start behind a checkpoint by then.               *)
LEMMA CopiedBehindStep == AInv /\ [Next]_vars => CopiedBehindOverlapped'
  <1> SUFFICES ASSUME AInv, [Next]_vars, NEW r \in Runs, NEW k \in Stages,
                      rows'[r][k] # None, rows'[r][k].from # NoRun,
                      NEW j \in 1..(k - 1), rows'[r][j] # None, rows'[r][j].from = NoRun
               PROVE  r \in overlapped'
    BY DEF CopiedBehindOverlapped, CopiedBehind
  <1>0. /\ \A i \in Stages : rows[r][i] # None => rows'[r][i] = rows[r][i]
        /\ j \in Stages
    BY KeepsRows, BoundAssumption DEF AInv, IInv, RowsKept, Stages
  <1>1. CASE rows[r][k] # None
    <2>1. rows[r][j] # None
      BY <1>1 DEF AInv, Filled
    <2>2. CopiedBehind(r, k)
      BY <1>0, <1>1, <2>1 DEF CopiedBehind
    <2> QED
      BY <2>2, KeepsOverlapped DEF AInv, CopiedBehindOverlapped
  <1>2. CASE rows[r][k] = None
    <2>1. PICK w \in Workers : CopiedRow(w, r, k)
      BY <1>2, NewRows DEF NewRow, AInv, IInv, ComputedRow
    <2>2. CopyPrefix(w) /\ r = worker[w].run /\ k \in Copied(w) /\ r > 1
      BY <2>1, CopyOfParent DEF CopiedRow
    <2>3. rows[r][j] # None
      <3>1. SUFFICES ASSUME rows[r][j] = None PROVE FALSE
        OBVIOUS
      <3>2. PICK u \in Workers : CopiedRow(u, r, j) \/ ComputedRow(u, r, j)
        BY <1>0, <3>1, NewRows DEF NewRow, AInv, IInv
      <3>3. CASE ComputedRow(u, r, j)
        BY <1>2, <3>3 DEF ComputedRow
      <3>4. CASE CopiedRow(u, r, j)
        <4>1. rows'[r][j].from \in Runs
          BY <3>4, CopySource DEF CopiedRow, CopyPrefix, CopyOf, AInv
        <4> QED
          BY <4>1, NumbersType, SMTT(30)
      <3> QED
        BY <3>2, <3>3, <3>4
    <2>4. checkpoint[r] # None
      BY <1>0, <2>3 DEF AInv, StartedRows
    <2> QED
      BY <2>2, <2>4, KeepsOverlapped DEF AInv, NotStarted, CopyPrefix, Busy, Copying
  <1> QED
    BY <1>1, <1>2

LEMMA InitAlone == Init => AInv
  <1> SUFFICES ASSUME Init PROVE AInv
    OBVIOUS
  <1>1. \A r \in Runs, k \in Stages : rows[r][k] = None
    BY DEF Init, NoRows
  <1>2. \A w \in Workers : worker[w].step = "idle"
    BY DEF Init, Idle
  <1>3. \A r \in Runs : checkpoint[r] = None
    BY DEF Init
  <1>4. StartedRows /\ CopiesOfParent /\ Filled /\ CopiedBehindOverlapped
    BY <1>1 DEF StartedRows, CopiesOfParent, Filled, CopiedBehindOverlapped, CopiedBehind
  <1>5. StartedIds /\ Alone /\ NotStarted /\ MineStored /\ ParentFilled
    BY <1>2, <1>3 DEF StartedIds, Alone, NotStarted, MineStored, ParentFilled, Busy, Copying,
                      Running
  <1> QED
    BY <1>4, <1>5, InitInv DEF AInv

(* Whichever attempts overlap, an attempt is refused a stored row only     *)
(* behind a changed configuration, or because a row of the parent's was    *)
(* copied behind a stage that another attempt, going on at the same time,  *)
(* had computed.                                                           *)
THEOREM ConflictSafety == Spec => []ConflictHasCause
  <1>1. AInv /\ [Next]_vars => AInv'
    <2>1. IInv /\ [Next]_vars => IInv'
      BY TypeStep, OwnLinkedStep, ReusedStep, ParentSeenStep, WorkersStep, CheckpointsStep,
         ResultsStep DEF IInv
    <2> QED
      BY <2>1, StartedRowsStep, StartedIdsStep, AloneStep, NotStartedStep, MineStep, CopiesStep,
         FilledStep, ParentFilledStep, CopiedBehindStep DEF AInv
  <1>2. AInv => ConflictHasCause
    <2> SUFFICES ASSUME AInv, NEW w \in Workers, Busy(w, "stage"),
                        rows[worker[w].id][worker[w].next] # None,
                        ~Replays(w, rows[worker[w].id][worker[w].next]),
                        rows[worker[w].id][worker[w].next].input.config = config
                 PROVE  /\ worker[w].id \in overlapped
                        /\ CopiedBehind(worker[w].id, worker[w].next)
      BY DEF ConflictHasCause
    <2> DEFINE id == worker[w].id
               k == worker[w].next
               row == rows[id][k]
    <2>1. id \in Runs /\ k \in Stages /\ worker[w].chain = Outs(rows[id], k)
      BY WorkerFields DEF AInv, IInv, TypeInv, WorkersLinked, Follows, Busy, ChainOf
    <2>2. row.input = [config |-> row.input.config, upstream |-> row.input.upstream]
      <3>1. row.input \in Inputs
        BY <2>1, RowType DEF AInv, IInv
      <3> QED
        BY <3>1 DEF Inputs
    <2>3. row.input.upstream # Outs(rows[id], k)
      BY <2>1, <2>2 DEF Replays, StageInput
    <2>4. row.from # NoRun
      BY <2>1, <2>3, LinkedLast DEF AInv, IInv, OwnLinked
    <2>5. CopiedBehind(id, k)
      <3>1. SUFFICES ASSUME \A j \in 1..(k - 1) : rows[id][j] # None => rows[id][j].from # NoRun
                     PROVE  FALSE
        BY <2>4 DEF CopiedBehind
      <3>2. id > 1 /\ row.input.upstream = Outs(rows[id - 1], k)
        BY <2>1, <2>4 DEF AInv, CopiesOfParent
      <3>3. \A j \in 1..(k - 1) : j \in Stages /\ rows[id][j] # None
        BY <2>1, BoundAssumption DEF AInv, Filled, Stages
      <3>4. \A j \in 1..(k - 1) : rows[id - 1][j] # None
                                 /\ rows[id][j].output = rows[id - 1][j].output
        BY <2>1, <3>1, <3>3 DEF AInv, CopiesOfParent, SameSnapshot
      <3>5. Outs(rows[id], k) = Outs(rows[id - 1], k)
        BY <3>3, <3>4 DEF Outs
      <3> QED
        BY <2>3, <3>2, <3>5
    <2> QED
      BY <2>1, <2>5 DEF AInv, CopiedBehindOverlapped
  <1> QED
    BY <1>1, <1>2, InitAlone, PTL DEF Spec
=============================================================================
