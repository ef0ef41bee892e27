---------------------------- MODULE RecordsProofs ----------------------------
(***************************************************************************)
(* Proofs about RunActions, IncidentDocuments, OperationsPolicy,           *)
(* OperationsReports, Retraining and Migrations, for every set of          *)
(* requests, keys, administrators, scheduler runs, operators, migrators    *)
(* and servers, every lookback and any number of versions, retraining      *)
(* jobs, crashes and migrators that end early.                             *)
(***************************************************************************)
EXTENDS RunActions, IncidentDocuments, OperationsPolicy, OperationsReports, Retraining,
        Migrations, FiniteSetTheorems, TLAPS

(* RunActions.                                                             *)
(*                                                                         *)
(* The reports there are and may still come: those stored, and those of    *)
(* the requests that generate.  They are no more than the claims there     *)
(* were, and while another claim is possible there is one to spare.        *)
Generating == {c \in Askers : asker[c] = "generate"}
ActionInv ==
  /\ ActionTypeOK
  /\ generated + Cardinality(Generating) <= 1 + stale
  /\ Claimable => generated + Cardinality(Generating) <= stale
LEMMA GeneratingIsFinite ==
  /\ IsFiniteSet(Generating) /\ Cardinality(Generating) \in Nat
  /\ IsFiniteSet(Generating)' /\ Cardinality(Generating)' \in Nat
  <1>1. IsFiniteSet(Askers) /\ Generating \subseteq Askers /\ Generating' \subseteq Askers
    BY ActionsAssumption DEF Generating
  <1>2. QED
    BY <1>1, FS_Subset, FS_CardinalityType

LEMMA ActionInitInv == ActionInit => ActionInv
  <1>1. SUFFICES ASSUME ActionInit PROVE ActionInv
    OBVIOUS
  <1>2. Generating = {} /\ Cardinality(Generating) = 0
    BY <1>1, FS_EmptySet DEF ActionInit, Generating
  <1>3. generated = 0 /\ stale = 0 /\ 0 \in 0..MaxGenerations /\ 0 \in 0..MaxStale
    BY <1>1, ActionsAssumption DEF ActionInit
  <1>4. ActionTypeOK
    BY <1>1, <1>3, Zenon DEF ActionInit, ActionTypeOK
  <1>5. QED
    BY <1>2, <1>3, <1>4 DEF ActionInv

(* A request that enters or leaves the generation.                         *)
LEMMA Enters ==
  ASSUME ActionTypeOK, NEW c \in Askers, asker[c] # "generate",
         asker' = [asker EXCEPT ![c] = "generate"]
  PROVE  Cardinality(Generating)' = Cardinality(Generating) + 1
  <1>1. Generating' = Generating \cup {c} /\ c \notin Generating
    BY DEF ActionTypeOK, Generating
  <1>2. QED
    BY <1>1, GeneratingIsFinite, FS_AddElement

LEMMA Leaves ==
  ASSUME ActionTypeOK, NEW c \in Askers, NEW to, to # "generate", asker[c] = "generate",
         asker' = [asker EXCEPT ![c] = to]
  PROVE  Cardinality(Generating)' = Cardinality(Generating) - 1
  <1>1. Generating' = Generating \ {c} /\ c \in Generating
    BY DEF ActionTypeOK, Generating
  <1>2. QED
    BY <1>1, GeneratingIsFinite, FS_RemoveElement

LEMMA Passes ==
  ASSUME ActionTypeOK, NEW c \in Askers, NEW to, to # "generate", asker[c] # "generate",
         asker' = [asker EXCEPT ![c] = to]
  PROVE  Generating' = Generating
  BY DEF ActionTypeOK, Generating

LEMMA ActionStep == ActionInv /\ [ActionNext]_actionVars => ActionInv'
  <1> SUFFICES ASSUME ActionInv, [ActionNext]_actionVars PROVE ActionInv'
    OBVIOUS
  <1> DEFINE n == Cardinality(Generating)
             Paid == generated + n <= 1 + stale /\ (Claimable => generated + n <= stale)
  <1>1. ActionTypeOK /\ Paid /\ n \in Nat /\ n' \in Nat
    BY GeneratingIsFinite DEF ActionInv
  <1>2. generated \in Nat /\ stale \in Nat
    BY <1>1, ActionsAssumption DEF ActionTypeOK
  <1> HIDE DEF n
  <1>3. SUFFICES ActionTypeOK' /\ Paid'
    BY DEF ActionInv, n
  <1>4. CASE UNCHANGED actionVars
    BY <1>1, <1>4 DEF actionVars, ActionTypeOK, Claimable, n, Generating
  <1>5. CASE TenMinutes
    <2>1. n' = n /\ ActionTypeOK' /\ stale' = stale + 1 /\ generated' = generated
      BY <1>1, <1>5, ActionsAssumption DEF TenMinutes, ActionTypeOK, n, Generating
    <2>2. QED
      BY <1>1, <1>2, <2>1
  <1>6. ASSUME NEW c \in Askers, LookForReport(c) \/ WaitForReport(c) \/ EndWait(c)
        PROVE  ActionTypeOK' /\ Paid'
    <2>1. PICK to \in {"claim", "wait", "idle"} : asker' = [asker EXCEPT ![c] = to]
      BY <1>6 DEF LookForReport, WaitForReport, EndWait, Moves
    <2>2. asker[c] # "generate" /\ UNCHANGED <<action, touched, stored, generated, stale>>
      BY <1>6 DEF LookForReport, WaitForReport, EndWait, Moves
    <2>3. n' = n
      BY <1>1, <2>1, <2>2, Passes DEF n
    <2>4. ActionTypeOK'
      BY <1>1, <2>1, <2>2 DEF ActionTypeOK
    <2>5. QED
      BY <1>1, <2>2, <2>3, <2>4 DEF Claimable
  <1>7. ASSUME NEW c \in Askers, ClaimAction(c) PROVE ActionTypeOK' /\ Paid'
    <2>1. n' = n + 1
      BY <1>1, <1>7, Enters DEF ClaimAction, Moves, n
    <2>2. ActionTypeOK' /\ UNCHANGED <<generated, stale>> /\ Claimable /\ ~Claimable'
      BY <1>1, <1>7 DEF ClaimAction, Moves, ActionTypeOK, Claimable
    <2>3. QED
      BY <1>1, <1>2, <2>1, <2>2
  <1>8. ASSUME NEW c \in Askers, StoreArtifact(c) PROVE ActionTypeOK' /\ Paid'
    <2>1. n' = n - 1
      BY <1>1, <1>8, Leaves DEF StoreArtifact, Moves, n
    <2>2. ActionTypeOK' /\ generated' = generated + 1 /\ stale' = stale
      BY <1>1, <1>8, ActionsAssumption DEF StoreArtifact, Moves, ActionTypeOK
    <2>3. Claimable' = Claimable
      BY <1>8 DEF StoreArtifact, Claimable
    <2>4. QED
      BY <1>1, <1>2, <2>1, <2>2, <2>3
  <1>9. ASSUME NEW c \in Askers, CompleteAction(c) PROVE ActionTypeOK' /\ Paid'
    <2>1. n' = n
      BY <1>1, <1>9, Passes DEF CompleteAction, Moves, n
    <2>2. ActionTypeOK' /\ UNCHANGED <<generated, stale>> /\ ~Claimable'
      BY <1>1, <1>9 DEF CompleteAction, Moves, ActionTypeOK, Claimable
    <2>3. QED
      BY <1>1, <1>2, <2>1, <2>2
  <1>10. ASSUME NEW c \in Askers, FailAction(c) PROVE ActionTypeOK' /\ Paid'
    <2>1. n' = n - 1
      BY <1>1, <1>10, Leaves DEF FailAction, Moves, n
    <2>2. ActionTypeOK' /\ UNCHANGED <<generated, stale>>
      BY <1>1, <1>10 DEF FailAction, Moves, ActionTypeOK
    <2>3. QED
      BY <1>1, <1>2, <2>1, <2>2
  <1>11. ASSUME NEW c \in Askers, RequestVanishes(c) PROVE ActionTypeOK' /\ Paid'
    <2>1. asker' = [asker EXCEPT ![c] = "idle"] /\ Claimable' = Claimable
      BY <1>11 DEF RequestVanishes, Moves, Claimable
    <2>2. n' = n \/ n' = n - 1
      BY <1>1, <2>1, Leaves, Passes DEF n
    <2>3. ActionTypeOK' /\ UNCHANGED <<generated, stale>>
      BY <1>1, <1>11 DEF RequestVanishes, Moves, ActionTypeOK
    <2>4. CASE n' = n
      BY <1>1, <1>2, <2>1, <2>3, <2>4
    <2>5. CASE n' = n - 1
      BY <1>1, <1>2, <2>1, <2>3, <2>5
    <2>6. QED
      BY <2>2, <2>4, <2>5
  <1>12. QED
    BY <1>4, <1>5, <1>6, <1>7, <1>8, <1>9, <1>10, <1>11 DEF ActionNext

(* Each report beyond the first costs a claim that grew older than ten     *)
(* minutes, however many requests overlap, crash and fail                  *)
(* (claim_agent_run_action, agent_run_artifact_repository.py).             *)
THEOREM GenerationSafety == ActionSpec => []GeneratedOncePerClaim
  <1>1. ActionSpec => []ActionInv
    BY ActionInitInv, ActionStep, PTL DEF ActionSpec
  <1>2. ActionInv => GeneratedOncePerClaim
    BY GeneratingIsFinite, ActionsAssumption
      DEF ActionInv, ActionTypeOK, GeneratedOncePerClaim
  <1>3. QED
    BY <1>1, <1>2, PTL
-----------------------------------------------------------------------------
(* IncidentDocuments.                                                      *)
(*                                                                         *)
(* The transactions that are open have scopes of their own, and none has a *)
(* key that was completed; what was written under a scope has completed    *)
(* it.  So what a transaction writes is the first under its scope.         *)
Busy(c) == writer[c] # Served
WriterOK(u) ==
  \/ u = Served
  \/ /\ u = [step |-> u.step, req |-> u.req, key |-> u.key, latest |-> u.latest,
             approved |-> u.approved]
     /\ u.step \in {"check", "write"} /\ u.req \in DocumentRequests /\ u.key \in DocumentKeys
     /\ u.latest \in 0..Len(written) /\ u.latest < MaxDocumentVersions
     /\ u.req.op # "generate" => u.latest > 0
Versions == [status : {"draft", "failed"}, base : Nat, by : Scopes]
NoteTypes == {"ai_review", "operator_note", "approval"}
Decisions == {"pending", "failed", "approved"}
Notes == [of : Nat, type : NoteTypes, decision : Decisions, by : Scopes \cup {<<>>}]
Completed(s) == keys[s].status = "completed"
RowsOK ==
  /\ written \in Seq(Versions) /\ noted \in Seq(Notes)
  /\ keys = [s \in Scopes |-> keys[s]]
  /\ \A s \in Scopes : keys[s].status \in {"none", "running", "completed"}
  /\ Len(written) <= MaxDocumentVersions
  /\ \A v \in DOMAIN written : written[v].base = v - 1
  /\ \A i \in DOMAIN noted : noted[i].of \in DOMAIN written
WrittenIsCompleted ==
  /\ \A v \in DOMAIN written : Completed(written[v].by)
  /\ \A i \in DOMAIN noted : noted[i].by # <<>> => Completed(noted[i].by)
WritersOK ==
  /\ writer = [c \in Writers |-> writer[c]]
  /\ \A c \in Writers : WriterOK(writer[c])
OpenScopes ==
  /\ \A c \in Writers : Busy(c) => ~Completed(ScopeOf(c))
  /\ \A c, d \in Writers : Busy(c) /\ Busy(d) /\ ScopeOf(c) = ScopeOf(d) => c = d
DocumentInv == RowsOK /\ WrittenIsCompleted /\ WritersOK /\ OpenScopes /\ OncePerKey

LEMMA DocumentInitInv == DocumentInit => DocumentInv
  BY DocumentsAssumption
    DEF DocumentInit, DocumentInv, RowsOK, WrittenIsCompleted, WritersOK, OpenScopes, OncePerKey,
        WriterOK, Busy, UnusedKey

LEMMA ScopeIsNotEmpty == \A s \in Scopes : s # <<>>
  BY DEF Scopes

LEMMA ScopeType ==
  ASSUME DocumentInv, NEW c \in Writers, Busy(c)
  PROVE  /\ ScopeOf(c) \in Scopes /\ Len(written) \in Nat
         /\ BaseOf(c) \in 0..Len(written) /\ BaseOf(c) < MaxDocumentVersions
  BY DocumentsAssumption
    DEF DocumentInv, RowsOK, WritersOK, WriterOK, Busy, ScopeOf, OpOf, BaseOf, Scopes

(* Who wrote a row: a scope, or the system.                                *)
LEMMA WhoWrote ==
  ASSUME DocumentInv
  PROVE  /\ \A v \in DOMAIN written : written[v].by \in Scopes
         /\ \A i \in DOMAIN noted : noted[i].by # <<>> => noted[i].by \in Scopes
  <1>1. \A r \in Versions : r.by \in Scopes
    BY DEF Versions
  <1>2. \A r \in Notes : r.by # <<>> => r.by \in Scopes
    BY DEF Notes
  <1>3. (\A v \in DOMAIN written : written[v] \in Versions)
        /\ \A i \in DOMAIN noted : noted[i] \in Notes
    BY DEF DocumentInv, RowsOK
  <1>4. QED
    BY <1>1, <1>2, <1>3, Zenon

(* A transaction that ends, with or without an entry, leaves the others'   *)
(* scopes open: none of them has its scope.                                *)
LEMMA EndsOpen ==
  ASSUME DocumentInv, NEW c \in Writers, Busy(c), writer' = [writer EXCEPT ![c] = Served],
         Len(written') \in Nat, Len(written') >= Len(written),
         \A s \in Scopes : s # ScopeOf(c) => keys'[s] = keys[s]
  PROVE  WritersOK' /\ OpenScopes'
  <1>1. Len(written) \in Nat
    BY ScopeType
  <1>2. \A d \in Writers : writer'[d] = IF d = c THEN Served ELSE writer[d]
    BY DEF DocumentInv, WritersOK
  <1>3. \A d \in Writers : Busy(d)' => d # c /\ Busy(d) /\ ScopeOf(d)' = ScopeOf(d)
    BY <1>2 DEF Busy, ScopeOf, OpOf
  <1>4. WritersOK'
    <2>1. ASSUME NEW d \in Writers PROVE WriterOK(writer[d])'
      <3>1. CASE d = c
        BY <1>2, <3>1 DEF WriterOK, Served
      <3>2. CASE d # c
        BY <1>1, <1>2, <3>2 DEF DocumentInv, WritersOK, WriterOK, Served
      <3>3. QED
        BY <3>1, <3>2
    <2>2. QED
      BY <2>1 DEF DocumentInv, WritersOK
  <1>5. \A d \in Writers : Busy(d) /\ d # c => ScopeOf(d) \in Scopes /\ ScopeOf(d) # ScopeOf(c)
    BY ScopeType DEF DocumentInv, OpenScopes
  <1>6. QED
    BY <1>3, <1>4, <1>5 DEF DocumentInv, OpenScopes, Completed

LEMMA RowsKept ==
  ASSUME DocumentInv, UNCHANGED <<written, noted, keys>>, WritersOK', OpenScopes'
  PROVE  DocumentInv'
  BY DEF DocumentInv, RowsOK, WrittenIsCompleted, OncePerKey, Completed

(* begin_idempotent_operation lets nobody in under a scope that is open or *)
(* completed.                                                              *)
LEMMA BeginInv ==
  ASSUME DocumentInv, NEW c \in Writers, NEW req \in DocumentRequests, NEW k \in DocumentKeys,
         BeginWrite(c, req, k)
  PROVE  DocumentInv'
  <1> DEFINE s == <<req.op, k>>
             u == [step |-> IF req.op = "generate" THEN "write" ELSE "check",
                   req |-> req, key |-> k, latest |-> Len(written), approved |-> FALSE]
  <1>1. writer' = [writer EXCEPT ![c] = u] /\ UNCHANGED <<written, noted, keys>>
    BY DEF BeginWrite
  <1>2. s \in Scopes /\ Len(written) \in Nat
    BY DocumentsAssumption DEF Scopes, DocumentInv, RowsOK
  <1>3. u.req = req /\ u.key = k /\ u.latest = Len(written) /\ u.step \in {"check", "write"}
        /\ u = [step |-> u.step, req |-> u.req, key |-> u.key, latest |-> u.latest,
                approved |-> u.approved]
    OBVIOUS
  <1>4. WriterOK(u)
    BY <1>2, <1>3 DEF BeginWrite, WriterOK
  <1>5. ~Completed(s)
    BY DEF BeginWrite, AnsweredByKey, UnusedKey, Completed
  <1>6. \A d \in Writers : Busy(d) => ScopeOf(d) # s
    BY DEF BeginWrite, DocumentInv, WritersOK, WriterOK, Busy, WriterAt
  <1> HIDE DEF u
  <1>7. \A d \in Writers : writer'[d] = IF d = c THEN u ELSE writer[d]
    BY <1>1 DEF DocumentInv, WritersOK
  <1>8. ScopeOf(c)' = s /\ \A d \in Writers : d # c => (Busy(d)' <=> Busy(d)) /\ ScopeOf(d)' = ScopeOf(d)
    BY <1>3, <1>7 DEF ScopeOf, OpOf, Busy
  <1>9. WritersOK'
    BY <1>1, <1>4, <1>7 DEF DocumentInv, WritersOK, WriterOK
  <1>10. OpenScopes'
    <2> HIDE DEF s
    <2>1. ASSUME NEW d \in Writers, Busy(d)' PROVE ~Completed(ScopeOf(d))'
      <3>1. keys' = keys
        BY <1>1
      <3>2. CASE d = c
        BY <1>5, <1>8, <3>1, <3>2 DEF Completed
      <3>3. CASE d # c
        BY <1>8, <2>1, <3>1, <3>3 DEF DocumentInv, OpenScopes, Completed
      <3>4. QED
        BY <3>2, <3>3
    <2>2. ASSUME NEW d \in Writers, NEW e \in Writers, Busy(d)', Busy(e)', ScopeOf(d)' = ScopeOf(e)'
          PROVE  d = e
      BY <1>6, <1>8, <2>2 DEF DocumentInv, OpenScopes
    <2>3. QED
      BY <2>1, <2>2 DEF OpenScopes
  <1>11. QED
    BY <1>1, <1>9, <1>10, RowsKept

(* An edit is refused, or the transaction goes on.                         *)
LEMMA CheckInv ==
  ASSUME DocumentInv, NEW c \in Writers, CheckApproval(c)
  PROVE  DocumentInv'
  <1>1. UNCHANGED <<written, noted, keys>> /\ Busy(c) /\ Len(written) \in Nat
    BY DEF CheckApproval, WriterAt, Served, Busy, DocumentInv, RowsOK
  <1>2. CASE writer' = [writer EXCEPT ![c] = Served]
    <2>1. /\ Len(written') \in Nat /\ Len(written') >= Len(written)
          /\ \A s \in Scopes : keys'[s] = keys[s]
      BY <1>1
    <2>2. WritersOK' /\ OpenScopes'
      BY <1>1, <1>2, <2>1, EndsOpen
    <2>3. QED
      BY <1>1, <2>2, RowsKept
  <1>3. CASE writer' # [writer EXCEPT ![c] = Served]
    <2> DEFINE r == writer[c]
               a == Approved(r.latest)
               u == [step |-> "write", req |-> r.req, key |-> r.key, latest |-> r.latest,
                     approved |-> a]
    <2>1. writer' = [writer EXCEPT ![c] = u]
      BY <1>3 DEF CheckApproval
    <2> HIDE DEF a
    <2>2. /\ u = [step |-> u.step, req |-> u.req, key |-> u.key, latest |-> u.latest,
                  approved |-> u.approved]
          /\ u.step = "write" /\ u.req = r.req /\ u.key = r.key /\ u.latest = r.latest
      OBVIOUS
    <2>3. WriterOK(u)
      BY <1>1, <2>2 DEF DocumentInv, WritersOK, WriterOK, Busy
    <2> HIDE DEF u
    <2>4. \A d \in Writers : writer'[d] = IF d = c THEN u ELSE writer[d]
      BY <2>1 DEF DocumentInv, WritersOK
    <2>5. u # Served
      BY <2>2 DEF Served
    <2>6. \A d \in Writers : (Busy(d)' <=> Busy(d)) /\ ScopeOf(d)' = ScopeOf(d)
      BY <1>1, <2>2, <2>4, <2>5 DEF ScopeOf, OpOf, Busy
    <2>7. WritersOK'
      BY <1>1, <2>1, <2>3, <2>4 DEF DocumentInv, WritersOK, WriterOK
    <2>8. OpenScopes'
      BY <1>1, <2>6 DEF DocumentInv, OpenScopes, Completed
    <2>9. QED
      BY <1>1, <2>7, <2>8, RowsKept
  <1>4. QED
    BY <1>2, <1>3

(* What a scope that is not completed has written: nothing.                *)
LEMMA NothingWritten ==
  ASSUME DocumentInv, NEW c \in Writers, Busy(c)
  PROVE  /\ \A v \in DOMAIN written : written[v].by # ScopeOf(c)
         /\ \A i \in DOMAIN noted : noted[i].by # ScopeOf(c)
  BY ScopeIsNotEmpty, ScopeType DEF DocumentInv, WrittenIsCompleted, OpenScopes

(* The key of a transaction that ends is its own, and one it completes is  *)
(* completed.                                                              *)
LEMMA EndsKeys ==
  ASSUME DocumentInv, NEW c \in Writers, Busy(c), NEW status \in {"running", "completed"},
         CommitWrite(c, status)
  PROVE  /\ \A s \in Scopes : s # ScopeOf(c) => keys'[s] = keys[s]
         /\ keys' = [s \in Scopes |-> keys'[s]]
         /\ \A s \in Scopes : keys'[s].status \in {"none", "running", "completed"}
         /\ \A s \in Scopes : Completed(s) => Completed(s)'
         /\ \A s \in Scopes : s = ScopeOf(c) /\ status = "completed" => Completed(s)'
  <1> DEFINE e == [status |-> status, req |-> writer[c].req]
             t == ScopeOf(c)
  <1>1. t \in Scopes
    BY ScopeType
  <1>2. keys' = [keys EXCEPT ![t] = e] /\ e.status = status /\ ~Completed(t)
    BY DEF CommitWrite, DocumentInv, OpenScopes
  <1>3. keys = [s \in Scopes |-> keys[s]]
        /\ \A s \in Scopes : keys[s].status \in {"none", "running", "completed"}
    BY DEF DocumentInv, RowsOK
  <1> HIDE DEF e, t
  <1>4. \A s \in Scopes : keys'[s] = IF s = t THEN e ELSE keys[s]
    BY <1>2, <1>3
  <1>5. keys' = [s \in Scopes |-> keys'[s]]
    BY <1>2, <1>3
  <1>6. keys'[t].status = status /\ \A s \in Scopes : s # t => keys'[s] = keys[s]
    BY <1>1, <1>2, <1>4
  <1>7. ScopeOf(c) = t
    BY DEF t
  <1>8. QED
    BY <1>1, <1>2, <1>3, <1>5, <1>6, <1>7 DEF Completed

(* A transaction that leaves the rows and completes its key or not.        *)
LEMMA AnswerInv ==
  ASSUME DocumentInv, NEW c \in Writers, Busy(c), NEW status \in {"running", "completed"},
         CommitWrite(c, status), UNCHANGED <<written, noted>>
  PROVE  DocumentInv'
  <1>1. Len(written') \in Nat /\ Len(written') >= Len(written)
    BY ScopeType
  <1>2. writer' = [writer EXCEPT ![c] = Served]
    BY DEF CommitWrite
  <1>3. WritersOK' /\ OpenScopes'
    BY <1>1, <1>2, EndsOpen, EndsKeys
  <1>4. RowsOK'
    BY EndsKeys DEF DocumentInv, RowsOK
  <1>5. WrittenIsCompleted'
    BY WhoWrote, EndsKeys DEF DocumentInv, WrittenIsCompleted, Completed
  <1>6. OncePerKey'
    BY DEF DocumentInv, OncePerKey
  <1>7. QED
    BY <1>3, <1>4, <1>5, <1>6 DEF DocumentInv

(* A review appended by the system (by = <<>>) or by the transaction,      *)
(* which completes its key.                                                *)
LEMMA NotedInv ==
  ASSUME DocumentInv, NEW c \in Writers, Busy(c), NEW v \in 1..Len(written), UNCHANGED written,
         NEW type \in NoteTypes, NEW decision \in Decisions,
         noted' = Noted(v, type, decision, ScopeOf(c)), CommitWrite(c, "completed")
  PROVE  DocumentInv'
  <1> PICK t \in Scopes : t = ScopeOf(c)
    BY ScopeType
  <1> DEFINE n == [of |-> v, type |-> type, decision |-> decision, by |-> t]
  <1>1. t \in Scopes /\ t # <<>>
    BY ScopeIsNotEmpty
  <1>2. Len(written') \in Nat /\ Len(written') >= Len(written)
    BY ScopeType
  <1>3. writer' = [writer EXCEPT ![c] = Served]
    BY DEF CommitWrite
  <1>4. WritersOK' /\ OpenScopes'
    BY <1>2, <1>3, EndsOpen, EndsKeys
  <1>5. noted \in Seq(Notes) /\ noted' = Append(noted, n) /\ n \in Notes /\ n.by = t /\ n.of = v
    BY <1>1 DEF DocumentInv, RowsOK, Notes, Noted
  <1>6. \A s \in Scopes : Completed(s) => Completed(s)'
    BY EndsKeys
  <1>7. Completed(t)'
    BY EndsKeys
  <1>8. \A i \in DOMAIN noted : noted[i].by # t
    BY NothingWritten
  <1>9. /\ \A w \in DOMAIN written : written[w].by # t /\ written[w].by \in Scopes
        /\ \A i \in DOMAIN noted : noted[i].by # <<>> => noted[i].by \in Scopes
    BY NothingWritten, WhoWrote
  <1> HIDE DEF n
  <1>10. /\ Len(noted) \in Nat /\ noted' \in Seq(Notes)
         /\ DOMAIN noted' = 1..Len(noted) + 1 /\ DOMAIN noted = 1..Len(noted)
         /\ \A i \in DOMAIN noted' : noted'[i] = IF i \in DOMAIN noted THEN noted[i] ELSE n
    BY <1>5
  <1>11. RowsOK'
    <2>1. v \in DOMAIN written
      BY DEF DocumentInv, RowsOK
    <2>2. \A i \in DOMAIN noted' : noted'[i].of \in DOMAIN written
      BY <1>5, <1>10, <2>1 DEF DocumentInv, RowsOK
    <2>3. QED
      BY <1>10, <2>2, EndsKeys DEF DocumentInv, RowsOK
  <1>12. WrittenIsCompleted'
    <2>1. ASSUME NEW i \in DOMAIN noted', noted'[i].by # <<>> PROVE Completed(noted[i].by)'
      <3>1. CASE i \in DOMAIN noted
        BY <1>6, <1>9, <1>10, <2>1, <3>1 DEF DocumentInv, WrittenIsCompleted, Completed
      <3>2. CASE i \notin DOMAIN noted
        BY <1>5, <1>7, <1>10, <2>1, <3>2 DEF Completed
      <3>3. QED
        BY <3>1, <3>2
    <2>2. \A w \in DOMAIN written : Completed(written[w].by)'
      BY <1>6, <1>9 DEF DocumentInv, WrittenIsCompleted, Completed
    <2>3. QED
      BY <2>1, <2>2 DEF WrittenIsCompleted, Completed
  <1>13. OncePerKey'
    BY <1>5, <1>8, <1>9, <1>10 DEF DocumentInv, OncePerKey
  <1>14. QED
    BY <1>4, <1>11, <1>12, <1>13 DEF DocumentInv

(* A version is written over the one that was read, and completes the key. *)
LEMMA InsertInv ==
  ASSUME DocumentInv, NEW c \in Writers, Busy(c), NEW status \in {"draft", "failed"},
         InsertVersion(c, status)
  PROVE  DocumentInv'
  <1>1. CASE SlotTaken(c)
    <2>1. UNCHANGED <<written, noted, keys>> /\ writer' = [writer EXCEPT ![c] = Served]
      BY <1>1 DEF InsertVersion
    <2>2. /\ Len(written') \in Nat /\ Len(written') >= Len(written)
          /\ \A s \in Scopes : keys'[s] = keys[s]
      BY <2>1, ScopeType
    <2>3. WritersOK' /\ OpenScopes'
      BY <2>1, <2>2, EndsOpen
    <2>4. QED
      BY <2>1, <2>3, RowsKept
  <1>2. CASE ~SlotTaken(c)
    <2> PICK t \in Scopes : t = ScopeOf(c)
      BY ScopeType
    <2> DEFINE base == BaseOf(c)
               row == [status |-> status, base |-> base, by |-> t]
               d == IF status = "failed" THEN "failed" ELSE "pending"
               note == [of |-> base + 1, type |-> "ai_review", decision |-> d, by |-> <<>>]
    <2>1. /\ t \in Scopes /\ t # <<>> /\ Len(written) \in Nat /\ base = Len(written)
          /\ base < MaxDocumentVersions
      BY <1>2, ScopeType, ScopeIsNotEmpty DEF SlotTaken
    <2>2. written' = Append(written, row) /\ noted' = Append(noted, note) /\ CommitWrite(c, "completed")
      BY <1>2 DEF InsertVersion, Noted
    <2>3. row \in Versions /\ row.by = t /\ row.base = base
      BY <2>1 DEF Versions
    <2>18. note \in Notes /\ note.by = <<>> /\ note.of = base + 1
      <3>1. d \in Decisions /\ "ai_review" \in NoteTypes /\ base + 1 \in Nat
        BY <2>1 DEF Decisions, NoteTypes
      <3> HIDE DEF d, base
      <3>2. QED
        BY <3>1 DEF Notes
    <2>4. written \in Seq(Versions) /\ noted \in Seq(Notes)
      BY DEF DocumentInv, RowsOK
    <2>5. \A i \in DOMAIN noted : noted[i].by # t
      BY NothingWritten
    <2>6. \A w \in DOMAIN written : written[w].by # t
      BY NothingWritten
    <2>7. \A s \in Scopes : Completed(s) => Completed(s)'
      BY <2>2, EndsKeys
    <2>8. Completed(t)'
      BY <2>2, EndsKeys
    <2>9. writer' = [writer EXCEPT ![c] = Served]
      BY <2>2 DEF CommitWrite
    <2>10. /\ \A s \in Scopes : s # t => keys'[s] = keys[s]
           /\ keys' = [s \in Scopes |-> keys'[s]]
           /\ \A s \in Scopes : keys'[s].status \in {"none", "running", "completed"}
      BY <2>2, EndsKeys
    <2> HIDE DEF row, note, base, d
    <2>11. /\ written' \in Seq(Versions) /\ Len(written') = Len(written) + 1
           /\ DOMAIN written' = 1..Len(written) + 1 /\ DOMAIN written = 1..Len(written)
           /\ \A w \in DOMAIN written' : written'[w] = IF w \in DOMAIN written THEN written[w] ELSE row
      BY <2>1, <2>2, <2>3, <2>4
    <2>12. /\ Len(noted) \in Nat /\ noted' \in Seq(Notes)
           /\ DOMAIN noted' = 1..Len(noted) + 1 /\ DOMAIN noted = 1..Len(noted)
           /\ \A i \in DOMAIN noted' : noted'[i] = IF i \in DOMAIN noted THEN noted[i] ELSE note
      BY <2>2, <2>18, <2>4
    <2>13. WritersOK' /\ OpenScopes'
      <3>1. Len(written') \in Nat /\ Len(written') >= Len(written)
        BY <2>1, <2>11
      <3>2. QED
        BY <2>9, <2>10, <3>1, EndsOpen
    <2>14. RowsOK'
      <3>1. \A w \in DOMAIN written' : written'[w].base = w - 1
        BY <2>1, <2>3, <2>11 DEF DocumentInv, RowsOK
      <3>2. \A i \in DOMAIN noted' : noted'[i].of \in DOMAIN written'
        BY <2>1, <2>18, <2>11, <2>12 DEF DocumentInv, RowsOK
      <3>3. Len(written') <= MaxDocumentVersions
        BY <2>1, <2>11, DocumentsAssumption
      <3>4. QED
        BY <2>10, <2>11, <2>12, <3>1, <3>2, <3>3 DEF RowsOK
    <2>15. WrittenIsCompleted'
      <3>1. ASSUME NEW w \in DOMAIN written' PROVE Completed(written[w].by)'
        <4>1. CASE w \in DOMAIN written
          <5>1. Completed(written[w].by) /\ written[w].by \in Scopes
            BY <4>1, WhoWrote DEF DocumentInv, WrittenIsCompleted
          <5>2. QED
            BY <2>7, <2>11, <4>1, <5>1 DEF Completed
        <4>2. CASE w \notin DOMAIN written
          BY <2>3, <2>8, <2>11, <4>2 DEF Completed
        <4>3. QED
          BY <4>1, <4>2
      <3>2. ASSUME NEW i \in DOMAIN noted', noted'[i].by # <<>> PROVE Completed(noted[i].by)'
        <4>1. i \in DOMAIN noted /\ noted'[i] = noted[i]
          BY <2>18, <2>12, <3>2
        <4>2. Completed(noted[i].by) /\ noted[i].by \in Scopes
          BY <3>2, <4>1, WhoWrote DEF DocumentInv, WrittenIsCompleted
        <4>3. QED
          BY <2>7, <4>1, <4>2 DEF Completed
      <3>3. QED
        BY <3>1, <3>2 DEF WrittenIsCompleted, Completed
    <2>16. OncePerKey'
      <3>1. \A v, w \in DOMAIN written' : written'[v].by = written'[w].by => v = w
        BY <2>3, <2>6, <2>11 DEF DocumentInv, OncePerKey
      <3>2. \A i, j \in DOMAIN noted' : noted'[i].by # <<>> /\ noted'[i].by = noted'[j].by => i = j
        BY <2>18, <2>12 DEF DocumentInv, OncePerKey
      <3>3. ASSUME NEW v \in DOMAIN written', NEW i \in DOMAIN noted'
            PROVE  written'[v].by # noted'[i].by
        <4>1. written'[v].by # <<>>
          BY <2>1, <2>3, <2>11, WhoWrote, ScopeIsNotEmpty
        <4>2. QED
          BY <2>3, <2>18, <2>5, <2>11, <2>12, <4>1 DEF DocumentInv, OncePerKey
      <3>4. QED
        BY <3>1, <3>2, <3>3 DEF OncePerKey
    <2>17. QED
      BY <2>11, <2>13, <2>14, <2>15, <2>16 DEF DocumentInv
  <1>3. QED
    BY <1>1, <1>2

LEMMA DocumentStep == DocumentInv /\ [DocumentNext]_documentVars => DocumentInv'
  <1> SUFFICES ASSUME DocumentInv, [DocumentNext]_documentVars PROVE DocumentInv'
    OBVIOUS
  <1>1. CASE UNCHANGED documentVars
    <2>1. UNCHANGED <<written, noted, keys, writer>>
      BY <1>1 DEF documentVars
    <2>2. WritersOK' /\ OpenScopes'
      BY <2>1 DEF DocumentInv, WritersOK, WriterOK, OpenScopes, Busy, Completed, ScopeOf, OpOf
    <2>3. QED
      BY <2>1, <2>2, RowsKept
  <1>2. ASSUME NEW c \in Writers, NEW req \in DocumentRequests, NEW k \in DocumentKeys,
               BeginWrite(c, req, k)
        PROVE  DocumentInv'
    BY <1>2, BeginInv
  <1>3. ASSUME NEW c \in Writers, CheckApproval(c) PROVE DocumentInv'
    BY <1>3, CheckInv
  <1>4. ASSUME NEW c \in Writers, NEW available \in BOOLEAN, Generate(c, available)
        PROVE  DocumentInv'
    <2>1. Busy(c)
      BY <1>4 DEF Generate, WriterAt, Busy, Served
    <2>2. CASE KeepsLatest(BaseOf(c), available)
      BY <1>4, <2>1, <2>2, AnswerInv DEF Generate
    <2>3. CASE ~KeepsLatest(BaseOf(c), available)
      BY <1>4, <2>1, <2>3, InsertInv DEF Generate
    <2>4. QED
      BY <2>2, <2>3
  <1>5. ASSUME NEW c \in Writers, EditContent(c) PROVE DocumentInv'
    <2>1. Busy(c)
      BY <1>5 DEF EditContent, WriterAt, Busy, Served
    <2>2. QED
      BY <1>5, <2>1, InsertInv DEF EditContent
  <1>6. ASSUME NEW c \in Writers, AppendNote(c) \/ Approve(c) PROVE DocumentInv'
    <2>1. Busy(c) /\ OpOf(c) # "generate" /\ UNCHANGED written /\ CommitWrite(c, "completed")
      BY <1>6 DEF AppendNote, Approve, WriterAt, Busy, Served
    <2>2. BaseOf(c) \in 1..Len(written)
      BY <2>1, ScopeType DEF DocumentInv, WritersOK, WriterOK, OpOf, BaseOf, Busy
    <2>3. CASE UNCHANGED noted
      BY <2>1, <2>3, AnswerInv
    <2>4. CASE ~UNCHANGED noted
      <3>1. \/ noted' = Noted(BaseOf(c), "operator_note", "pending", ScopeOf(c))
            \/ noted' = Noted(BaseOf(c), "approval", "approved", ScopeOf(c))
        BY <1>6, <2>4 DEF AppendNote, Approve
      <3>2. /\ "operator_note" \in NoteTypes /\ "approval" \in NoteTypes
            /\ "pending" \in Decisions /\ "approved" \in Decisions
        BY DEF NoteTypes, Decisions
      <3>3. QED
        BY <2>1, <2>2, <3>1, <3>2, NotedInv
    <2>5. QED
      BY <2>3, <2>4
  <1>7. QED
    BY <1>1, <1>2, <1>3, <1>4, <1>5, <1>6 DEF DocumentNext

(* The inductive invariant holds in every state.                           *)
THEOREM DocumentInvariance == DocumentSpec => []DocumentInv
  BY DocumentInitInv, DocumentStep, PTL DEF DocumentSpec

(* Versions, reviews, keys and requests keep their types, and a review is  *)
(* of a version there is (insert_version, insert_review).                  *)
THEOREM DocumentTypes == DocumentSpec => []DocumentTypeOK
  <1>1. ASSUME DocumentInv PROVE DocumentTypeOK
    <2>1. \A v \in DOMAIN written : written[v] \in Versions /\ written[v].base \in 0..MaxDocumentVersions
      BY <1>1, DocumentsAssumption DEF DocumentInv, RowsOK
    <2>2. \A r \in Versions : r.status \in {"draft", "failed"}
      BY DEF Versions
    <2>3. \A c \in Writers : writer[c].step \in {"idle", "check", "write"}
      BY <1>1 DEF DocumentInv, WritersOK, WriterOK, Served
    <2>4. (\A i \in DOMAIN noted : noted[i].of \in DOMAIN written)
          /\ \A s \in DOMAIN keys : keys[s].status \in {"none", "running", "completed"}
      BY <1>1 DEF DocumentInv, RowsOK
    <2>5. QED
      BY <2>1, <2>2, <2>3, <2>4 DEF DocumentTypeOK
  <1>2. QED
    BY <1>1, DocumentInvariance, PTL

(* A request that is repeated under its key, answered or not, leaves one   *)
(* version, one note or one approval (begin_idempotent_operation,          *)
(* complete_idempotent_operation, incident_document_repository.py).        *)
THEOREM KeySafety == DocumentSpec => []OncePerKey
  <1>1. DocumentInv => OncePerKey
    BY DEF DocumentInv
  <1>2. QED
    BY <1>1, DocumentInvariance, PTL

(* A version that is inserted is based on the latest one.                  *)
LEMMA InsertExtends ==
  ASSUME DocumentInv, NEW c \in Writers, Busy(c), NEW status, InsertVersion(c, status)
  PROVE  UNCHANGED DocumentLog \/ DocumentLog' = Append(DocumentLog, Len(DocumentLog))
  <1>1. CASE SlotTaken(c)
    BY <1>1 DEF InsertVersion, DocumentLog
  <1>2. CASE ~SlotTaken(c)
    <2> DEFINE row == [status |-> status, base |-> BaseOf(c), by |-> ScopeOf(c)]
    <2>1. Len(written) \in Nat /\ row.base = Len(written)
      BY <1>2, ScopeType DEF SlotTaken
    <2>2. written' = Append(written, row)
      BY <1>2 DEF InsertVersion
    <2>3. written \in Seq(Versions)
      BY DEF DocumentInv, RowsOK
    <2> HIDE DEF row
    <2>4. DOMAIN written = 1..Len(written) /\ DOMAIN written' = 1..Len(written) + 1
          /\ \A v \in DOMAIN written' : written'[v] = IF v \in DOMAIN written THEN written[v] ELSE row
      BY <2>1, <2>2, <2>3
    <2>5. \A v \in DOMAIN written : written[v].base \in Nat
      BY <2>1, <2>4 DEF DocumentInv, RowsOK
    <2>6. DocumentLog \in Seq(Nat) /\ Len(DocumentLog) = Len(written)
      BY <2>1, <2>4, <2>5 DEF DocumentLog
    <2>7. /\ DocumentLog' = [v \in 1..Len(written) + 1 |-> written'[v].base]
          /\ \A v \in 1..Len(written) + 1 :
               written'[v].base = IF v \in 1..Len(written) THEN DocumentLog[v] ELSE Len(written)
      BY <2>1, <2>4 DEF DocumentLog
    <2>8. ASSUME NEW n \in Nat, NEW s \in Seq(Nat), Len(s) = n
          PROVE  Append(s, n) = [v \in 1..n + 1 |-> IF v \in 1..n THEN s[v] ELSE n]
      <3>1. Append(s, n) \in Seq(Nat) /\ DOMAIN Append(s, n) = 1..n + 1
            /\ \A v \in 1..n + 1 : Append(s, n)[v] = IF v \in 1..n THEN s[v] ELSE n
        BY <2>8
      <3>2. \A t \in Seq(Nat) : t \in [1..Len(t) -> Nat]
        OBVIOUS
      <3>3. Append(s, n) \in [1..n + 1 -> Nat]
        BY <2>8, <3>1, <3>2
      <3> DEFINE t == Append(s, n)
      <3> HIDE DEF t
      <3>4. QED
        BY <3>1, <3>3 DEF t
    <2>9. DocumentLog' = [v \in 1..Len(written) + 1 |->
                           IF v \in 1..Len(written) THEN DocumentLog[v] ELSE Len(written)]
      BY <2>7
    <2>10. QED
      BY <2>1, <2>6, <2>8, <2>9
  <1>3. QED
    BY <1>1, <1>2

(* The versions of a document are a log to which only who has seen the     *)
(* latest version appends: the UNIQUE constraint refuses everybody else    *)
(* (insert_version).                                                       *)
DocumentVersions == INSTANCE VersionedRecord WITH Records <- {1}, log <- [d \in {1} |-> DocumentLog]
THEOREM DocumentIsVersioned == DocumentSpec => DocumentVersions!Spec
  <1>1. DocumentInit => DocumentVersions!Init
    BY DEF DocumentInit, DocumentVersions!Init, DocumentLog
  <1>2. DocumentInv /\ [DocumentNext]_documentVars
          => [DocumentVersions!Next]_([d \in {1} |-> DocumentLog])
    <2>1. SUFFICES ASSUME DocumentInv, [DocumentNext]_documentVars, DocumentLog' # DocumentLog
                   PROVE  DocumentVersions!Next
      OBVIOUS
    <2>2. PICK c \in Writers : \E status \in {"draft", "failed"} : Busy(c) /\ InsertVersion(c, status)
      <3>1. written' # written
        BY <2>1 DEF DocumentLog
      <3>2. PICK c \in Writers : (\E available \in BOOLEAN : Generate(c, available)) \/ EditContent(c)
        BY <2>1, <3>1 DEF DocumentNext, documentVars, BeginWrite, CheckApproval, AppendNote, Approve
      <3>3. Busy(c)
        BY <3>2 DEF Generate, EditContent, WriterAt, Busy, Served
      <3>4. \E status \in {"draft", "failed"} : InsertVersion(c, status)
        BY <3>1, <3>2 DEF Generate, EditContent
      <3>5. QED
        BY <3>3, <3>4
    <2>3. DocumentLog' = Append(DocumentLog, Len(DocumentLog))
      BY <2>1, <2>2, InsertExtends
    <2>4. DocumentVersions!Extend(1, Len(DocumentLog))
      BY <2>3 DEF DocumentVersions!Extend
    <2>5. QED
      BY <2>4 DEF DocumentVersions!Next
  <1>3. QED
    BY <1>1, <1>2, DocumentInvariance, PTL DEF DocumentSpec, DocumentVersions!Spec

-----------------------------------------------------------------------------
(* OperationsPolicy.                                                       *)
(*                                                                         *)
(* What is known of an administrator's form.  HalfRead of it was read at a *)
(* version so far.  A whole form has shifts no older than its values: if   *)
(* its values are still the latest, so are its shifts.  NoUpdateIsLost is  *)
(* not inductive without that: an accepted update could replace shifts     *)
(* its form never showed.                                                  *)
HalfRead(f) == f = [step |-> "half", values |-> f.values] /\ f.values \in 1..PolicyVersion
WholeRead(f) ==
  /\ f = [step |-> "form", values |-> f.values, shifts |-> f.shifts]
  /\ f.values \in Nat /\ f.shifts \in Nat
  /\ f.values <= f.shifts /\ f.shifts <= PolicyVersion
FormsOK == \A c \in Administrators : form[c] = Closed \/ HalfRead(form[c]) \/ WholeRead(form[c])
PolicyInv ==
  /\ updates \in Seq([values : Nat, shifts : Nat]) /\ PolicyVersion <= MaxPolicies
  /\ DOMAIN form = Administrators
  /\ form = [c \in Administrators |-> form[c]]
  /\ FormsOK
  /\ NoUpdateIsLost

LEMMA PolicyInitInv == PolicyInit => PolicyInv
  BY PoliciesAssumption DEF PolicyInit, PolicyInv, FormsOK, NoUpdateIsLost, PolicyVersion, Closed

(* An accepted update makes every other form that was read before stale;   *)
(* its own form showed the latest version of both.                         *)
LEMMA UpdateInv ==
  ASSUME PolicyInv, NEW c \in Administrators, UpdatePolicy(c)
  PROVE  PolicyInv'
  <1>1. form[c].step = "form" /\ form[c].values \in Nat /\ form[c].shifts \in Nat
        /\ form[c].values <= form[c].shifts /\ form[c].shifts <= PolicyVersion
    BY DEF PolicyInv, FormsOK, HalfRead, WholeRead, Closed, UpdatePolicy, FormAt
  <1>2. form' = [form EXCEPT ![c] = Closed]
    BY DEF UpdatePolicy
  <1>3. CASE updates' = updates
    BY <1>2, <1>3 DEF PolicyInv, FormsOK, NoUpdateIsLost, HalfRead, WholeRead, PolicyVersion
  <1>4. CASE /\ ExpectedVersion(c)
             /\ updates' = Append(updates, [values |-> form[c].values, shifts |-> form[c].shifts])
    <2>1. form[c].values = PolicyVersion /\ form[c].shifts = PolicyVersion
      BY <1>1, <1>4 DEF ExpectedVersion, PolicyVersion, PolicyInv
    <2>2. updates' \in Seq([values : Nat, shifts : Nat]) /\ Len(updates') = Len(updates) + 1
      BY <1>1, <1>4 DEF PolicyInv
    <2>3. NoUpdateIsLost'
      BY <1>4, <2>1 DEF PolicyInv, NoUpdateIsLost, PolicyVersion
    <2>4. ASSUME NEW d \in Administrators PROVE (form[d] = Closed \/ HalfRead(form[d]) \/ WholeRead(form[d]))'
      <3>1. CASE d = c
        BY <1>2, <3>1 DEF PolicyInv
      <3>2. CASE d # c
        <4>1. form'[d] = form[d]
          BY <1>2, <3>2 DEF PolicyInv
        <4>2. Len(updates) \in Nat /\ PolicyVersion' = PolicyVersion + 1
          BY <2>2 DEF PolicyInv, PolicyVersion
        <4>3. CASE form[d] = Closed
          BY <4>1, <4>3 DEF Closed
        <4>4. CASE HalfRead(form[d])
          BY <4>1, <4>2, <4>4 DEF HalfRead, PolicyVersion
        <4>5. CASE WholeRead(form[d])
          BY <4>1, <4>2, <4>5 DEF WholeRead, PolicyVersion
        <4>6. QED
          BY <4>3, <4>4, <4>5 DEF PolicyInv, FormsOK
      <3>3. QED
        BY <3>1, <3>2
    <2>5. PolicyVersion' <= MaxPolicies
      BY <2>2, PoliciesAssumption DEF PolicyInv, PolicyVersion, UpdatePolicy
    <2>6. QED
      BY <1>2, <2>2, <2>3, <2>4, <2>5 DEF PolicyInv, FormsOK
  <1>5. QED
    BY <1>3, <1>4 DEF UpdatePolicy

(* The two halves of a read.                                               *)
LEMMA ReadInv ==
  ASSUME PolicyInv, NEW c \in Administrators, ReadHalf(c) \/ ReadRest(c)
  PROVE  PolicyInv'
  <1>1. updates' = updates /\ PolicyVersion \in Nat /\ PolicyVersion >= 1
    BY DEF PolicyInv, ReadHalf, ReadRest, PolicyVersion
  <1>2. CASE ReadHalf(c)
    BY <1>1, <1>2 DEF PolicyInv, FormsOK, NoUpdateIsLost, ReadHalf, ValuesFirst, HalfRead, WholeRead, PolicyVersion
  <1>3. CASE ReadRest(c)
    <2>1. HalfRead(form[c])
      BY <1>3 DEF PolicyInv, FormsOK, ReadRest, FormAt, WholeRead, Closed
    <2>2. "values" \in DOMAIN form[c] /\ "shifts" \notin DOMAIN form[c]
      BY <2>1 DEF HalfRead
    <2>3. form' = [form EXCEPT ![c] =
                       [step |-> "form", values |-> form[c].values, shifts |-> PolicyVersion]]
      BY <1>3, <2>2 DEF ReadRest, PolicyInv
    <2>4. WholeRead([step |-> "form", values |-> form[c].values, shifts |-> PolicyVersion])
      BY <1>1, <2>1 DEF HalfRead, WholeRead
    <2>5. ASSUME NEW d \in Administrators PROVE (form[d] = Closed \/ HalfRead(form[d]) \/ WholeRead(form[d]))'
      <3>1. PolicyVersion' = PolicyVersion
        BY <1>1 DEF PolicyVersion
      <3>2. CASE d = c
        BY <2>3, <2>4, <3>1, <3>2 DEF PolicyInv, WholeRead
      <3>3. CASE d # c
        <4>1. form'[d] = form[d]
          BY <2>3, <3>3 DEF PolicyInv
        <4>2. QED
          BY <3>1, <4>1 DEF PolicyInv, FormsOK, HalfRead, WholeRead, Closed
      <3>4. QED
        BY <3>2, <3>3
    <2>6. QED
      BY <1>1, <2>3, <2>5 DEF PolicyInv, FormsOK, NoUpdateIsLost, PolicyVersion
  <1>4. QED
    BY <1>2, <1>3

THEOREM PolicyInvariance == PolicySpec => []PolicyInv
  <1>1. PolicyInv /\ [PolicyNext]_policyVars => PolicyInv'
    <2>1. SUFFICES ASSUME PolicyInv, [PolicyNext]_policyVars PROVE PolicyInv'
      OBVIOUS
    <2>2. CASE UNCHANGED policyVars
      BY <2>1, <2>2 DEF PolicyInv, FormsOK, NoUpdateIsLost, HalfRead, WholeRead, PolicyVersion, policyVars
    <2>3. CASE PolicyNext
      BY <2>1, <2>3, ReadInv, UpdateInv DEF PolicyNext
    <2>4. QED
      BY <2>1, <2>2, <2>3
  <1>2. QED
    BY <1>1, PolicyInitInv, PTL DEF PolicySpec

(* Versions and forms keep their types.                                    *)
THEOREM PolicyTypes == PolicySpec => []PolicyTypeOK
  <1>1. PolicyInv => PolicyTypeOK
    BY DEF PolicyInv, PolicyTypeOK, FormsOK, HalfRead, WholeRead, Closed
  <1>2. QED
    BY <1>1, PolicyInvariance, PTL

(* An update that is accepted was made on a form that showed the values    *)
(* and the shifts it replaces, although the two are read in two statements *)
(* (get_policy and update_policy, operations_policy_repository.py).        *)
THEOREM UpdateSafety == PolicySpec => []NoUpdateIsLost
  <1>1. PolicyInv => NoUpdateIsLost
    BY DEF PolicyInv
  <1>2. QED
    BY <1>1, PolicyInvariance, PTL

(* The versions of the policy are a log to which only who has seen the     *)
(* latest version appends (update_policy).                                 *)
PolicyVersions == INSTANCE VersionedRecord WITH Records <- {1}, log <- [d \in {1} |-> PolicyLog]
THEOREM PolicyIsVersioned == PolicySpec => PolicyVersions!Spec
  <1>1. PolicyInit => PolicyVersions!Init
    BY DEF PolicyInit, PolicyVersions!Init, PolicyLog
  <1>2. PolicyInv /\ [PolicyNext]_policyVars => [PolicyVersions!Next]_([d \in {1} |-> PolicyLog])
    <2>1. SUFFICES ASSUME PolicyInv, [PolicyNext]_policyVars, PolicyLog' # PolicyLog PROVE PolicyVersions!Next
      BY DEF PolicyInv
    <2>2. PICK c \in Administrators : UpdatePolicy(c)
      BY <2>1 DEF PolicyNext, policyVars, ReadHalf, ReadRest, PolicyLog
    <2>3. /\ ExpectedVersion(c)
          /\ updates' = Append(updates, [values |-> form[c].values, shifts |-> form[c].shifts])
      BY <2>1, <2>2 DEF UpdatePolicy, PolicyLog
    <2>4. form[c].values \in Nat /\ form[c].shifts \in Nat
      BY <2>1, <2>2 DEF PolicyInv, FormsOK, HalfRead, WholeRead, Closed, UpdatePolicy, FormAt
    <2>5. Len(PolicyLog) = Len(updates) /\ PolicyLog' = Append(PolicyLog, Len(PolicyLog))
      BY <2>1, <2>3, <2>4 DEF PolicyInv, PolicyLog, ExpectedVersion, PolicyVersion
    <2>6. PolicyVersions!Extend(1, Len(PolicyLog))
      BY <2>5 DEF PolicyVersions!Extend
    <2>7. QED
      BY <2>6 DEF PolicyVersions!Next
  <1>3. QED
    BY <1>1, <1>2, PolicyInvariance, PTL DEF PolicySpec, PolicyVersions!Spec
-----------------------------------------------------------------------------
(* OperationsReports.                                                      *)
(*                                                                         *)
(* A shift that had ended within the lookback is among the shifts the run  *)
(* finalizes: boundaries are twelve hours apart, so none lies between the  *)
(* one at or before the cutoff and a shift that ends behind it.            *)
LEMMA ShiftIsDue ==
  ASSUME NEW t \in Int, NEW p \in Shifts, DueAt(p) <= t, End(p) > Cutoff(t)
  PROVE  p \in DueShifts(t)
  <1>1. PICK s \in 0..Horizon : IsBoundary(s) /\ p = [type |-> "shift", start |-> s]
    BY DEF Shifts
  <1>2. s \in Int /\ s % 24 \in {8, 20} /\ End(p) = s + 12 /\ DueAt(p) = s + 12
    BY <1>1, ReportsAssumption DEF IsBoundary, End, DueAt
  <1> DEFINE c == Cutoff(t)
  <1>3. c \in Int /\ s + 12 > c
    BY <1>2, ReportsAssumption DEF Cutoff
  <1> HIDE DEF c
  <1>4. s >= FloorShiftBoundary(c)
    BY <1>2, <1>3, SMTT(30) DEF FloorShiftBoundary, Midnight, Day
  <1>5. QED
    BY <1>1, <1>2, <1>4 DEF DueShifts, c

(* A day that was due, and had ended within the lookback, is among the     *)
(* days the run finalizes: it is no earlier than the day of the cutoff and *)
(* no later than the last one whose 8:00 has come.                         *)
LEMMA DayIsDue ==
  ASSUME NEW t \in Int, NEW p \in Days, DueAt(p) <= t, End(p) > Cutoff(t)
  PROVE  p \in DueDays(t)
  <1>1. PICK d \in 0..Day(Horizon) : p = [type |-> "daily", start |-> 24 * d]
    BY DEF Days
  <1>2. d \in Int
    BY <1>1, ReportsAssumption DEF Day
  <1>3. Day(p.start) = d /\ End(p) = 24 * d + 24 /\ DueAt(p) = 24 * d + 32
    BY <1>1, <1>2 DEF Day, End, DueAt
  <1> DEFINE c == Cutoff(t)
  <1>4. c \in Int /\ 24 * d + 24 > c /\ 24 * d + 32 <= t
    BY <1>3, ReportsAssumption DEF Cutoff
  <1> HIDE DEF c
  <1>5. Day(c) <= d /\ d <= LatestDueDay(t)
    BY <1>2, <1>4, SMTT(30) DEF Day, LatestDueDay
  <1>6. Day(c) \in Int /\ LatestDueDay(t) \in Int
    BY <1>4 DEF Day, LatestDueDay
  <1>7. QED
    BY <1>2, <1>3, <1>4, <1>5, <1>6 DEF DueDays, c

LEMMA PeriodIsDue ==
  ASSUME NEW t \in Int, NEW p \in Periods, DueAt(p) <= t, End(p) > Cutoff(t)
  PROVE  p \in DuePeriods(t)
  <1>1. CASE p \in Shifts
    BY <1>1, ShiftIsDue DEF DuePeriods
  <1>2. CASE p \in Days
    BY <1>2, DayIsDue DEF DuePeriods
  <1>3. QED
    BY <1>1, <1>2 DEF Periods

(* What is known of a scheduler run: the due periods of its clock that it  *)
(* has left behind were attempted.  And of a correction: its version has   *)
(* been published.  An attempted period stays so whatever later runs do,   *)
(* which carries NothingForgotten from the end of a run to the next one's. *)
Statuses == {"none", "official", "failed", "overdue"}
Marking(u) == u = [step |-> "mark", at |-> u.at, due |-> {}] /\ u.at \in Moments
Finalizing(u) ==
  /\ u = [step |-> "finalize", at |-> u.at, due |-> u.due] /\ u.at \in Moments
  /\ u.due \subseteq DuePeriods(u.at)
  /\ \A p \in DuePeriods(u.at) \ u.due : period[p] # "none"
RunOK(u) == u = Away \/ Marking(u) \/ Finalizing(u)
CorrectionOK(u) ==
  \/ u = Away
  \/ /\ u = [step |-> "seen", of |-> u.of, seen |-> u.seen]
     /\ u.of \in Periods /\ u.seen \in 1..MaxCorrections - 1 /\ u.seen <= Len(reports[u.of])
ReportInv ==
  /\ now \in Moments /\ checked \in Moments \cup {0}
  /\ period \in [Periods -> Statuses]
  /\ reports \in [Periods -> Seq(Nat)] /\ \A p \in Periods : Len(reports[p]) <= MaxCorrections
  /\ runner = [r \in Runners |-> runner[r]] /\ corrector = [c \in Correctors |-> corrector[c]]
  /\ \A r \in Runners : RunOK(runner[r])
  /\ \A c \in Correctors : CorrectionOK(corrector[c])
  /\ PublishedStaysOfficial
  /\ checked > 0 => \A p \in DuePeriods(checked) : period[p] # "none"

LEMMA ReportInitInv == ReportInit => ReportInv
  <1>1. SUFFICES ASSUME ReportInit PROVE ReportInv
    OBVIOUS
  <1>2. reports \in [Periods -> Seq(Nat)] /\ \A p \in Periods : Len(reports[p]) = 0
    BY <1>1 DEF ReportInit
  <1>3. QED
    BY <1>1, <1>2, ReportsAssumption
      DEF ReportInit, ReportInv, Statuses, RunOK, CorrectionOK, PublishedStaysOfficial

(* Nothing takes a period back to "none".                                  *)
AttemptsKept ==
  /\ period' \in [Periods -> Statuses]
  /\ \A p \in Periods : period[p] # "none" => period'[p] # "none"

LEMMA DueArePeriods == \A t : DuePeriods(t) \subseteq Periods
  BY DEF DuePeriods, DueShifts, DueDays, Periods

LEMMA RunKept ==
  ASSUME ReportInv, AttemptsKept, NEW r \in Runners, runner'[r] = runner[r]
  PROVE  RunOK(runner[r])'
  <1>1. CASE Finalizing(runner[r])
    BY <1>1, DueArePeriods DEF AttemptsKept, RunOK, Finalizing
  <1>2. CASE runner[r] = Away \/ Marking(runner[r])
    BY <1>2 DEF RunOK, Marking, Away
  <1>3. QED
    BY <1>1, <1>2 DEF ReportInv, RunOK

LEMMA CheckedKept ==
  ASSUME ReportInv, AttemptsKept, checked' = checked
  PROVE  (checked > 0 => \A p \in DuePeriods(checked) : period[p] # "none")'
  BY DueArePeriods DEF ReportInv, AttemptsKept

(* Corrections read before a report grew were read of a version it has.    *)
LEMMA CorrectionKept ==
  ASSUME ReportInv, NEW c \in Correctors, corrector'[c] = corrector[c],
         \A p \in Periods : Len(reports'[p]) >= Len(reports[p]),
         reports' \in [Periods -> Seq(Nat)]
  PROVE  CorrectionOK(corrector[c])'
  <1>1. CASE corrector[c] = Away
    BY <1>1 DEF CorrectionOK, Away
  <1>2. CASE corrector[c] # Away
    <2> DEFINE p == corrector[c].of
    <2>1. p \in Periods /\ corrector[c].seen \in Nat /\ corrector[c].seen <= Len(reports[p])
      BY <1>2, ReportsAssumption DEF ReportInv, CorrectionOK
    <2>2. Len(reports[p]) \in Nat /\ Len(reports'[p]) \in Nat
      BY <2>1 DEF ReportInv
    <2>3. corrector[c].seen <= Len(reports'[p])
      BY <2>1, <2>2
    <2>4. QED
      BY <1>2, <2>3 DEF ReportInv, CorrectionOK
  <1>3. QED
    BY <1>1, <1>2

LEMMA ClockInv ==
  ASSUME ReportInv, ClockMoves
  PROVE  ReportInv'
  <1>1. AttemptsKept /\ checked' = checked /\ reports' = reports /\ now' \in Moments
    BY DEF ReportInv, ClockMoves, AttemptsKept
  <1>2. \A r \in Runners : RunOK(runner[r])'
    BY <1>1, RunKept DEF ClockMoves
  <1>3. \A c \in Correctors : CorrectionOK(corrector[c])'
    BY DEF ReportInv, ClockMoves, CorrectionOK
  <1>4. QED
    BY <1>1, <1>2, <1>3, CheckedKept DEF ReportInv, ClockMoves, PublishedStaysOfficial

(* A run moves; the periods are as they were.                              *)
LEMMA QuietRunInv ==
  ASSUME ReportInv, NEW r \in Runners, BeginRun(r) \/ AbortRun(r) \/ FinishRun(r)
  PROVE  ReportInv'
  <1>1. AttemptsKept /\ UNCHANGED <<now, period, reports, corrector>>
    BY DEF ReportInv, BeginRun, AbortRun, FinishRun, AttemptsKept
  <1>2. PICK u \in {Away, [step |-> "mark", at |-> now, due |-> {}]} : runner' = [runner EXCEPT ![r] = u]
    BY DEF BeginRun, AbortRun, FinishRun
  <1>3. ASSUME NEW s \in Runners PROVE RunOK(runner[s])'
    <2>1. CASE s = r
      BY <1>2, <2>1 DEF ReportInv, RunOK, Marking
    <2>2. CASE s # r
      BY <1>1, <1>2, <2>2, RunKept DEF ReportInv
    <2>3. QED
      BY <2>1, <2>2
  <1>4. \A c \in Correctors : CorrectionOK(corrector[c])'
    BY <1>1 DEF ReportInv, CorrectionOK
  <1>5. /\ checked' \in Moments \cup {0}
        /\ (checked > 0 => \A p \in DuePeriods(checked) : period[p] # "none")'
    <2>1. CASE FinishRun(r)
      <3>1. Finalizing(runner[r])
        BY <2>1 DEF ReportInv, RunOK, Marking, Away, FinishRun
      <3>2. QED
        BY <1>1, <2>1, <3>1 DEF FinishRun, Finalizing
    <2>2. CASE ~FinishRun(r)
      <3>1. checked' = checked
        BY <2>2 DEF BeginRun, AbortRun
      <3>2. QED
        BY <1>1, <3>1, CheckedKept DEF ReportInv
    <2>3. QED
      BY <2>1, <2>2
  <1>6. QED
    BY <1>1, <1>2, <1>3, <1>4, <1>5 DEF ReportInv, PublishedStaysOfficial

(* mark_overdue_periods passes over what is published or has no row.       *)
LEMMA MarkInv ==
  ASSUME ReportInv, NEW r \in Runners, MarkOverdue(r)
  PROVE  ReportInv'
  <1>1. Marking(runner[r])
    BY DEF ReportInv, RunOK, Finalizing, Away, MarkOverdue
  <1> DEFINE t == runner[r].at
  <1>2. /\ UNCHANGED <<now, reports, corrector, checked>>
        /\ runner' = [runner EXCEPT ![r] = [step |-> "finalize", at |-> t, due |-> DuePeriods(t)]]
    BY DEF MarkOverdue
  <1>3. /\ period' \in [Periods -> Statuses]
        /\ \A p \in Periods : period[p] \in {"none", "official"} => period'[p] = period[p]
        /\ \A p \in Periods : period[p] \notin {"none", "official"} => period'[p] \notin {"none", "official"}
    BY DEF ReportInv, MarkOverdue, Unpublished, Statuses
  <1>4. AttemptsKept
    BY <1>3 DEF AttemptsKept, ReportInv
  <1>5. ASSUME NEW s \in Runners PROVE RunOK(runner[s])'
    <2>1. CASE s = r
      BY <1>1, <1>2, <2>1 DEF ReportInv, RunOK, Finalizing, Marking
    <2>2. CASE s # r
      BY <1>2, <1>4, <2>2, RunKept DEF ReportInv
    <2>3. QED
      BY <2>1, <2>2
  <1>6. \A c \in Correctors : CorrectionOK(corrector[c])'
    BY <1>2 DEF ReportInv, CorrectionOK
  <1>7. PublishedStaysOfficial'
    BY <1>2, <1>3 DEF ReportInv, PublishedStaysOfficial
  <1>8. QED
    BY <1>2, <1>3, <1>4, <1>5, <1>6, <1>7, CheckedKept DEF ReportInv

(* What finalize_period makes of a period, as published or as failed.      *)
LEMMA FinalizeInv ==
  ASSUME ReportInv, NEW r \in Runners, NEW p \in Periods, FinalizePeriod(r, p)
  PROVE  ReportInv'
  <1>1. Finalizing(runner[r])
    BY DEF ReportInv, RunOK, Marking, Away, FinalizePeriod
  <1> DEFINE t == runner[r].at
             d == runner[r].due
  <1>2. /\ UNCHANGED <<now, corrector, checked>>
        /\ runner' = [runner EXCEPT ![r] = [step |-> "finalize", at |-> t, due |-> d \ {p}]]
    <2>1. /\ UNCHANGED <<now, corrector, checked>>
          /\ runner' = [runner EXCEPT ![r] = [runner[r] EXCEPT !.due = d \ {p}]]
      BY DEF FinalizePeriod
    <2>2. [runner[r] EXCEPT !.due = d \ {p}] = [step |-> "finalize", at |-> t, due |-> d \ {p}]
      BY <1>1 DEF Finalizing
    <2>3. QED
      BY <2>1, <2>2
  <1>3. PICK result \in {"official", "failed"} :
           /\ period' = [period EXCEPT ![p] = result]
           /\ IF result = "official" /\ reports[p] = <<>>
              THEN reports' = [reports EXCEPT ![p] = <<0>>]
              ELSE reports' = reports
           /\ result = "failed" => period[p] # "official"
    <2>1. CASE period[p] = "official"
      <3>1. period' = period /\ reports' = reports
        BY <2>1 DEF FinalizePeriod
      <3>2. reports[p] # <<>> /\ period' = [period EXCEPT ![p] = "official"]
        BY <2>1, <3>1 DEF ReportInv, PublishedStaysOfficial
      <3>3. QED
        BY <2>1, <3>1, <3>2
    <2>2. CASE period[p] # "official"
      BY <2>2 DEF FinalizePeriod
    <2>3. QED
      BY <2>1, <2>2
  <1>4. /\ period' \in [Periods -> Statuses] /\ period'[p] # "none"
        /\ \A q \in Periods \ {p} : period'[q] = period[q]
    BY <1>3 DEF ReportInv, Statuses
  <1>5. AttemptsKept
    BY <1>4 DEF AttemptsKept
  <1>6. ASSUME NEW s \in Runners PROVE RunOK(runner[s])'
    <2>1. CASE s = r
      <3>1. \A q \in DuePeriods(t) \ (d \ {p}) : period'[q] # "none"
        BY <1>1, <1>4, <1>5, DueArePeriods DEF Finalizing, AttemptsKept
      <3>2. QED
        BY <1>1, <1>2, <2>1, <3>1 DEF ReportInv, RunOK, Finalizing
    <2>2. CASE s # r
      BY <1>2, <1>5, <2>2, RunKept DEF ReportInv
    <2>3. QED
      BY <2>1, <2>2
  <1>7. /\ reports' \in [Periods -> Seq(Nat)]
        /\ \A q \in Periods : Len(reports'[q]) >= Len(reports[q]) /\ Len(reports'[q]) <= MaxCorrections
    <2>1. CASE reports' = reports
      BY <2>1 DEF ReportInv
    <2>2. CASE reports[p] = <<>> /\ reports' = [reports EXCEPT ![p] = <<0>>]
      <3>1. <<0>> \in Seq(Nat) /\ Len(<<0>>) = 1 /\ Len(reports[p]) = 0
        BY <2>2
      <3>2. QED
        BY <2>2, <3>1, ReportsAssumption DEF ReportInv
    <2>3. QED
      BY <1>3, <2>1, <2>2
  <1>8. \A c \in Correctors : CorrectionOK(corrector[c])'
    BY <1>2, <1>7, CorrectionKept
  <1>9. PublishedStaysOfficial'
    <2>1. ASSUME NEW q \in Periods PROVE (period'[q] = "official") <=> (reports'[q] # <<>>)
      <3>1. (period[q] = "official") <=> (reports[q] # <<>>)
        BY DEF ReportInv, PublishedStaysOfficial
      <3>2. <<0>> # <<>>
        OBVIOUS
      <3>3. QED
        BY <1>3, <3>1, <3>2 DEF ReportInv
    <2>2. QED
      BY <2>1 DEF PublishedStaysOfficial
  <1>10. QED
    BY <1>2, <1>4, <1>5, <1>6, <1>7, <1>8, <1>9, CheckedKept DEF ReportInv

(* A correction is made on top of the version it was read of.              *)
LEMMA CorrectInv ==
  ASSUME ReportInv, NEW c \in Correctors,
         CorrectReport(c) \/ \E p \in Periods : ViewReport(c, p)
  PROVE  ReportInv'
  <1>1. /\ UNCHANGED <<now, period, runner, checked>>
        /\ corrector' = [corrector EXCEPT ![c] = corrector'[c]]
    BY DEF ReportInv, CorrectReport, ViewReport
  <1>2. AttemptsKept
    BY <1>1 DEF ReportInv, AttemptsKept
  <1>3. \A r \in Runners : RunOK(runner[r])'
    BY <1>1, <1>2, RunKept
  <1>4. /\ reports' \in [Periods -> Seq(Nat)]
        /\ \A p \in Periods : Len(reports'[p]) >= Len(reports[p]) /\ Len(reports'[p]) <= MaxCorrections
        /\ PublishedStaysOfficial' /\ CorrectionOK(corrector[c])'
    <2>1. CASE reports' = reports
      <3>1. CASE corrector'[c] = Away
        BY <1>1, <2>1, <3>1 DEF ReportInv, PublishedStaysOfficial, CorrectionOK
      <3>2. CASE corrector'[c] # Away
        <4>1. PICK p \in Periods : ViewReport(c, p)
          BY <3>2 DEF ReportInv, CorrectReport
        <4>2. Len(reports[p]) \in 1..MaxCorrections - 1
          BY <4>1 DEF ViewReport
        <4>3. corrector'[c] = [step |-> "seen", of |-> p, seen |-> Len(reports[p])]
          BY <4>1 DEF ReportInv, ViewReport
        <4>4. QED
          BY <1>1, <2>1, <4>2, <4>3 DEF ReportInv, PublishedStaysOfficial, CorrectionOK
      <3>3. QED
        BY <3>1, <3>2
    <2>2. CASE reports' # reports
      <3> DEFINE p == corrector[c].of
                 n == corrector[c].seen
      <3>1. /\ reports' = [reports EXCEPT ![p] = Append(reports[p], n)]
            /\ n = Len(reports[p]) /\ corrector'[c] = Away
        BY <2>2 DEF ReportInv, CorrectReport, ViewReport, SeesLatest
      <3>2. p \in Periods /\ n \in 1..MaxCorrections - 1
        BY <2>2 DEF ReportInv, CorrectionOK, CorrectReport, ViewReport, Away
      <3> HIDE DEF p, n
      <3>3. reports[p] \in Seq(Nat) /\ n \in Nat
        BY <3>2, ReportsAssumption DEF ReportInv
      <3>4. /\ Append(reports[p], n) \in Seq(Nat) /\ Len(Append(reports[p], n)) = n + 1
            /\ Append(reports[p], n) # <<>> /\ reports[p] # <<>>
        BY <3>1, <3>2, <3>3
      <3>5. QED
        BY <1>1, <3>1, <3>2, <3>3, <3>4, ReportsAssumption
          DEF ReportInv, PublishedStaysOfficial, CorrectionOK
    <2>3. QED
      BY <2>1, <2>2
  <1>5. ASSUME NEW d \in Correctors PROVE CorrectionOK(corrector[d])'
    <2>1. CASE d = c
      BY <1>4, <2>1
    <2>2. CASE d # c
      BY <1>1, <1>4, <2>2, CorrectionKept DEF ReportInv
    <2>3. QED
      BY <2>1, <2>2
  <1>6. QED
    BY <1>1, <1>2, <1>3, <1>4, <1>5, CheckedKept DEF ReportInv

THEOREM ReportInvariance == ReportSpec => []ReportInv
  <1>1. ReportInv /\ [ReportNext]_reportVars => ReportInv'
    <2>1. SUFFICES ASSUME ReportInv, [ReportNext]_reportVars PROVE ReportInv'
      OBVIOUS
    <2>2. CASE UNCHANGED reportVars
      BY <2>1, <2>2 DEF ReportInv, PublishedStaysOfficial, RunOK, Marking, Finalizing,
                        CorrectionOK, reportVars
    <2>3. CASE ReportNext
      BY <2>1, <2>3, ClockInv, QuietRunInv, MarkInv, FinalizeInv, CorrectInv DEF ReportNext
    <2>4. QED
      BY <2>1, <2>2, <2>3
  <1>2. QED
    BY <1>1, ReportInitInv, PTL DEF ReportSpec

(* Rows, runs and corrections keep their types.                            *)
THEOREM ReportTypes == ReportSpec => []ReportTypeOK
  <1>1. ReportInv => ReportTypeOK
    BY DEF ReportInv, ReportTypeOK, Statuses, RunOK, Marking, Finalizing, CorrectionOK, Away
  <1>2. QED
    BY <1>1, ReportInvariance, PTL

(* Whichever scheduler runs overlap, and whenever they began, a published  *)
(* report stays official and nothing else is shown as one (finalize_period *)
(* and mark_overdue_periods, operations_report_repository.py).             *)
THEOREM PublicationSafety == ReportSpec => []PublishedStaysOfficial
  <1>1. ReportInv => PublishedStaysOfficial
    BY DEF ReportInv
  <1>2. QED
    BY <1>1, ReportInvariance, PTL

(* For every lookback and every sequence of clocks at full hours, the      *)
(* windows of the scheduler runs leave no gap (_due_periods,               *)
(* operations_report_scheduler.py).                                        *)
THEOREM NoPeriodForgotten == ReportSpec => []NothingForgotten
  <1>1. ReportInv => NothingForgotten
    <2>1. SUFFICES ASSUME ReportInv, NEW p \in Periods,
                          checked > 0, DueAt(p) <= checked, End(p) > Cutoff(checked)
                   PROVE  period[p] # "none"
      BY DEF NothingForgotten
    <2>2. checked \in Int
      BY <2>1, ReportsAssumption DEF ReportInv
    <2>3. p \in DuePeriods(checked)
      BY <2>1, <2>2, PeriodIsDue
    <2>4. QED
      BY <2>1, <2>3 DEF ReportInv
  <1>2. QED
    BY <1>1, ReportInvariance, PTL

(* The versions of every report are a log to which only who has seen the   *)
(* latest version appends (create_correction).                             *)
ReportVersions == INSTANCE VersionedRecord WITH Records <- Periods, log <- reports
THEOREM ReportsAreVersioned == ReportSpec => ReportVersions!Spec
  <1>1. ReportInit => ReportVersions!Init
    BY DEF ReportInit, ReportVersions!Init
  <1>2. ReportInv /\ [ReportNext]_reportVars => [ReportVersions!Next]_reports
    <2>1. SUFFICES ASSUME ReportInv, ReportNext, reports' # reports PROVE ReportVersions!Next
      BY DEF reportVars
    <2>2. CASE \E r \in Runners, p \in Periods : FinalizePeriod(r, p)
      <3>1. PICK p \in Periods : reports[p] = <<>> /\ reports' = [reports EXCEPT ![p] = <<0>>]
        BY <2>1, <2>2 DEF FinalizePeriod
      <3>2. ReportVersions!Extend(p, Len(reports[p])) /\ Len(reports[p]) = 0
        BY <3>1 DEF ReportVersions!Extend, ReportInv
      <3>3. QED
        BY <3>2 DEF ReportVersions!Next
    <2>3. CASE \E c \in Correctors : CorrectReport(c)
      <3>1. PICK c \in Correctors : CorrectReport(c) /\ SeesLatest(c)
        BY <2>1, <2>3 DEF CorrectReport
      <3>2. corrector[c].of \in Periods
        BY <2>1, <3>1 DEF ReportInv, CorrectionOK, CorrectReport, Away
      <3>3. ReportVersions!Extend(corrector[c].of, Len(reports[corrector[c].of]))
        BY <2>1, <3>1 DEF ReportVersions!Extend, CorrectReport, SeesLatest
      <3>4. QED
        BY <3>2, <3>3 DEF ReportVersions!Next
    <2>4. QED
      BY <2>1, <2>2, <2>3 DEF ReportNext, ClockMoves, BeginRun, MarkOverdue, AbortRun, FinishRun, ViewReport
  <1>3. QED
    BY <1>1, <1>2, ReportInvariance, PTL DEF ReportSpec, ReportVersions!Spec
-----------------------------------------------------------------------------
(* Retraining.                                                             *)
(*                                                                         *)
(* How far a job, the task that trains it and its candidate may be apart:  *)
(* a task there is has an approved job and trains it once, a candidate has *)
(* the files it was trained to, and whoever restores has what to restore.  *)
Waiting == {"absent", "pending_approval", "approved", "rejected"}
AtModels == {"train", "training", "copy", "restore"}
JobInv(j) ==
  /\ trainings[j] <= 1
  /\ trainer[j].step \in {"scheduled", "mark"} => job[j] = "approved"
  /\ trainer[j].step \in AtModels \cup {"baseline", "candidate", "complete"} => job[j] = "running"
  /\ trainer[j].step = "review" => job[j] = "completed"
  /\ trainer[j].step = "fail" => job[j] \in {"running", "completed"}
  /\ job[j] \in Waiting \/ trainer[j].step \in {"baseline", "train"} => trainings[j] = 0
  /\ trainer[j].step \in AtModels => baseline[j] # Nothing /\ trainer[j].previous # Nothing
  /\ trainer[j].step = "candidate" \/ (trainer[j].step = "restore" /\ ~trainer[j].failed)
       => artifact[j] # Nothing
  /\ candidate[j] # "none" =>
       /\ job[j] \notin Waiting /\ artifact[j] # Nothing
       /\ trainer[j].step \in {"idle", "complete", "review", "fail"}

(* A request that acts has what it acts on.                                *)
OnCandidate == {"promote", "reject", "deploy", "activate"}
HandlerInv(h) ==
  /\ handler[h].step = "decide" => handler[h].task \in Tasks
  /\ handler[h].step \in OnCandidate \cup {"approve"} => handler[h].job \in Jobs
  /\ handler[h].step \in OnCandidate => candidate[handler[h].job] # "none"

ActiveInv ==
  /\ \A j \in active : candidate[j] # "none"
  /\ \A i, j \in active : i = j

(* Where nothing has disturbed them, retrainings and activations exclude   *)
(* each other; whoever retrains has saved the deployed models, whoever     *)
(* activates is about to copy them, and otherwise they are in place.       *)
Activates(h) == Serves(h, "activate")
ModelsInv ==
  /\ \A i, j \in Jobs : Retrains(i) /\ Retrains(j) => i = j
  /\ \A g, h \in Handlers : Activates(g) /\ Activates(h) => g = h
  /\ \A j \in Jobs, h \in Handlers : ~(Retrains(j) /\ Activates(h))
  /\ \A j \in Jobs : Retrains(j) => baseline[j] \in Deployed
  /\ \A h \in Handlers : Activates(h) => handler[h].job \in active
  /\ Occupied \/ models \in Deployed

RetrainingInv ==
  /\ RetrainingTypeOK
  /\ \A j \in Jobs : JobInv(j)
  /\ \A h \in Handlers : HandlerInv(h)
  /\ ActiveInv
  /\ disturbed \/ ModelsInv

LEMMA TrainerTypes ==
  /\ Parked \in Trainers /\ [Parked EXCEPT !.step = "scheduled"] \in Trainers
  /\ Parked.step = "idle" /\ [Parked EXCEPT !.step = "scheduled"].step = "scheduled"
  BY DEF Parked, Trainers

LEMMA HandlerTypes == NoRequest \in Attended /\ NoRequest.step = "idle"
  BY DEF NoRequest, Attended

LEMMA RetrainingInitInv == RetrainingInit => RetrainingInv
  <1>1. SUFFICES ASSUME RetrainingInit PROVE RetrainingInv
    OBVIOUS
  <1>2. /\ \A j \in Jobs : /\ trainer[j] = Parked /\ job[j] = "absent" /\ candidate[j] = "none"
                           /\ trainings[j] = 0
        /\ \A h \in Handlers : handler[h] = NoRequest
    BY <1>1 DEF RetrainingInit
  <1>3. RetrainingTypeOK
    <2>1. task \in [Tasks -> {"pending", "approved", "rejected", "corrected"}]
      BY <1>1 DEF RetrainingInit
    <2>2. feedback \in [Tasks -> {"none", "approved", "rejected", "corrected"}]
      BY <1>1 DEF RetrainingInit
    <2>3. /\ crashes \in 0..MaxCrashes /\ models \in Models /\ environ \in Jobs \cup {Plain}
          /\ active \subseteq Jobs
      BY <1>1, RetrainingAssumption DEF RetrainingInit, Models
    <2>4. trainer \in [Jobs -> Trainers] /\ handler \in [Handlers -> Attended]
      BY <1>1, TrainerTypes, HandlerTypes DEF RetrainingInit
    <2>5. disturbed \in BOOLEAN
      BY <1>1 DEF RetrainingInit
    <2>6. QED
      BY <1>1, <2>1, <2>2, <2>3, <2>4, <2>5 DEF RetrainingInit, RetrainingTypeOK
  <1>4. ASSUME NEW j \in Jobs PROVE JobInv(j)
    BY <1>2, TrainerTypes DEF JobInv, Waiting, AtModels
  <1>5. ASSUME NEW h \in Handlers PROVE HandlerInv(h)
    BY <1>2, HandlerTypes DEF HandlerInv, OnCandidate
  <1>6. ActiveInv /\ ModelsInv
    BY <1>1, <1>2, TrainerTypes, HandlerTypes DEF RetrainingInit, ActiveInv, ModelsInv, Retrains,
       Activates, Occupied, Deployed, Serves
  <1>7. QED
    BY <1>3, <1>4, <1>5, <1>6 DEF RetrainingInv

(* A task goes on, a request goes on or is answered.                       *)
TrainerSteps ==
  {"idle", "scheduled", "mark", "baseline", "train", "training", "copy", "restore",
   "candidate", "complete", "review", "fail"}
LEMMA Goes ==
  ASSUME RetrainingTypeOK, NEW j \in Jobs, NEW step \in TrainerSteps, Proceeds(j, step)
  PROVE  /\ trainer' \in [Jobs -> Trainers]
         /\ \A i \in Jobs : i # j => trainer'[i] = trainer[i]
         /\ trainer'[j].step = step /\ trainer'[j].previous = trainer[j].previous
         /\ trainer'[j].failed = trainer[j].failed
  BY SMTT(30) DEF RetrainingTypeOK, Trainers, Proceeds, TrainerSteps

LEMMA Attends ==
  ASSUME RetrainingTypeOK, NEW h \in Handlers, NEW r \in Attended,
         handler' = [handler EXCEPT ![h] = r]
  PROVE  /\ handler' \in [Handlers -> Attended] /\ handler'[h] = r
         /\ \A g \in Handlers : g # h => handler'[g] = handler[g]
  BY DEF RetrainingTypeOK

LEMMA TakesTask ==
  ASSUME RetrainingTypeOK, NEW h \in Handlers, NEW t \in Tasks,
         handler' = [handler EXCEPT ![h] = [NoRequest EXCEPT !.step = "decide", !.task = t]]
  PROVE  /\ handler' \in [Handlers -> Attended]
         /\ handler'[h].step = "decide" /\ handler'[h].task = t
         /\ \A g \in Handlers : g # h => handler'[g] = handler[g]
  <1> DEFINE r == [NoRequest EXCEPT !.step = "decide", !.task = t]
  <1>1. r \in Attended /\ r.step = "decide" /\ r.task = t
    BY DEF NoRequest, Attended
  <1> HIDE DEF r
  <1>2. QED
    BY <1>1, Attends DEF r

LEMMA TakesJob ==
  ASSUME RetrainingTypeOK, NEW h \in Handlers, NEW j \in Jobs,
         NEW step \in {"approve", "promote", "reject"},
         handler' = [handler EXCEPT ![h] = [NoRequest EXCEPT !.step = step, !.job = j]]
  PROVE  /\ handler' \in [Handlers -> Attended]
         /\ handler'[h].step = step /\ handler'[h].job = j
         /\ \A g \in Handlers : g # h => handler'[g] = handler[g]
  <1> DEFINE r == [NoRequest EXCEPT !.step = step, !.job = j]
  <1>1. r \in Attended /\ r.step = step /\ r.job = j
    BY DEF NoRequest, Attended
  <1> HIDE DEF r
  <1>2. QED
    BY <1>1, Attends DEF r

LEMMA AttendsOn ==
  ASSUME RetrainingTypeOK, NEW h \in Handlers,
         NEW step \in {"policy", "jobs", "candidates", "create", "deploy", "activate"},
         Continues(h, step)
  PROVE  /\ handler' \in [Handlers -> Attended]
         /\ handler'[h].step = step /\ handler'[h].job = handler[h].job
         /\ handler'[h].task = handler[h].task /\ handler'[h].seen = handler[h].seen
         /\ \A g \in Handlers : g # h => handler'[g] = handler[g]
  BY DEF RetrainingTypeOK, Attended, Continues

(* What retrains or activates is what it was, and so are the models, their *)
(* copies and those that are deployed.                                     *)
LEMMA ModelsKept ==
  ASSUME RetrainingInv,
         UNCHANGED <<active, models, artifact, baseline, disturbed>>,
         \A j \in Jobs : Retrains(j)' <=> Retrains(j),
         \A h \in Handlers : /\ Activates(h)' <=> Activates(h)
                             /\ Activates(h) => UNCHANGED handler[h]
  PROVE  disturbed' \/ ModelsInv'
  <1>1. SUFFICES ASSUME ModelsInv PROVE ModelsInv'
    BY DEF RetrainingInv
  <1>2. Deployed' = Deployed /\ (Occupied' <=> Occupied)
    BY DEF Deployed, Occupied, Activates
  <1>3. QED
    BY <1>1, <1>2 DEF ModelsInv

(* A request that only reads, decides or is answered: what it will act on  *)
(* is there, and none is added or removed that copies the models.          *)
LEMMA RequestKeeps ==
  ASSUME RetrainingInv, RetrainingTypeOK',
         UNCHANGED <<job, candidate, active, files, trainer, trainings, crashes, disturbed>>,
         \A h \in Handlers : HandlerInv(h)',
         \A h \in Handlers : Serves(h, "activate")' => Serves(h, "activate") /\ UNCHANGED handler[h],
         \A h \in Handlers : Serves(h, "activate") => Serves(h, "activate")'
  PROVE  RetrainingInv'
  <1>1. \A j \in Jobs : JobInv(j)'
    BY DEF RetrainingInv, JobInv, files
  <1>2. ActiveInv'
    BY DEF RetrainingInv, ActiveInv
  <1>3. disturbed' \/ ModelsInv'
    BY ModelsKept DEF Retrains, Activates, files
  <1>4. QED
    BY <1>1, <1>2, <1>3 DEF RetrainingInv

(* The requests, one by one.                                               *)
LEMMA DecisionInv ==
  ASSUME RetrainingInv, NEW h \in Handlers,
         \/ \E t \in Tasks : ReadTask(h, t)
         \/ \E d \in {"approved", "rejected", "corrected"} : Decide(h, d)
         \/ AskPolicy(h) \/ CheckJobs(h) \/ CheckCandidates(h)
  PROVE  RetrainingInv'
  <1>1. RetrainingTypeOK /\ HandlerInv(h)
    BY DEF RetrainingInv
  <1>2. /\ UNCHANGED <<job, candidate, active, files, trainer, trainings, crashes, disturbed>>
        /\ handler[h].step \in {"idle", "decide", "policy", "jobs", "candidates"}
    BY DEF ReadTask, Decide, AskPolicy, CheckJobs, CheckCandidates, Serves
  <1>3. /\ handler' \in [Handlers -> Attended]
        /\ \A g \in Handlers : g # h => handler'[g] = handler[g]
        /\ handler'[h].step \in {"idle", "decide", "policy", "jobs", "candidates", "create"}
        /\ handler'[h].step = "decide" => handler'[h].task \in Tasks
    <2>1. CASE \E t \in Tasks : ReadTask(h, t)
      BY <1>1, <2>1, TakesTask, ZenonT(30) DEF ReadTask
    <2>2. CASE Responds(h)
      BY <1>1, <2>2, Attends, HandlerTypes DEF Responds
    <2>3. CASE \E s \in {"policy", "jobs", "candidates", "create"} : Continues(h, s)
      BY <1>1, <2>3, AttendsOn
    <2>4. QED
      BY <2>1, <2>2, <2>3 DEF Decide, AskPolicy, CheckJobs, CheckCandidates
  <1>4. /\ task' \in [Tasks -> {"pending", "approved", "rejected", "corrected"}]
        /\ feedback' \in [Tasks -> {"none", "approved", "rejected", "corrected"}]
        /\ mode' \in {"human_only", "guarded_auto"}
    <2>1. CASE UNCHANGED <<task, feedback>> /\ mode' \in {mode, "guarded_auto"}
      BY <1>1, <2>1 DEF RetrainingTypeOK
    <2>2. ASSUME NEW d \in {"approved", "rejected", "corrected"}, Decide(h, d),
                 ~UNCHANGED <<task, feedback>>
          PROVE  /\ mode' = mode /\ task' = [task EXCEPT ![handler[h].task] = d]
                 /\ feedback' = [feedback EXCEPT ![handler[h].task] = d]
      BY <2>2 DEF Decide
    <2>3. ASSUME NEW d \in {"approved", "rejected", "corrected"}, Decide(h, d),
                 ~UNCHANGED <<task, feedback>>
          PROVE  /\ task' \in [Tasks -> {"pending", "approved", "rejected", "corrected"}]
                 /\ feedback' \in [Tasks -> {"none", "approved", "rejected", "corrected"}]
                 /\ mode' \in {"human_only", "guarded_auto"}
      BY <1>1, <2>2, <2>3 DEF RetrainingTypeOK
    <2>4. QED
      BY <2>1, <2>3 DEF ReadTask, Decide, AskPolicy, CheckJobs, CheckCandidates, reviewed
  <1>5. RetrainingTypeOK'
    BY <1>1, <1>2, <1>3, <1>4 DEF RetrainingTypeOK, files
  <1>6. \A g \in Handlers : HandlerInv(g)'
    BY <1>2, <1>3 DEF RetrainingInv, HandlerInv, OnCandidate
  <1>7. QED
    BY <1>2, <1>3, <1>5, <1>6, RequestKeeps, SMTT(30) DEF Serves

LEMMA PromotionReadInv ==
  ASSUME RetrainingInv, NEW h \in Handlers,
         \/ \E j \in Jobs, d \in {"promote", "reject"} : ReadModelCandidate(h, j, d)
         \/ DeactivateDeployments(h)
  PROVE  RetrainingInv'
  <1>1. RetrainingTypeOK /\ HandlerInv(h)
    BY SMTT(30) DEF RetrainingInv
  <1>2. /\ UNCHANGED <<reviewed, job, candidate, active, files, trainer, trainings, crashes, disturbed>>
        /\ handler[h].step \in {"idle", "promote"}
    BY DEF ReadModelCandidate, DeactivateDeployments, Serves
  <1>3. /\ handler' \in [Handlers -> Attended]
        /\ \A g \in Handlers : g # h => handler'[g] = handler[g]
        /\ handler'[h].step \in {"promote", "reject", "deploy"} /\ handler'[h].job \in Jobs
        /\ candidate[handler'[h].job] # "none"
    <2>1. ASSUME NEW j \in Jobs, NEW d \in {"promote", "reject"}, ReadModelCandidate(h, j, d)
          PROVE  <1>3!:
      BY <1>1, <2>1, TakesJob DEF ReadModelCandidate
    <2>2. CASE DeactivateDeployments(h)
      <3>1. /\ handler[h] \in Attended /\ active \in SUBSET Jobs /\ handler[h].job \in Jobs
            /\ candidate[handler[h].job] # "none"
        BY <1>1, <2>2 DEF RetrainingTypeOK, DeactivateDeployments, HandlerInv, OnCandidate, Serves
      <3> DEFINE r == [handler[h] EXCEPT !.step = "deploy", !.seen = active]
      <3>2. r \in Attended /\ r.step = "deploy" /\ r.job = handler[h].job
        BY <3>1 DEF Attended
      <3>3. handler' = [handler EXCEPT ![h] = r]
        BY <2>2 DEF DeactivateDeployments
      <3> HIDE DEF r
      <3>4. QED
        BY <1>1, <3>1, <3>2, <3>3, Attends
    <2>3. QED
      BY <2>1, <2>2
  <1>4. RetrainingTypeOK'
    BY <1>1, <1>2, <1>3 DEF RetrainingTypeOK, files, reviewed
  <1>5. \A g \in Handlers : HandlerInv(g)'
    BY <1>2, <1>3 DEF RetrainingInv, HandlerInv, OnCandidate
  <1>6. QED
    BY <1>2, <1>3, <1>4, <1>5, RequestKeeps DEF Serves

(* The status of jobs that no task trains.                                 *)
LEMMA JobsInv ==
  ASSUME RetrainingInv,
         \/ \E h \in Handlers, j \in Jobs : AutoCreate(h, j)
         \/ \E h \in Handlers : AutoApprove(h)
         \/ \E j \in Jobs : AddRetrainJob(j) \/ ApproveRetrainJob(j) \/ RejectRetrainJob(j)
  PROVE  RetrainingInv'
  <1>1. RetrainingTypeOK /\ \A h \in Handlers : HandlerInv(h)
    BY DEF RetrainingInv
  <1>2. UNCHANGED <<reviewed, candidate, active, files, trainings, crashes, disturbed>>
    BY DEF AutoCreate, AutoApprove, AddRetrainJob, ApproveRetrainJob, RejectRetrainJob, CreateJob
  <1>3. /\ handler' \in [Handlers -> Attended]
        /\ \A h \in Handlers :
             \/ UNCHANGED handler[h]
             \/ /\ handler[h].step \in {"create", "approve"} /\ handler'[h].step \in {"idle", "approve"}
                /\ handler'[h].step = "approve" => handler'[h].job \in Jobs
    <2>1. ASSUME NEW h \in Handlers, NEW j \in Jobs, AutoCreate(h, j) PROVE <1>3!:
      BY <1>1, <2>1, TakesJob, ZenonT(30) DEF AutoCreate, Serves
    <2>2. ASSUME NEW h \in Handlers, AutoApprove(h) PROVE <1>3!:
      BY <1>1, <2>2, Attends, HandlerTypes DEF AutoApprove, Serves, Responds
    <2>3. CASE UNCHANGED handler
      BY <1>1, <2>3 DEF RetrainingTypeOK
    <2>4. QED
      BY <2>1, <2>2, <2>3 DEF AddRetrainJob, ApproveRetrainJob, RejectRetrainJob
  <1>4. \/ UNCHANGED <<job, trainer>>
        \/ \E j \in Jobs : CreateJob(j) /\ UNCHANGED trainer
        \/ \E j \in Jobs : ApproveJob(j)
        \/ \E j \in Jobs : RejectRetrainJob(j)
    <2>1. ASSUME NEW h \in Handlers, AutoApprove(h) PROVE handler[h].job \in Jobs
      BY <1>1, <2>1 DEF AutoApprove, HandlerInv, OnCandidate, Serves
    <2>2. QED
      BY <2>1 DEF AutoCreate, AutoApprove, AddRetrainJob, ApproveRetrainJob
  <1>5. /\ job' \in [Jobs -> {"absent", "pending_approval", "approved", "running", "completed",
                              "failed", "rejected"}]
        /\ trainer' \in [Jobs -> Trainers]
        /\ \A j \in Jobs :
             \/ UNCHANGED <<job[j], trainer[j]>>
             \/ /\ job[j] \in Waiting \ {"approved"} /\ job'[j] \in Waiting \ {"absent"}
                /\ \/ UNCHANGED trainer[j]
                   \/ job'[j] = "approved" /\ trainer'[j].step = "scheduled"
    <2>1. CASE UNCHANGED <<job, trainer>>
      BY <1>1, <2>1 DEF RetrainingTypeOK
    <2>2. ASSUME NEW j \in Jobs, NEW status \in Waiting \ {"absent", "approved"},
                 job[j] \in Waiting \ {"approved"}, UNCHANGED trainer,
                 job' = [job EXCEPT ![j] = status]
          PROVE  <1>5!:
      BY <1>1, <2>2 DEF RetrainingTypeOK, Waiting
    <2>3. ASSUME NEW j \in Jobs, ApproveJob(j) PROVE <1>5!:
      <3> DEFINE r == [Parked EXCEPT !.step = "scheduled"]
      <3>1. r \in Trainers /\ r.step = "scheduled"
        BY TrainerTypes
      <3>2. /\ trainer' = [trainer EXCEPT ![j] = r] /\ job' = [job EXCEPT ![j] = "approved"]
            /\ job[j] = "pending_approval"
        BY <2>3 DEF ApproveJob
      <3> HIDE DEF r
      <3>3. QED
        BY <1>1, <3>1, <3>2 DEF RetrainingTypeOK, Waiting
    <2>4. QED
      BY <1>4, <2>1, <2>2, <2>3 DEF CreateJob, IsNextJob, RejectRetrainJob, Waiting
  <1>6. RetrainingTypeOK'
    BY <1>1, <1>2, <1>3, <1>5 DEF RetrainingTypeOK, files, reviewed
  <1>7. \A j \in Jobs : JobInv(j)'
    BY <1>1, <1>2, <1>5 DEF RetrainingInv, RetrainingTypeOK, JobInv, Waiting, AtModels, files
  <1>8. (\A h \in Handlers : HandlerInv(h)') /\ ActiveInv'
    BY <1>2, <1>3 DEF RetrainingInv, HandlerInv, OnCandidate, ActiveInv
  <1>9. \A j \in Jobs : Retrains(j)' <=> Retrains(j)
    BY <1>5 DEF RetrainingInv, JobInv, Waiting, AtModels, Retrains
  <1>10. \A h \in Handlers : /\ Activates(h)' <=> Activates(h)
                             /\ Activates(h) => UNCHANGED handler[h]
    BY <1>3 DEF Activates, Serves
  <1>11. disturbed' \/ ModelsInv'
    BY <1>2, <1>9, <1>10, ModelsKept DEF files
  <1>12. QED
    BY <1>6, <1>7, <1>8, <1>11 DEF RetrainingInv

LEMMA PolicyUpdateInv ==
  ASSUME RetrainingInv, NEW m \in {"human_only", "guarded_auto"}, UpdateAutomationPolicy(m)
  PROVE  RetrainingInv'
  <1>1. /\ UNCHANGED <<task, feedback, job, candidate, active, files, trainer, handler, trainings,
                       crashes, disturbed>>
        /\ mode' \in {"human_only", "guarded_auto"}
    BY DEF UpdateAutomationPolicy
  <1>2. RetrainingTypeOK'
    BY <1>1 DEF RetrainingInv, RetrainingTypeOK, files
  <1>3. \A h \in Handlers : HandlerInv(h)'
    BY <1>1 DEF RetrainingInv, HandlerInv
  <1>4. QED
    BY <1>1, <1>2, <1>3, RequestKeeps DEF Serves

(* A promotion leaves the deployment it inserts and no other.              *)
LEMMA CandidateInv ==
  ASSUME RetrainingInv, NEW h \in Handlers, RejectCandidate(h) \/ DeployCandidate(h)
  PROVE  RetrainingInv'
  <1> DEFINE j == handler[h].job
  <1>1. RetrainingTypeOK /\ HandlerInv(h) /\ ActiveInv
    BY DEF RetrainingInv
  <1>2. /\ UNCHANGED <<reviewed, job, files, trainer, trainings, crashes>>
        /\ handler[h].step \in {"reject", "deploy"}
    BY DEF RejectCandidate, DeployCandidate, Serves
  <1>3. j \in Jobs /\ candidate[j] # "none"
    BY <1>1, <1>2 DEF HandlerInv, OnCandidate
  <1>4. /\ handler' \in [Handlers -> Attended] /\ handler'[h].step \in {"idle", "activate"}
        /\ handler'[h].step = "activate" => handler'[h].job = j
        /\ \A g \in Handlers : g # h => UNCHANGED handler[g]
    <2>1. CASE Responds(h)
      BY <1>1, <2>1, Attends, HandlerTypes DEF Responds
    <2>2. CASE Continues(h, "activate")
      BY <1>1, <2>2, AttendsOn
    <2>3. QED
      BY <2>1, <2>2 DEF RejectCandidate, DeployCandidate
  <1>5. /\ candidate' \in [Jobs -> {"none", "awaiting_promotion", "promoted", "rejected"}]
        /\ \A i \in Jobs : candidate'[i] = "none" <=> candidate[i] = "none"
    BY <1>1, <1>3 DEF RetrainingTypeOK, RejectCandidate, DeployCandidate
  <1>6. \/ UNCHANGED <<active, disturbed>> /\ handler'[h].step = "idle"
        \/ /\ active' = {j} /\ handler'[h].step = "activate"
           /\ disturbed' = (disturbed \/ Occupied)
    <2>1. CASE RejectCandidate(h) \/ ~Unique(h)
      BY <1>1, <2>1, Attends, HandlerTypes DEF RejectCandidate, DeployCandidate, Responds
    <2>2. CASE DeployCandidate(h) /\ Unique(h)
      BY <1>1, <2>2, AttendsOn DEF DeployCandidate, Unique
    <2>3. QED
      BY <2>1, <2>2
  <1> HIDE DEF j
  <1>7. RetrainingTypeOK'
    BY <1>1, <1>2, <1>3, <1>4, <1>5, <1>6 DEF RetrainingTypeOK, files, reviewed
  <1>8. \A i \in Jobs : JobInv(i)'
    BY <1>2, <1>5 DEF RetrainingInv, JobInv, files
  <1>9. \A g \in Handlers : HandlerInv(g)'
    <2>1. ASSUME NEW g \in Handlers, g # h PROVE HandlerInv(g)'
      BY <1>2, <1>4, <1>5, <2>1 DEF RetrainingInv, HandlerInv, OnCandidate
    <2>2. HandlerInv(h)'
      BY <1>3, <1>4, <1>5 DEF HandlerInv, OnCandidate
    <2>3. QED
      BY <2>1, <2>2
  <1>10. ActiveInv'
    BY <1>1, <1>3, <1>5, <1>6 DEF RetrainingTypeOK, ActiveInv
  <1>11. disturbed' \/ ModelsInv'
    <2>1. CASE handler'[h].step = "idle"
      <3>1. \A g \in Handlers : /\ Activates(g)' <=> Activates(g)
                                /\ Activates(g) => UNCHANGED handler[g]
        BY <1>2, <1>4, <2>1 DEF Activates, Serves
      <3>2. QED
        BY <1>2, <1>6, <2>1, <3>1, ModelsKept DEF files, Retrains
    <2>2. CASE handler'[h].step = "activate"
      <3>1. SUFFICES ASSUME ~disturbed' PROVE ModelsInv'
        OBVIOUS
      <3>2. active' = {j} /\ ~Occupied
        BY <1>6, <2>2, <3>1
      <3>3. /\ \A i \in Jobs : ~Retrains(i)'
            /\ \A g \in Handlers : Activates(g)' => g = h
        BY <1>2, <1>4, <3>2 DEF Occupied, Retrains, Activates, Serves
      <3>4. Activates(h)' /\ handler'[h].job = j /\ Occupied'
        BY <1>4, <2>2 DEF Activates, Occupied, Serves
      <3>5. QED
        BY <3>2, <3>3, <3>4 DEF ModelsInv
    <2>3. QED
      BY <1>4, <2>1, <2>2
  <1>12. QED
    BY <1>7, <1>8, <1>9, <1>10, <1>11 DEF RetrainingInv

(* The files of the candidate that is deployed are copied, or some are.    *)
LEMMA ActivationInv ==
  ASSUME RetrainingInv, NEW h \in Handlers, ActivateCandidate(h) \/ FailActivation(h)
  PROVE  RetrainingInv'
  <1> DEFINE j == handler[h].job
  <1>1. RetrainingTypeOK /\ HandlerInv(h)
    BY DEF RetrainingInv
  <1>2. /\ UNCHANGED <<reviewed, job, candidate, active, artifact, baseline, environ, trainer,
                       trainings, crashes>>
        /\ Serves(h, "activate") /\ models' \in {models, Torn, artifact[j]}
    BY DEF ActivateCandidate, FailActivation
  <1>3. j \in Jobs /\ candidate[j] # "none" /\ artifact[j] # Nothing
    BY <1>1, <1>2 DEF RetrainingInv, HandlerInv, OnCandidate, JobInv, Serves
  <1>4. /\ handler' \in [Handlers -> Attended] /\ handler'[h].step = "idle"
        /\ \A g \in Handlers : g # h => UNCHANGED handler[g]
    BY <1>1, Attends, HandlerTypes DEF ActivateCandidate, FailActivation, Responds
  <1>5. RetrainingTypeOK'
    <2>1. models' \in Models
      BY <1>1, <1>2, <1>3 DEF RetrainingTypeOK, Models
    <2>2. disturbed' \in BOOLEAN
      BY <1>1 DEF RetrainingTypeOK, ActivateCandidate, FailActivation
    <2>3. QED
      BY <1>1, <1>2, <1>4, <2>1, <2>2 DEF RetrainingTypeOK, reviewed
  <1>6. \A i \in Jobs : JobInv(i)'
    BY <1>2 DEF RetrainingInv, JobInv
  <1>7. \A g \in Handlers : HandlerInv(g)'
    BY <1>2, <1>4 DEF RetrainingInv, HandlerInv, OnCandidate
  <1>8. ActiveInv'
    BY <1>2 DEF RetrainingInv, ActiveInv
  <1>9. ASSUME ~disturbed' PROVE ModelsInv'
    <2>1. ActivateCandidate(h) /\ (disturbed => Undisturbed(h))
      BY <1>9 DEF ActivateCandidate, FailActivation
    <2>2. ASSUME ModelsInv PROVE Undisturbed(h)
      BY <1>2, <2>2 DEF ModelsInv, Undisturbed, Activates
    <2>3. Undisturbed(h)
      BY <2>1, <2>2 DEF RetrainingInv
    <2>4. /\ \A i \in Jobs : ~Retrains(i)'
          /\ \A g \in Handlers : ~Activates(g)'
      BY <1>2, <1>4, <2>3 DEF Undisturbed, Retrains, Activates, Serves
    <2>5. models' \in Deployed'
      BY <1>2, <2>1, <2>3 DEF Undisturbed, Deployed, ActivateCandidate
    <2>6. QED
      BY <2>4, <2>5 DEF ModelsInv
  <1>10. QED
    BY <1>5, <1>6, <1>7, <1>8, <1>9 DEF RetrainingInv

(* The task of a job, one by one: first the steps that leave the files     *)
(* alone.                                                                  *)
LEMMA TaskInv ==
  ASSUME RetrainingInv, NEW j \in Jobs,
         \/ ReadJob(j) \/ MarkRunning(j) \/ CreateModelCandidate(j) \/ CompleteJob(j)
         \/ CreatePromotionReview(j) \/ Raise(j) \/ FailJob(j) \/ LoseJob(j)
  PROVE  RetrainingInv'
  <1>1. RetrainingTypeOK /\ JobInv(j)
    BY DEF RetrainingInv
  <1>2. UNCHANGED <<reviewed, active, files, handler, trainings, crashes, disturbed>>
    BY DEF ReadJob, MarkRunning, CreateModelCandidate, CompleteJob, CreatePromotionReview, Raise,
       FailJob, LoseJob
  <1>3. \E step \in TrainerSteps : Proceeds(j, step)
    BY DEF ReadJob, MarkRunning, CreateModelCandidate, CompleteJob, CreatePromotionReview, Raise,
       FailJob, LoseJob, TrainerSteps
  <1>4. /\ trainer' \in [Jobs -> Trainers]
        /\ \A i \in Jobs : i # j => UNCHANGED trainer[i]
        /\ UNCHANGED <<trainer[j].previous, trainer[j].failed>>
    BY <1>1, <1>3, Goes
  <1>5. LET s == trainer[j].step
            to == trainer'[j].step
        IN  \/ ReadJob(j) /\ s = "scheduled" /\ to \in {"mark", "idle"} /\ UNCHANGED <<job, candidate>>
                 /\ (to = "mark" => job[j] = "approved")
            \/ MarkRunning(j) /\ s = "mark" /\ to = "baseline" /\ UNCHANGED candidate
                 /\ job' = [job EXCEPT ![j] = "running"]
            \/ CreateModelCandidate(j) /\ s = "candidate" /\ to = "complete" /\ UNCHANGED job
                 /\ candidate' = [candidate EXCEPT ![j] = "awaiting_promotion"]
            \/ CompleteJob(j) /\ s = "complete" /\ to = "review" /\ UNCHANGED candidate
                 /\ job' = [job EXCEPT ![j] = "completed"]
            \/ s = "review" /\ to = "idle" /\ UNCHANGED <<job, candidate>>
            \/ s \in {"baseline", "candidate", "complete", "review"} /\ to = "fail"
                 /\ UNCHANGED <<job, candidate>>
            \/ s \in {"scheduled", "mark", "baseline", "fail"} /\ to = "idle"
                 /\ UNCHANGED <<job, candidate>>
            \/ FailJob(j) /\ s = "fail" /\ to = "idle" /\ UNCHANGED candidate
                 /\ job' = [job EXCEPT ![j] = "failed"]
    <2>1. \A step \in TrainerSteps : Proceeds(j, step) => trainer'[j].step = step
      BY <1>1, Goes
    <2>2. QED
      BY <2>1, SMTT(30) DEF ReadJob, MarkRunning, CreateModelCandidate, CompleteJob,
         CreatePromotionReview, Raise, FailJob, LoseJob, Trains, TrainerSteps
  <1>6. /\ job' \in [Jobs -> {"absent", "pending_approval", "approved", "running", "completed",
                              "failed", "rejected"}]
        /\ candidate' \in [Jobs -> {"none", "awaiting_promotion", "promoted", "rejected"}]
        /\ \A i \in Jobs : i # j => UNCHANGED <<job[i], candidate[i]>>
    BY <1>1, <1>5 DEF RetrainingTypeOK
  <1>7. RetrainingTypeOK'
    BY <1>1, <1>2, <1>4, <1>6 DEF RetrainingTypeOK, reviewed, files
  <1>8. JobInv(j)'
    BY <1>1, <1>2, <1>4, <1>5 DEF RetrainingTypeOK, JobInv, Waiting, AtModels, files
  <1>9. \A i \in Jobs : JobInv(i)'
    BY <1>2, <1>4, <1>6, <1>8 DEF RetrainingInv, JobInv, files
  <1>10. \A i \in Jobs : candidate[i] # "none" => candidate'[i] # "none"
    BY <1>1, <1>5 DEF RetrainingTypeOK
  <1>11. (\A g \in Handlers : HandlerInv(g)') /\ ActiveInv'
    BY <1>1, <1>2, <1>10 DEF RetrainingInv, HandlerInv, OnCandidate, ActiveInv, RetrainingTypeOK
  <1>12. \A i \in Jobs : Retrains(i)' <=> Retrains(i)
    BY <1>1, <1>4, <1>5 DEF RetrainingTypeOK, Retrains
  <1>13. disturbed' \/ ModelsInv'
    BY <1>2, <1>12, ModelsKept DEF files, Activates, Serves
  <1>14. QED
    BY <1>7, <1>9, <1>11, <1>13 DEF RetrainingInv

(* The task of a job that is running has no candidate that is deployed.    *)
LEMMA TrainsUndeployed ==
  ASSUME RetrainingInv, NEW j \in Jobs, trainer[j].step \in AtModels \cup {"baseline"}
  PROVE  j \notin active
  BY DEF RetrainingInv, RetrainingTypeOK, ActiveInv, JobInv, AtModels

(* A step of a task between its baseline and the end of the restoration.   *)
LEMMA TrainingKeeps ==
  ASSUME RetrainingInv, RetrainingTypeOK', NEW j \in Jobs, JobInv(j)',
         trainer[j].step \in AtModels \cup {"baseline"},
         UNCHANGED <<reviewed, job, candidate, active, handler, crashes>>,
         \A i \in Jobs : i # j => UNCHANGED <<trainer[i], artifact[i], baseline[i], trainings[i]>>,
         \/ disturbed'
         \/ /\ UNCHANGED disturbed /\ Retrains(j) /\ Retrains(j)' /\ UNCHANGED baseline[j]
         \/ /\ ~disturbed /\ ~Occupied /\ Retrains(j)' /\ baseline'[j] = models
         \/ /\ UNCHANGED disturbed /\ Retrains(j) /\ ~Retrains(j)' /\ models' = baseline[j]
  PROVE  RetrainingInv'
  <1>1. \A i \in Jobs : JobInv(i)'
    BY DEF RetrainingInv, JobInv
  <1>2. (\A g \in Handlers : HandlerInv(g)') /\ ActiveInv'
    BY DEF RetrainingInv, HandlerInv, ActiveInv
  <1>3. ASSUME ~disturbed' PROVE ModelsInv'
    <2>1. ModelsInv
      BY <1>3 DEF RetrainingInv
    <2>2. Deployed' = Deployed
      BY TrainsUndeployed DEF RetrainingInv, RetrainingTypeOK, Deployed
    <2>3. /\ \A i \in Jobs : i # j => (Retrains(i)' <=> Retrains(i)) /\ UNCHANGED baseline[i]
          /\ \A h \in Handlers : (Activates(h)' <=> Activates(h)) /\ UNCHANGED handler[h]
      BY DEF Retrains, Activates, Serves
    <2>4. /\ \A i \in Jobs : i # j => ~Retrains(i)
          /\ \A h \in Handlers : ~Activates(h)
      BY <1>3, <2>1 DEF ModelsInv, Occupied, Activates
    <2>5. Retrains(j)' => baseline'[j] \in Deployed /\ Occupied'
      BY <1>3, <2>1 DEF ModelsInv, Occupied
    <2>6. ~Retrains(j)' => models' \in Deployed
      BY <1>3, <2>1 DEF ModelsInv
    <2>7. /\ \A i \in Jobs : Retrains(i)' => i = j
          /\ \A h \in Handlers : ~Activates(h)'
      BY <2>3, <2>4
    <2>8. ASSUME NEW i \in Jobs, Retrains(i)' PROVE baseline'[i] \in Deployed'
      BY <2>2, <2>5, <2>7, <2>8
    <2>9. Occupied' \/ models' \in Deployed'
      BY <2>2, <2>5, <2>6
    <2>10. QED
      BY <2>7, <2>8, <2>9, Zenon DEF ModelsInv
  <1>4. QED
    BY <1>1, <1>2, <1>3 DEF RetrainingInv

LEMMA BaselineInv ==
  ASSUME RetrainingInv, NEW j \in Jobs, SaveBaseline(j)
  PROVE  RetrainingInv'
  <1> DEFINE r == [trainer[j] EXCEPT !.step = "train", !.previous = environ]
  <1>1. RetrainingTypeOK /\ JobInv(j) /\ trainer[j].step = "baseline"
    BY DEF RetrainingInv, SaveBaseline, Trains
  <1>2. /\ UNCHANGED <<reviewed, job, candidate, active, models, artifact, handler, trainings,
                       crashes>>
        /\ baseline' = [baseline EXCEPT ![j] = models] /\ environ' = j
        /\ trainer' = [trainer EXCEPT ![j] = r] /\ disturbed' = (disturbed \/ Occupied)
    BY DEF SaveBaseline
  <1>3. /\ models \in Models /\ models # Nothing /\ environ \in Jobs \cup {Plain} /\ environ # Nothing
        /\ trainer[j] \in Trainers
    BY <1>1 DEF RetrainingTypeOK, Models, Jobs, Shipped, Torn, Plain, Nothing
  <1>4. r \in Trainers /\ r.step = "train" /\ r.previous = environ
    BY <1>3 DEF Trainers
  <1> HIDE DEF r
  <1>5. /\ trainer' \in [Jobs -> Trainers] /\ trainer'[j] = r
        /\ baseline' \in [Jobs -> Models \cup {Nothing}] /\ baseline'[j] = models
        /\ \A i \in Jobs : i # j => UNCHANGED <<trainer[i], baseline[i]>>
    BY <1>1, <1>2, <1>3, <1>4 DEF RetrainingTypeOK
  <1>6. RetrainingTypeOK'
    <2>1. disturbed' \in BOOLEAN
      BY <1>1, <1>2 DEF RetrainingTypeOK
    <2>2. QED
      BY <1>1, <1>2, <1>5, <2>1 DEF RetrainingTypeOK, reviewed
  <1>7. JobInv(j)'
    BY <1>1, <1>2, <1>3, <1>4, <1>5 DEF JobInv, Waiting, AtModels
  <1>8. Retrains(j)'
    BY <1>4, <1>5 DEF Retrains
  <1>9. QED
    BY <1>1, <1>2, <1>5, <1>6, <1>7, <1>8, TrainingKeeps

LEMMA TrainInv ==
  ASSUME RetrainingInv, NEW j \in Jobs, StartTraining(j) \/ EndTraining(j)
  PROVE  RetrainingInv'
  <1>1. RetrainingTypeOK /\ JobInv(j) /\ trainer[j].step \in AtModels
    BY DEF RetrainingInv, StartTraining, EndTraining, Trains, AtModels
  <1>2. UNCHANGED <<reviewed, job, candidate, active, artifact, baseline, environ, handler,
                    crashes, disturbed>>
    BY DEF StartTraining, EndTraining
  <1>3. /\ \/ /\ Proceeds(j, "training") /\ models' = Torn /\ trainer[j].step = "train"
              /\ trainings' = [trainings EXCEPT ![j] = @ + 1]
           \/ /\ Proceeds(j, "copy") /\ models' = environ /\ trainer[j].step = "training"
              /\ UNCHANGED trainings
    BY DEF StartTraining, EndTraining, Trains
  <1>4. /\ trainer' \in [Jobs -> Trainers] /\ trainer'[j].step \in {"training", "copy"}
        /\ trainer'[j].previous = trainer[j].previous
        /\ \A i \in Jobs : i # j => UNCHANGED trainer[i]
    BY <1>1, <1>3, Goes DEF TrainerSteps
  <1>5. /\ trainings' \in [Jobs -> Nat] /\ trainings'[j] <= 1
        /\ \A i \in Jobs : i # j => UNCHANGED trainings[i]
    BY <1>1, <1>3 DEF RetrainingTypeOK, JobInv
  <1>6. models' \in Models
    BY <1>1, <1>3 DEF RetrainingTypeOK, Models
  <1>7. RetrainingTypeOK'
    BY <1>1, <1>2, <1>4, <1>5, <1>6 DEF RetrainingTypeOK, reviewed
  <1>8. JobInv(j)'
    BY <1>1, <1>2, <1>4, <1>5 DEF JobInv, Waiting, AtModels
  <1>9. Retrains(j) /\ Retrains(j)'
    BY <1>1, <1>4 DEF Retrains, AtModels
  <1>10. QED
    BY <1>1, <1>2, <1>4, <1>5, <1>7, <1>8, <1>9, TrainingKeeps

LEMMA AbandonInv ==
  ASSUME RetrainingInv, NEW j \in Jobs, FailTraining(j)
  PROVE  RetrainingInv'
  <1> DEFINE r == [trainer[j] EXCEPT !.step = "restore", !.failed = TRUE]
  <1>1. /\ RetrainingTypeOK /\ JobInv(j) /\ trainer[j] \in Trainers
        /\ trainer[j].step \in {"training", "copy"}
    BY DEF RetrainingInv, RetrainingTypeOK, FailTraining
  <1>2. /\ UNCHANGED <<reviewed, job, candidate, active, models, baseline, environ, handler,
                       trainings, crashes, disturbed>>
        /\ trainer' = [trainer EXCEPT ![j] = r]
        /\ artifact' = artifact \/ artifact' = [artifact EXCEPT ![j] = Torn]
    BY DEF FailTraining
  <1>3. r \in Trainers /\ r.step = "restore" /\ r.previous = trainer[j].previous /\ r.failed = TRUE
    BY <1>1 DEF Trainers
  <1> HIDE DEF r
  <1>4. /\ trainer' \in [Jobs -> Trainers] /\ trainer'[j] = r
        /\ \A i \in Jobs : i # j => UNCHANGED trainer[i]
    BY <1>1, <1>2, <1>3 DEF RetrainingTypeOK
  <1>5. /\ artifact' \in [Jobs -> Models \cup {Nothing}]
        /\ \A i \in Jobs : i # j => UNCHANGED artifact[i]
    BY <1>1, <1>2 DEF RetrainingTypeOK, Models
  <1>6. RetrainingTypeOK'
    BY <1>1, <1>2, <1>4, <1>5 DEF RetrainingTypeOK, reviewed
  <1>7. JobInv(j)'
    BY <1>1, <1>2, <1>3, <1>4 DEF JobInv, Waiting, AtModels
  <1>8. Retrains(j) /\ Retrains(j)'
    BY <1>1, <1>3, <1>4 DEF Retrains
  <1>9. QED
    BY <1>1, <1>2, <1>4, <1>5, <1>6, <1>7, <1>8, TrainingKeeps DEF AtModels

LEMMA CopyInv ==
  ASSUME RetrainingInv, NEW j \in Jobs, CopyCandidate(j)
  PROVE  RetrainingInv'
  <1>1. RetrainingTypeOK /\ JobInv(j) /\ trainer[j].step = "copy"
    BY DEF RetrainingInv, CopyCandidate, Trains
  <1>2. /\ UNCHANGED <<reviewed, job, candidate, active, models, baseline, environ, handler,
                       trainings, crashes, disturbed>>
        /\ artifact' = [artifact EXCEPT ![j] = models] /\ Proceeds(j, "restore")
    BY DEF CopyCandidate
  <1>3. /\ trainer' \in [Jobs -> Trainers] /\ trainer'[j].step = "restore"
        /\ \A i \in Jobs : i # j => UNCHANGED trainer[i]
        /\ UNCHANGED <<trainer[j].previous, trainer[j].failed>>
    BY <1>1, <1>2, Goes DEF TrainerSteps
  <1>4. /\ artifact' \in [Jobs -> Models \cup {Nothing}] /\ artifact'[j] # Nothing
        /\ \A i \in Jobs : i # j => UNCHANGED artifact[i]
    BY <1>1, <1>2 DEF RetrainingTypeOK, Models, Jobs, Shipped, Torn, Plain, Nothing
  <1>5. RetrainingTypeOK'
    BY <1>1, <1>2, <1>3, <1>4 DEF RetrainingTypeOK, reviewed
  <1>6. JobInv(j)'
    BY <1>1, <1>2, <1>3, <1>4 DEF JobInv, Waiting, AtModels
  <1>7. Retrains(j) /\ Retrains(j)'
    BY <1>1, <1>3 DEF Retrains
  <1>8. QED
    BY <1>1, <1>2, <1>3, <1>4, <1>5, <1>6, <1>7, TrainingKeeps DEF AtModels

LEMMA RestoreInv ==
  ASSUME RetrainingInv, NEW j \in Jobs, RestoreBaseline(j) \/ FailRestore(j)
  PROVE  RetrainingInv'
  <1>1. RetrainingTypeOK /\ JobInv(j) /\ trainer[j].step = "restore"
    BY DEF RetrainingInv, RestoreBaseline, FailRestore, Trains
  <1>2. UNCHANGED <<reviewed, job, candidate, active, artifact, baseline, handler, trainings, crashes>>
    BY DEF RestoreBaseline, FailRestore
  <1>3. /\ baseline[j] \in Models /\ Torn \in Models /\ trainer[j].previous \in Jobs \cup {Plain}
    BY <1>1 DEF RetrainingTypeOK, Models, JobInv, AtModels, Trainers
  <1>4. \/ /\ models' = baseline[j] /\ environ' = trainer[j].previous /\ UNCHANGED disturbed
           /\ Proceeds(j, IF trainer[j].failed THEN "fail" ELSE "candidate")
        \/ /\ models' = Torn /\ UNCHANGED environ /\ disturbed' = TRUE /\ Proceeds(j, "fail")
    BY DEF RestoreBaseline, FailRestore
  <1>5. PICK step \in {"fail", "candidate"} :
          Proceeds(j, step) /\ (step = "candidate" => ~trainer[j].failed)
    BY <1>4
  <1>6. /\ trainer' \in [Jobs -> Trainers] /\ trainer'[j].step = step
        /\ \A i \in Jobs : i # j => UNCHANGED trainer[i]
        /\ UNCHANGED <<trainer[j].previous, trainer[j].failed>>
    BY <1>1, <1>5, Goes DEF TrainerSteps
  <1>7. /\ models' \in Models /\ environ' \in Jobs \cup {Plain} /\ disturbed' \in BOOLEAN
    BY <1>1, <1>3, <1>4 DEF RetrainingTypeOK
  <1>8. RetrainingTypeOK'
    BY <1>1, <1>2, <1>6, <1>7 DEF RetrainingTypeOK, reviewed
  <1>9. JobInv(j)'
    BY <1>1, <1>2, <1>5, <1>6 DEF JobInv, Waiting, AtModels
  <1>10. Retrains(j) /\ ~Retrains(j)'
    BY <1>1, <1>5, <1>6 DEF Retrains
  <1>11. disturbed' \/ (UNCHANGED disturbed /\ models' = baseline[j])
    BY <1>4
  <1>12. QED
    BY <1>1, <1>2, <1>6, <1>8, <1>9, <1>10, <1>11, TrainingKeeps DEF AtModels

LEMMA CrashInv ==
  ASSUME RetrainingInv, Crash
  PROVE  RetrainingInv'
  <1>1. /\ UNCHANGED <<reviewed, job, candidate, active, artifact, baseline, trainings>>
        /\ crashes' = crashes + 1 /\ crashes \in 0..MaxCrashes /\ crashes < MaxCrashes
        /\ environ' = Plain /\ disturbed' = (disturbed \/ Occupied)
        /\ models' \in Models /\ (~Occupied => models' = models)
        /\ trainer' = [i \in Jobs |-> Parked] /\ handler' = [h \in Handlers |-> NoRequest]
    BY DEF RetrainingInv, RetrainingTypeOK, Crash, Models
  <1>2. crashes' \in 0..MaxCrashes
    BY <1>1, RetrainingAssumption
  <1>3. trainer' \in [Jobs -> Trainers] /\ handler' \in [Handlers -> Attended]
    BY <1>1, TrainerTypes, HandlerTypes
  <1>4. RetrainingTypeOK'
    <2>1. disturbed' \in BOOLEAN
      BY <1>1 DEF RetrainingInv, RetrainingTypeOK
    <2>2. QED
      BY <1>1, <1>2, <1>3, <2>1 DEF RetrainingInv, RetrainingTypeOK, reviewed
  <1>5. \A j \in Jobs : JobInv(j)'
    BY <1>1, TrainerTypes DEF RetrainingInv, JobInv, Waiting, AtModels
  <1>6. (\A h \in Handlers : HandlerInv(h)') /\ ActiveInv'
    BY <1>1, HandlerTypes DEF RetrainingInv, HandlerInv, OnCandidate, ActiveInv
  <1>7. ASSUME ~disturbed' PROVE ModelsInv'
    <2>1. ModelsInv /\ ~Occupied /\ models' = models
      BY <1>1, <1>7 DEF RetrainingInv
    <2>2. /\ \A j \in Jobs : ~Retrains(j)'
          /\ \A h \in Handlers : ~Activates(h)'
      BY <1>1, TrainerTypes, HandlerTypes DEF Retrains, Activates, Serves
    <2>3. Deployed' = Deployed
      BY <1>1 DEF Deployed
    <2>4. QED
      BY <2>1, <2>2, <2>3 DEF ModelsInv
  <1>8. QED
    BY <1>4, <1>5, <1>6, <1>7 DEF RetrainingInv

LEMMA RetrainingStep == RetrainingInv /\ [RetrainingNext]_retrainingVars => RetrainingInv'
  <1>1. SUFFICES ASSUME RetrainingInv, [RetrainingNext]_retrainingVars PROVE RetrainingInv'
    OBVIOUS
  <1>2. CASE UNCHANGED retrainingVars
    <2>1. UNCHANGED <<job, candidate, active, files, trainer, trainings, crashes, disturbed, handler>>
      BY <1>2 DEF retrainingVars, files
    <2>2. RetrainingTypeOK'
      BY <1>1, <1>2 DEF retrainingVars, RetrainingInv, RetrainingTypeOK
    <2>3. \A h \in Handlers : HandlerInv(h)'
      BY <1>1, <2>1 DEF RetrainingInv, HandlerInv
    <2>4. QED
      BY <1>1, <2>1, <2>2, <2>3, RequestKeeps DEF Serves
  <1>3. ASSUME NEW h \in Handlers,
               \/ \E t \in Tasks : ReadTask(h, t)
               \/ \E d \in {"approved", "rejected", "corrected"} : Decide(h, d)
               \/ AskPolicy(h) \/ CheckJobs(h) \/ CheckCandidates(h)
        PROVE  RetrainingInv'
    BY <1>1, <1>3, DecisionInv
  <1>4. ASSUME NEW h \in Handlers,
               \/ \E j \in Jobs, d \in {"promote", "reject"} : ReadModelCandidate(h, j, d)
               \/ DeactivateDeployments(h)
        PROVE  RetrainingInv'
    BY <1>1, <1>4, PromotionReadInv
  <1>5. CASE \/ \E h \in Handlers, j \in Jobs : AutoCreate(h, j)
             \/ \E h \in Handlers : AutoApprove(h)
             \/ \E j \in Jobs : AddRetrainJob(j) \/ ApproveRetrainJob(j) \/ RejectRetrainJob(j)
    BY <1>1, <1>5, JobsInv
  <1>6. ASSUME NEW h \in Handlers, RejectCandidate(h) \/ DeployCandidate(h) PROVE RetrainingInv'
    BY <1>1, <1>6, CandidateInv
  <1>7. ASSUME NEW h \in Handlers, ActivateCandidate(h) \/ FailActivation(h) PROVE RetrainingInv'
    BY <1>1, <1>7, ActivationInv
  <1>8. ASSUME NEW m \in {"human_only", "guarded_auto"}, UpdateAutomationPolicy(m)
        PROVE  RetrainingInv'
    BY <1>1, <1>8, PolicyUpdateInv
  <1>9. ASSUME NEW j \in Jobs,
               \/ ReadJob(j) \/ MarkRunning(j) \/ CreateModelCandidate(j) \/ CompleteJob(j)
               \/ CreatePromotionReview(j) \/ Raise(j) \/ FailJob(j) \/ LoseJob(j)
        PROVE  RetrainingInv'
    BY <1>1, <1>9, TaskInv
  <1>10. ASSUME NEW j \in Jobs,
                \/ SaveBaseline(j) \/ StartTraining(j) \/ EndTraining(j) \/ FailTraining(j)
                \/ CopyCandidate(j) \/ RestoreBaseline(j) \/ FailRestore(j)
         PROVE  RetrainingInv'
    BY <1>1, <1>10, BaselineInv, TrainInv, AbandonInv, CopyInv, RestoreInv
  <1>11. CASE Crash
    BY <1>1, <1>11, CrashInv
  <1>12. QED
    BY <1>1, <1>2, <1>3, <1>4, <1>5, <1>6, <1>7, <1>8, <1>9, <1>10, <1>11 DEF RetrainingNext

(* The inductive invariant holds in every state.                           *)
THEOREM RetrainingInvariance == RetrainingSpec => []RetrainingInv
  BY RetrainingInitInv, RetrainingStep, PTL DEF RetrainingSpec

(* Tasks, jobs, candidates, files and requests keep their types: what is   *)
(* restored or copied to the production models was saved or trained before *)
(* (execute_retrain_job, activate_model_candidate, retrain_service.py).     *)
THEOREM RetrainingTypes == RetrainingSpec => []RetrainingTypeOK
  <1>1. RetrainingInv => RetrainingTypeOK
    BY DEF RetrainingInv
  <1>2. QED
    BY <1>1, RetrainingInvariance, PTL

(* Jobs are trained once and never after they were rejected; promotions,   *)
(* however they interleave, leave one active deployment, of a candidate    *)
(* that has files; and whatever jobs, operators, failures and crashes      *)
(* there are, the production models are the deployed ones while nothing    *)
(* retrains or activates, unless one of the named disturbances lies behind *)
(* the last undisturbed activation (execute_retrain_job,                   *)
(* activate_model_candidate, review_model_candidate).                      *)
THEOREM ProductionSafety == RetrainingSpec => []ModelsFollowDeployment
  <1>1. ASSUME RetrainingInv PROVE TrainedOnce
    <2>1. DOMAIN job = Jobs
      BY <1>1 DEF RetrainingInv, RetrainingTypeOK
    <2>2. ASSUME NEW j \in Jobs PROVE trainings[j] <= 1 /\ (trainings[j] = 1 => job[j] # "rejected")
      BY <1>1 DEF RetrainingInv, JobInv, Waiting
    <2>3. QED
      BY <2>1, <2>2 DEF TrainedOnce
  <1>2. ASSUME RetrainingInv PROVE OneActiveDeployment
    <2>1. \A j \in active : artifact[j] # Nothing
      BY <1>2 DEF RetrainingInv, RetrainingTypeOK, ActiveInv, JobInv
    <2>2. Cardinality(active) <= 1
      <3>1. CASE active = {}
        BY <3>1, FS_EmptySet
      <3>2. ASSUME NEW j \in active PROVE Cardinality(active) = 1
        <4>1. active = {j}
          BY <1>2, <3>2 DEF RetrainingInv, ActiveInv
        <4>2. QED
          BY <4>1, FS_Singleton
      <3>3. QED
        BY <3>1, <3>2
    <2>3. QED
      BY <2>1, <2>2 DEF OneActiveDeployment
  <1>3. ASSUME RetrainingInv PROVE DeploymentFollowed
    BY <1>3 DEF RetrainingInv, ModelsInv, DeploymentFollowed
  <1>4. RetrainingInv => ModelsFollowDeployment
    BY <1>1, <1>2, <1>3 DEF ModelsFollowDeployment
  <1>5. QED
    BY <1>4, RetrainingInvariance, PTL
-----------------------------------------------------------------------------
(* Migrations.                                                             *)
(*                                                                         *)
(* The versions with a row are the first ones.  A row has the name of its  *)
(* version, unless the database is of the other lineage, where the rows    *)
(* behind the last older version all have the next one's.  No signatures   *)
(* other than those of the whole schema are kept for the last version of a *)
(* release.                                                                *)
Version == 0..22
LedgerRows == [name : Version, manifest : Version, signature : SUBSET (-2..22)]
RowOK(v) ==
  /\ ledger[v].name = v \/ (v \in Lineage /\ ledger[v].name = v + 1 /\ ledger[v].signature = Unsigned)
  /\ ledger[v].name \in schema
  /\ ledger[v].manifest = v => ledger[v].signature \in {Unsigned, Complete(v)}
LedgerOK ==
  /\ \E k \in -1..22 : ledger \in [0..k -> LedgerRows]
  /\ \A v \in Applied : RowOK(v)
  /\ schema \subseteq Complete(22)
  /\ Checkpoint \in Applied => Tables \in schema
  /\ (\E v \in schema : v > Older) => \E v \in Applied : v > Older
  /\ Renamed # {} => \A v \in Applied : v > Older => v \in Renamed

(* The last release that migrated the database left it whole, and nobody   *)
(* of a release that is not newer changes it.                              *)
Settled(last) ==
  /\ Applied = 0..last /\ schema = Complete(last)
  /\ \A v \in Applied : ledger[v].name = v
  /\ ledger[last] = Row(last, last, schema)

Working == {"first", "reconcile", "checksums", "baseline", "execute", "setup", "row"}
Applying == {"execute", "setup", "row"}
MigratorStates == [step : Working \cup {"idle", "done"}, existing : BOOLEAN, next : 1..23]
ServerStates == [step : {"idle", "names", "compare", "passed"}, saw : SUBSET (-2..22)]
MigratorInv(m) ==
  /\ migrator[m].step \in Working <=> m \in lock
  /\ migrator[m].step \in Working \ {"first"} => 0 \in Applied
  /\ migrator[m].step \in Applying \cup {"baseline"} => KnownTo(m)
  /\ migrator[m].step \in Working \ Applying => migrator[m].next = 1
  /\ migrator[m].step \in Applying =>
       migrator[m].next <= Release[m] + 1 /\ \A v \in 0..migrator[m].next - 1 : v \in Applied
  /\ migrator[m].step \in {"setup", "row"} =>
       migrator[m].next = Checkpoint /\ Checkpoint \notin Applied /\ Checkpoint \in schema
  /\ migrator[m].step = "row" => Tables \in schema
  /\ migrator[m].step = "done" /\ (\A n \in Migrators : Release[n] <= Release[m]) =>
       Settled(Release[m])

ServerInv(s) ==
  /\ server[s].step = "names" => Applied # {}
  /\ server[s].step = "compare" => server[s].saw \in {Unsigned, Complete(Release[s])}
  /\ server[s].step = "passed" => server[s].saw = Complete(Release[s])

MigrationInv ==
  /\ LedgerOK
  /\ lock \subseteq Migrators /\ \A m, n \in lock : m = n
  /\ failures \in 0..MaxFailures
  /\ migrator \in [Migrators -> MigratorStates] /\ server \in [Servers -> ServerStates]
  /\ \A m \in Migrators : MigratorInv(m)
  /\ \A s \in Servers : ServerInv(s)

LEMMA Releases ==
  /\ \A p \in Migrators \cup Servers : Release[p] \in {18, 22}
  /\ \A m \in Migrators : Release[m] \in {18, 22}
  /\ \A s \in Servers : Release[s] \in {18, 22}
  BY MigrationsAssumption

LEMMA ProcessTypes ==
  /\ Outside \in MigratorStates /\ Outside.step = "idle" /\ Outside.next = 1
  /\ NotStarted \in ServerStates /\ NotStarted.step = "idle"
  /\ [Outside EXCEPT !.step = "done"] \in MigratorStates
  /\ [Outside EXCEPT !.step = "done"].step = "done"
  <1>1. /\ Outside \in MigratorStates /\ Outside.step = "idle" /\ Outside.next = 1
        /\ Outside.existing = FALSE
    BY DEF Outside, MigratorStates, Working
  <1>2. NotStarted \in ServerStates /\ NotStarted.step = "idle"
    BY DEF NotStarted, ServerStates
  <1>3. /\ [Outside EXCEPT !.step = "done"] \in MigratorStates
        /\ [Outside EXCEPT !.step = "done"].step = "done"
    BY <1>1 DEF MigratorStates, Working
  <1>4. QED
    BY <1>1, <1>2, <1>3

LEMMA RowFields ==
  \A name, manifest, signature :
    /\ Row(name, manifest, signature).name = name
    /\ Row(name, manifest, signature).manifest = manifest
    /\ Row(name, manifest, signature).signature = signature
  BY DEF Row
LEMMA RowType ==
  \A name \in Version, manifest \in Version, signature \in SUBSET (-2..22) :
    Row(name, manifest, signature) \in LedgerRows
  BY DEF Row, LedgerRows

LEMMA ContractTypes ==
  /\ \A last \in {18, 22} : /\ Complete(last) \in SUBSET (-2..22) /\ Complete(last) # Unsigned
                            /\ \A v \in 0..last : v \in Complete(last)
                            /\ Tables \in Complete(last)
                            /\ \A v \in Complete(last) : v <= last
  /\ Unsigned \in SUBSET (-2..22) /\ Complete(18) \subseteq Complete(22)
  /\ Unsigned # Complete(18) /\ Unsigned # Complete(22)
  BY DEF Complete, Unsigned, Tables

(* A database that was never migrated, of the older release or of the      *)
(* other lineage.                                                          *)
LEMMA LedgerInitOK == ASSUME NEW db \in Databases, Initially(db) PROVE LedgerOK
  <1>1. CASE schema \subseteq 1..5 /\ ledger = [v \in {} |-> {}]
    <2>1. Applied = {} /\ ledger \in [0..-1 -> LedgerRows] /\ -1 \in -1..22
      BY <1>1 DEF Applied
    <2>2. schema \subseteq Complete(22) /\ ~\E v \in schema : v > Older
      BY <1>1 DEF Complete, Older
    <2>3. Renamed = {}
      BY <2>1 DEF Renamed
    <2>4. QED
      BY <2>1, <2>2, <2>3 DEF LedgerOK, Checkpoint
  <1>2. CASE schema = Built /\ ledger = [v \in 0..Older |-> Row(v, Older, Built)]
    <2>1. Applied = 0..18 /\ (\A v \in 0..18 : ledger[v] = Row(v, 18, schema)) /\ schema = Complete(18)
      BY <1>2 DEF Applied, Older, Built, Complete
    <2>2. \A v \in 0..18 : Row(v, 18, schema) \in LedgerRows
      BY <2>1, RowType, ContractTypes DEF Version
    <2>3. ledger \in [0..18 -> LedgerRows]
      BY <1>2, <2>2 DEF Older
    <2>4. \A v \in 0..18 : /\ ledger[v].name = v /\ ledger[v].manifest = 18
                           /\ ledger[v].signature = schema
      BY <2>1, RowFields
    <2>5. \A v \in Applied : RowOK(v)
      BY <2>1, <2>4, ContractTypes DEF RowOK
    <2>6. Renamed = {}
      BY <2>1 DEF Renamed, Lineage
    <2>7. QED
      BY <2>1, <2>3, <2>5, <2>6, ContractTypes, SMTT(30) DEF LedgerOK, Older
  <1>3. ASSUME NEW last \in Lineage, schema = Built \cup 20..last + 1,
               ledger = [v \in 0..last |-> Row(IF v > Older THEN v + 1 ELSE v, last, Unsigned)]
        PROVE  LedgerOK
    <2>1. /\ last \in 19..21 /\ Applied = 0..last
          /\ \A v \in 0..last : ledger[v] = Row(IF v > 18 THEN v + 1 ELSE v, last, Unsigned)
      BY <1>3 DEF Applied, Lineage, Older
    <2>2. \A v \in 0..last : (IF v > 18 THEN v + 1 ELSE v) \in Version /\ last \in Version
      BY <2>1 DEF Version
    <2>3. \A v \in 0..last : /\ ledger[v] \in LedgerRows
                             /\ ledger[v].name = IF v > 18 THEN v + 1 ELSE v
                             /\ ledger[v].signature = Unsigned
      <3> TAKE v \in 0..last
      <3> DEFINE name == IF v > 18 THEN v + 1 ELSE v
      <3>1. ledger[v] = Row(name, last, Unsigned) /\ name \in Version /\ last \in Version
        BY <2>1, <2>2
      <3> HIDE DEF name
      <3>2. ledger[v] \in LedgerRows /\ ledger[v].name = name /\ ledger[v].signature = Unsigned
        BY <3>1, RowType, RowFields, ContractTypes
      <3>3. QED
        BY <3>2 DEF name
    <2>4. ledger \in [0..last -> LedgerRows]
      BY <1>3, <2>3
    <2>5. /\ schema \subseteq Complete(22) /\ Tables \in schema
          /\ \A v \in 0..last : v <= 18 => v \in schema
          /\ \A v \in 0..last : v > 18 => v + 1 \in schema
      BY <1>3, <2>1 DEF Built, Complete, Tables, Older
    <2>6. \A v \in Applied : RowOK(v)
      BY <2>1, <2>3, <2>5 DEF RowOK, Lineage
    <2>7. \A v \in Applied : v > Older => v \in Renamed
      BY <2>1, <2>3 DEF Renamed, Lineage, Older
    <2>8. 19 \in Applied /\ 19 > Older /\ last \in -1..22
      BY <2>1 DEF Older
    <2>9. QED
      BY <2>1, <2>4, <2>5, <2>6, <2>7, <2>8 DEF LedgerOK
  <1>4. QED
    <2>1. CASE db = "empty"
      BY <1>1, <2>1 DEF Initially
    <2>2. CASE db = "legacy"
      BY <1>1, <2>2 DEF Initially, Baselined
    <2>3. CASE db = "released"
      BY <1>2, <2>3 DEF Initially
    <2>4. CASE db = "lineage"
      BY <1>3, <2>4 DEF Initially
    <2>5. QED
      BY <2>1, <2>2, <2>3, <2>4, MigrationsAssumption

LEMMA MigrationInitInv == MigrationInit => MigrationInv
  <1>1. SUFFICES ASSUME MigrationInit PROVE MigrationInv
    OBVIOUS
  <1>2. LedgerOK
    BY <1>1, LedgerInitOK DEF MigrationInit
  <1>3. lock = {} /\ failures \in 0..MaxFailures
    BY <1>1, MigrationsAssumption DEF MigrationInit
  <1>4. /\ migrator \in [Migrators -> MigratorStates] /\ server \in [Servers -> ServerStates]
        /\ (\A m \in Migrators : migrator[m].step = "idle") /\ \A s \in Servers : server[s].step = "idle"
    BY <1>1, ProcessTypes DEF MigrationInit
  <1>5. QED
    BY <1>2, <1>3, <1>4 DEF MigrationInv, MigratorInv, ServerInv, Working, Applying

(* One migrator takes a step: the others wait, have ended or are done.     *)
LEMMA MigratorAlone ==
  ASSUME MigrationInv, NEW m \in Migrators, LedgerOK', MigratorInv(m)',
         migrator' \in [Migrators -> MigratorStates],
         \A n \in Migrators : n # m => UNCHANGED migrator[n],
         lock \subseteq {m}, lock' \subseteq {m}, failures' \in 0..MaxFailures,
         UNCHANGED server, Applied \subseteq Applied',
         \A last \in {18, 22} : Release[m] <= last /\ Settled(last) => Settled(last)'
  PROVE  MigrationInv'
  <1>1. ASSUME NEW n \in Migrators, n # m PROVE MigratorInv(n)'
    <2>1. n \notin lock /\ n \notin lock' /\ migrator[n].step \notin Working /\ UNCHANGED migrator[n]
      BY <1>1 DEF MigrationInv, MigratorInv
    <2>2. ASSUME migrator[n].step = "done", \A p \in Migrators : Release[p] <= Release[n]
          PROVE  Settled(Release[n])'
      BY <2>2, Releases DEF MigrationInv, MigratorInv
    <2>3. QED
      BY <2>1, <2>2 DEF MigratorInv, Working, Applying
  <1>2. \A s \in Servers : ServerInv(s)'
    BY DEF MigrationInv, ServerInv
  <1>3. QED
    BY <1>1, <1>2 DEF MigrationInv

(* A migrator goes on.                                                     *)
LEMMA MigratorGoes ==
  ASSUME MigrationInv, NEW m \in Migrators, NEW step \in Working, Goto(m, step)
  PROVE  /\ migrator' \in [Migrators -> MigratorStates]
         /\ \A n \in Migrators : n # m => UNCHANGED migrator[n]
         /\ migrator'[m].step = step /\ migrator'[m].next = migrator[m].next
  BY DEF MigrationInv, MigratorStates, Goto

LEMMA MigratorAdvances ==
  ASSUME MigrationInv, NEW m \in Migrators, Advance(m), migrator[m].next <= 22
  PROVE  /\ migrator' \in [Migrators -> MigratorStates]
         /\ \A n \in Migrators : n # m => UNCHANGED migrator[n]
         /\ migrator'[m].step = "execute" /\ migrator'[m].next = migrator[m].next + 1
  <1>1. migrator[m] \in MigratorStates /\ migrator[m].next \in 1..22
    BY DEF MigrationInv, MigratorStates
  <1>2. PICK n \in 1..23 : n = migrator[m].next + 1
    BY <1>1
  <1> DEFINE r == [migrator[m] EXCEPT !.step = "execute", !.next = n]
  <1>3. r \in MigratorStates /\ r.step = "execute" /\ r.next = n
    BY <1>1 DEF MigratorStates, Working
  <1>4. migrator' = [migrator EXCEPT ![m] = r]
    BY <1>2 DEF Advance
  <1> HIDE DEF r
  <1>5. QED
    BY <1>2, <1>3, <1>4 DEF MigrationInv

LEMMA MigratorLeaves ==
  ASSUME MigrationInv, NEW m \in Migrators, MigratorEnds(m), lock \subseteq {m}
  PROVE  /\ migrator' \in [Migrators -> MigratorStates]
         /\ \A n \in Migrators : n # m => UNCHANGED migrator[n]
         /\ lock' = {} /\ MigratorInv(m)'
  <1>1. migrator' = [migrator EXCEPT ![m] = Outside] /\ lock' = {}
    BY DEF MigratorEnds
  <1>2. migrator' \in [Migrators -> MigratorStates] /\ migrator'[m] = Outside
    BY <1>1, ProcessTypes DEF MigrationInv
  <1>3. \A n \in Migrators : n # m => UNCHANGED migrator[n]
    BY <1>1 DEF MigrationInv
  <1>4. MigratorInv(m)'
    BY <1>1, <1>2, ProcessTypes DEF MigratorInv, Working, Applying
  <1>5. QED
    BY <1>1, <1>2, <1>3, <1>4

(* The row of the next version is written.                                 *)
LEMMA LedgerType ==
  ASSUME LedgerOK
  PROVE  /\ Applied \subseteq Version
         /\ \A v \in Applied : /\ ledger[v] \in LedgerRows
                               /\ ledger[v].name \in Version /\ ledger[v].manifest \in Version
                               /\ ledger[v].signature \in SUBSET (-2..22)
         /\ \E k \in -1..22 : Applied = 0..k
  <1>1. Applied \subseteq Version /\ \A v \in Applied : ledger[v] \in LedgerRows
    BY DEF LedgerOK, Applied, Version
  <1>2. \A r \in LedgerRows :
          r.name \in Version /\ r.manifest \in Version /\ r.signature \in SUBSET (-2..22)
    BY DEF LedgerRows
  <1>3. \E k \in -1..22 : Applied = 0..k
    BY DEF LedgerOK, Applied
  <1>4. QED
    BY <1>1, <1>2, <1>3

LEMMA InsertOK ==
  ASSUME LedgerOK, NEW v \in Version, v \notin Applied, \A w \in 0..v - 1 : w \in Applied,
         NEW manifest \in Version, NEW signature \in SUBSET (-2..22),
         ledger' = Insert(v, Row(v, manifest, signature)),
         v \in schema', schema \subseteq schema', schema' \subseteq Complete(22),
         v = Checkpoint => Tables \in schema',
         manifest = v => signature \in {Unsigned, Complete(v)},
         \A w \in schema' : w > Older => w \in schema \/ v > Older,
         Renamed = {} \/ v <= Older
  PROVE  /\ LedgerOK' /\ Applied' = Applied \cup {v}
         /\ ledger'[v].name = v /\ \A w \in Applied : ledger'[w] = ledger[w]
  <1> DEFINE row == Row(v, manifest, signature)
  <1>1. PICK k \in -1..22 : ledger \in [0..k -> LedgerRows]
    BY DEF LedgerOK
  <1>2. Applied = 0..k /\ v = k + 1 /\ v \in -1..22 /\ 0..k \cup {v} = 0..v
    BY <1>1 DEF Applied, Version
  <1>3. row \in LedgerRows /\ row.name = v /\ row.manifest = manifest /\ row.signature = signature
    <2>1. row \in LedgerRows
      BY RowType, Zenon
    <2>2. row.name = v /\ row.manifest = manifest /\ row.signature = signature
      BY DEF Row
    <2>3. QED
      BY <2>1, <2>2
  <1> HIDE DEF row
  <1>4. ledger' = [w \in 0..v |-> IF w = v THEN row ELSE ledger[w]]
    BY <1>2 DEF Insert, row
  <1>5. /\ ledger' \in [0..v -> LedgerRows] /\ Applied' = 0..v /\ ledger'[v] = row
        /\ \A w \in Applied : w # v /\ ledger'[w] = ledger[w]
    BY <1>1, <1>2, <1>3, <1>4 DEF Applied
  <1>6. \A w \in Applied' : RowOK(w)'
    <2>1. RowOK(v)'
      BY <1>3, <1>5 DEF RowOK
    <2>2. ASSUME NEW w \in Applied PROVE RowOK(w)'
      BY <1>5, <2>2 DEF LedgerOK, RowOK
    <2>3. QED
      BY <1>2, <1>5, <2>1, <2>2
  <1>7. Checkpoint \in Applied' => Tables \in schema'
    BY <1>2, <1>5 DEF LedgerOK
  <1>8. (\E w \in schema' : w > Older) => \E w \in Applied' : w > Older
    BY <1>2, <1>5 DEF LedgerOK
  <1>9. Renamed' = Renamed
    BY <1>2, <1>3, <1>5 DEF Renamed, Lineage, Older, Version
  <1>10. Renamed' # {} => \A w \in Applied' : w > Older => w \in Renamed'
    BY <1>2, <1>5, <1>9 DEF LedgerOK, Older
  <1>11. QED
    BY <1>2, <1>3, <1>5, <1>6, <1>7, <1>8, <1>10 DEF LedgerOK

(* Objects are made that no row speaks of.                                 *)
LEMMA SchemaOK ==
  ASSUME LedgerOK, UNCHANGED ledger, schema \subseteq schema', schema' \subseteq Complete(22),
         \A w \in schema' : w > Older => w \in schema
  PROVE  LedgerOK' /\ Applied' = Applied
  <1>1. Applied' = Applied /\ Renamed' = Renamed
    BY DEF Applied, Renamed
  <1>2. \A v \in Applied : RowOK(v)'
    BY DEF LedgerOK, RowOK
  <1>3. QED
    BY <1>1, <1>2 DEF LedgerOK

(* Who knows the ledger finds no row of the other lineage, and nothing of  *)
(* a newer release.                                                        *)
LEMMA KnownLedger ==
  ASSUME LedgerOK, NEW p \in Migrators \cup Servers, KnownTo(p)
  PROVE  /\ Renamed = {} /\ Applied \subseteq 0..Release[p] /\ schema \subseteq Complete(Release[p])
         /\ \A v \in Applied : ledger[v].name = v /\ v \in schema
  <1>1. /\ Release[p] \in {18, 22} /\ Applied \subseteq Version
        /\ \A v \in Applied : v <= Release[p] /\ ledger[v].name = v
    BY Releases, LedgerType DEF KnownTo
  <1>2. Renamed = {} /\ Applied \subseteq 0..Release[p]
    BY <1>1 DEF Renamed, Lineage, Version
  <1>3. \A v \in Applied : v \in schema
    BY <1>1 DEF LedgerOK, RowOK
  <1>4. schema \subseteq Complete(Release[p])
    <2>1. CASE Release[p] = 18
      <3>1. ~\E v \in Applied : v > 18
        BY <1>1, <2>1 DEF Version
      <3>2. schema \subseteq Complete(22) /\ ~\E v \in schema : v > 18
        BY <3>1 DEF LedgerOK, Older
      <3>3. QED
        BY <2>1, <3>2 DEF Complete, Tables
    <2>2. QED
      BY <1>1, <2>1 DEF LedgerOK
  <1>5. QED
    BY <1>1, <1>2, <1>3, <1>4

LEMMA SettledStays ==
  ASSUME UNCHANGED <<ledger, schema>>, NEW last, Settled(last)
  PROVE  Settled(last)'
  BY DEF Settled, Applied

(* A migrator at work holds the lock, and knows what it finds.             *)
LEMMA AtWork ==
  ASSUME MigrationInv, NEW m \in Migrators, migrator[m].step \in Working
  PROVE  /\ LedgerOK /\ MigratorInv(m) /\ Release[m] \in {18, 22} /\ lock = {m}
         /\ migrator \in [Migrators -> MigratorStates] /\ migrator[m].next \in 1..23
         /\ failures \in 0..MaxFailures
  BY Releases DEF MigrationInv, MigratorInv, MigratorStates

(* The steps of a migrator that leave the ledger and the schema alone.     *)
LEMMA WaitInv ==
  ASSUME MigrationInv, NEW m \in Migrators,
         BeginMigration(m) \/ Checksums(m) \/ Skip(m) \/ FailMigrator(m)
  PROVE  MigrationInv'
  <1>1. /\ LedgerOK /\ MigratorInv(m) /\ Release[m] \in {18, 22} /\ failures \in 0..MaxFailures
        /\ migrator \in [Migrators -> MigratorStates]
    BY Releases DEF MigrationInv
  <1>2. UNCHANGED <<ledger, schema, server>> /\ lock \subseteq {m}
    BY <1>1 DEF MigrationInv, BeginMigration, Checksums, Skip, FailMigrator, Unlocked, MigratorInv,
       MigratorAt, Pending, Working
  <1>3. /\ LedgerOK' /\ Applied' = Applied /\ \A last : Settled(last) => Settled(last)'
    BY <1>1, <1>2, SchemaOK, SettledStays DEF LedgerOK
  <1>4. failures' \in 0..MaxFailures
    BY <1>1, MigrationsAssumption DEF BeginMigration, Checksums, Skip, FailMigrator
  <1>5. /\ migrator' \in [Migrators -> MigratorStates] /\ MigratorInv(m)' /\ lock' \subseteq {m}
        /\ \A n \in Migrators : n # m => UNCHANGED migrator[n]
    <2>1. CASE BeginMigration(m)
      <3>0. PICK existing \in BOOLEAN : existing = (schema \cap {1, 2} # {})
        OBVIOUS
      <3> DEFINE r == [step |-> "first", existing |-> existing, next |-> 1]
      <3>1. r \in MigratorStates /\ r.step = "first" /\ r.next = 1
        BY DEF MigratorStates, Working
      <3>2. migrator' = [migrator EXCEPT ![m] = r] /\ lock' = {m}
        BY <2>1, <3>0 DEF BeginMigration, Unlocked
      <3> HIDE DEF r
      <3>3. /\ migrator' \in [Migrators -> MigratorStates] /\ migrator'[m] = r
            /\ \A n \in Migrators : n # m => UNCHANGED migrator[n]
        BY <1>1, <3>1, <3>2
      <3>4. QED
        BY <3>1, <3>2, <3>3 DEF MigratorInv, Working, Applying
    <2>2. CASE Checksums(m) /\ KnownTo(m)
      <3>1. PICK step \in {"baseline", "execute"} : Goto(m, step)
        BY <2>2 DEF Checksums
      <3>2. /\ migrator' \in [Migrators -> MigratorStates]
            /\ \A n \in Migrators : n # m => UNCHANGED migrator[n]
            /\ migrator'[m].step = step /\ migrator'[m].next = migrator[m].next
        BY <3>1, MigratorGoes DEF Working
      <3>3. UNCHANGED lock /\ migrator[m].step = "checksums" /\ migrator[m].next = 1 /\ 0 \in Applied
            /\ m \in lock /\ KnownTo(m)'
        BY <1>1, <1>2, <2>2 DEF Checksums, MigratorAt, MigratorInv, Working, Applying, KnownTo,
           Applied
      <3>4. QED
        BY <1>1, <1>2, <1>3, <3>2, <3>3 DEF MigratorInv, Working, Applying
    <2>3. CASE MigratorEnds(m)
      BY <1>2, <2>3, MigratorLeaves
    <2>4. CASE Skip(m)
      <3>1. /\ migrator[m].step = "execute" /\ migrator[m].next <= Release[m] /\ Advance(m)
            /\ migrator[m].next \in Applied /\ UNCHANGED lock
            /\ migrator[m].next \in 1..23 /\ migrator[m].next <= 22
        BY <1>1, <2>4, AtWork DEF Skip, Pending, MigratorAt, Working
      <3>2. /\ migrator' \in [Migrators -> MigratorStates]
            /\ \A n \in Migrators : n # m => UNCHANGED migrator[n]
            /\ migrator'[m].step = "execute" /\ migrator'[m].next = migrator[m].next + 1
        BY <1>1, <3>1, MigratorAdvances
      <3>3. migrator[m].next \in 1..23 /\ m \in lock /\ 0 \in Applied /\ KnownTo(m)'
            /\ \A v \in 0..migrator[m].next - 1 : v \in Applied
        BY <1>1, <1>2, <3>1 DEF MigratorInv, MigratorStates, Working, Applying, KnownTo, Applied
      <3>4. \A v \in 0..migrator'[m].next - 1 : v \in Applied'
        BY <1>3, <3>1, <3>2, <3>3
      <3>5. QED
        BY <1>1, <1>2, <1>3, <3>1, <3>2, <3>3, <3>4 DEF MigratorInv, Working, Applying
    <2>5. QED
      BY <2>1, <2>2, <2>3, <2>4 DEF Checksums, FailMigrator
  <1>6. QED
    BY <1>1, <1>2, <1>3, <1>4, <1>5, MigratorAlone

LEMMA FirstInv ==
  ASSUME MigrationInv, NEW m \in Migrators, FirstMigration(m)
  PROVE  MigrationInv'
  <1>1. migrator[m].step = "first" /\ UNCHANGED <<lock, server, failures>> /\ Goto(m, "reconcile")
    BY DEF FirstMigration, MigratorAt
  <1>2. /\ LedgerOK /\ MigratorInv(m) /\ Release[m] \in {18, 22} /\ lock = {m}
        /\ migrator[m].next = 1 /\ failures \in 0..MaxFailures
    BY <1>1, AtWork DEF Working, Applying, MigratorInv
  <1>3. /\ migrator' \in [Migrators -> MigratorStates]
        /\ \A n \in Migrators : n # m => UNCHANGED migrator[n]
        /\ migrator'[m].step = "reconcile" /\ migrator'[m].next = migrator[m].next
    BY <1>1, MigratorGoes DEF Working
  <1>4. /\ LedgerOK' /\ Applied' = Applied \cup {0}
        /\ \A last \in {18, 22} : Settled(last) => Settled(last)'
    <2>1. CASE 0 \in Applied
      BY <1>2, <2>1, SchemaOK, SettledStays DEF FirstMigration, LedgerOK
    <2>2. CASE 0 \notin Applied
      <3>1. /\ schema' = schema \cup {0}
            /\ ledger' = Insert(0, Row(0, Release[m], schema'))
        BY <2>2 DEF FirstMigration, ApplyMigration
      <3>2. schema' \subseteq Complete(22) /\ schema' \in SUBSET (-2..22)
            /\ \A w \in schema' : w > Older => w \in schema
        BY <1>2, <3>1, ContractTypes, SMTT(30) DEF LedgerOK, Older
      <3>3. 0 \in Version /\ Release[m] \in Version /\ Release[m] # 0 /\ 0 <= Older /\ 0 # Checkpoint
        BY <1>2 DEF Version, Older, Checkpoint
      <3>4. LedgerOK' /\ Applied' = Applied \cup {0}
        BY <1>2, <2>2, <3>1, <3>2, <3>3, InsertOK
      <3>5. \A last \in {18, 22} : ~Settled(last)
        BY <2>2 DEF Settled
      <3>6. QED
        BY <3>4, <3>5
    <2>3. QED
      BY <2>1, <2>2
  <1>5. MigratorInv(m)'
    BY <1>1, <1>2, <1>3, <1>4 DEF MigratorInv, Working, Applying
  <1>6. QED
    BY <1>1, <1>2, <1>3, <1>4, <1>5, MigratorAlone

(* The rows of the other lineage get the names of the next versions.       *)
LEMMA RenamedRows ==
  ASSUME LedgerOK, Renamed # {}
  PROVE  \E last \in 19..21 :
           /\ Applied = 0..last /\ Renamed = 19..last
           /\ \A v \in 0..18 : ledger[v].name = v /\ v \in schema
           /\ \A v \in 20..last + 1 : v \in schema
  <1>1. PICK k \in -1..22 : Applied = 0..k
    BY LedgerType
  <1>2. \A v \in Applied : v > 18 <=> v \in Renamed
    BY DEF LedgerOK, Older, Renamed, Lineage
  <1>3. k \in 19..21
    <2>1. \E v \in Renamed : v \in 19..21 /\ v \in 0..k
      BY <1>1 DEF Renamed, Lineage
    <2>2. 22 \notin Renamed
      BY DEF Renamed, Lineage
    <2>3. QED
      BY <1>1, <1>2, <2>1, <2>2
  <1>4. Renamed = 19..k
    BY <1>1, <1>2, <1>3 DEF Renamed
  <1>5. \A v \in 0..18 : ledger[v].name = v /\ v \in schema
    BY <1>1, <1>3 DEF LedgerOK, RowOK, Lineage
  <1>6. \A v \in 19..k : v + 1 \in schema
    BY <1>1, <1>4 DEF LedgerOK, RowOK, Renamed
  <1>7. \A v \in 20..k + 1 : v \in schema
    <2>1. \A v \in 20..k + 1 : v - 1 \in 19..k /\ (v - 1) + 1 = v
      BY <1>3
    <2>2. QED
      BY <1>6, <2>1
  <1>8. QED
    BY <1>1, <1>3, <1>4, <1>5, <1>7

LEMMA RenamedVersions ==
  ASSUME NEW last \in 19..21, Applied = 0..last, Renamed = 19..last
  PROVE  Applied \cup {19} \cup {w + 1 : w \in Renamed} = 0..last + 1
  <1>1. \A v \in 20..last + 1 : v - 1 \in Renamed /\ (v - 1) + 1 = v
    OBVIOUS
  <1>2. \A v \in 20..last + 1 : v \in {w + 1 : w \in Renamed}
    BY <1>1
  <1>3. \A w \in Renamed : w + 1 \in 0..last + 1
    OBVIOUS
  <1>4. \A v \in 0..last + 1 : v \in 0..last \/ v \in 20..last + 1
    OBVIOUS
  <1>5. 0..last \subseteq 0..last + 1 /\ 19 \in 0..last + 1
    OBVIOUS
  <1>6. QED
    BY <1>2, <1>3, <1>4, <1>5

LEMMA ReconciledRows ==
  ASSUME LedgerOK, NEW last \in 19..21, NEW manifest \in Version, Applied = 0..last,
         ledger' = [v \in 0..last + 1 |->
                      IF v > Older THEN Row(v, manifest, Unsigned) ELSE ledger[v]]
  PROVE  /\ ledger' \in [0..last + 1 -> LedgerRows]
         /\ \A v \in 0..18 : ledger'[v] = ledger[v]
         /\ \A v \in 19..last + 1 : ledger'[v].name = v /\ ledger'[v].signature = Unsigned
  <1>1. ASSUME NEW v \in 19..last + 1
        PROVE  /\ ledger'[v] \in LedgerRows /\ ledger'[v].name = v
               /\ ledger'[v].signature = Unsigned
    <2>1. ledger'[v] = Row(v, manifest, Unsigned) /\ v \in Version
      BY DEF Older, Version
    <2>2. Row(v, manifest, Unsigned) \in LedgerRows
      BY <2>1, RowType, ContractTypes
    <2>3. Row(v, manifest, Unsigned).name = v /\ Row(v, manifest, Unsigned).signature = Unsigned
      BY DEF Row
    <2>4. QED
      BY <2>1, <2>2, <2>3
  <1>2. \A v \in 0..18 : ledger'[v] = ledger[v] /\ ledger[v] \in LedgerRows
    <2>1. \A v \in 0..18 : v \in Applied
      OBVIOUS
    <2>2. QED
      BY <2>1, LedgerType DEF Older
  <1>3. \A v \in 0..last + 1 : v \in 0..18 \/ v \in 19..last + 1
    OBVIOUS
  <1>4. QED
    BY <1>1, <1>2, <1>3

LEMMA ReconciledOK ==
  ASSUME LedgerOK, NEW last \in 19..21, Applied = 0..last, schema' = schema \cup {19},
         \A v \in 0..18 : ledger[v].name = v /\ v \in schema,
         \A v \in 20..last + 1 : v \in schema,
         ledger' \in [0..last + 1 -> LedgerRows],
         \A v \in 0..18 : ledger'[v] = ledger[v],
         \A v \in 19..last + 1 : ledger'[v].name = v /\ ledger'[v].signature = Unsigned
  PROVE  LedgerOK' /\ Applied \subseteq Applied'
  <1>1. Applied' = 0..last + 1 /\ Applied \subseteq Applied' /\ 19 \in Applied' /\ 19 > Older
    BY SMTT(30) DEF Applied, Older
  <1>2. ASSUME NEW v \in 0..18 PROVE RowOK(v)'
    <2>1. v \in Applied
      BY SMTT(30)
    <2>2. RowOK(v)
      BY <2>1 DEF LedgerOK
    <2>3. v \in schema' /\ ledger[v].name = v /\ ledger'[v] = ledger[v]
      OBVIOUS
    <2>4. QED
      BY <2>2, <2>3 DEF RowOK
  <1>3. ASSUME NEW v \in 19..last + 1 PROVE RowOK(v)'
    <2>1. v \in schema' /\ ledger'[v].name = v /\ ledger'[v].signature = Unsigned
      BY SMTT(30)
    <2>2. QED
      BY <2>1 DEF RowOK
  <1>4. \A v \in Applied' : RowOK(v)'
    BY <1>1, <1>2, <1>3, SMTT(30)
  <1>5. Renamed' = {}
    <2>1. \A v \in Lineage \cap Applied' : ledger'[v].name = v /\ v # v + 1
      BY <1>1, SMTT(30) DEF Lineage
    <2>2. QED
      BY <2>1, SMTT(30) DEF Renamed
  <1>6. schema' \subseteq Complete(22) /\ Tables \in schema'
    <2>1. Checkpoint \in Applied /\ 19 \in Complete(22)
      BY DEF Checkpoint, Complete
    <2>2. QED
      BY <2>1 DEF LedgerOK
  <1>7. \E k \in -1..22 : ledger' \in [0..k -> LedgerRows]
    <2>1. last + 1 \in -1..22
      OBVIOUS
    <2>2. QED
      BY <2>1
  <1>8. QED
    BY <1>1, <1>4, <1>5, <1>6, <1>7 DEF LedgerOK

LEMMA ReconcileInv ==
  ASSUME MigrationInv, NEW m \in Migrators, Reconcile(m)
  PROVE  MigrationInv'
  <1>1. migrator[m].step = "reconcile" /\ UNCHANGED <<lock, server, failures>> /\ Goto(m, "checksums")
    BY DEF Reconcile, MigratorAt
  <1>2. /\ LedgerOK /\ MigratorInv(m) /\ Release[m] \in {18, 22} /\ lock = {m}
        /\ migrator[m].next = 1 /\ 0 \in Applied /\ failures \in 0..MaxFailures
    BY <1>1, AtWork DEF Working, Applying, MigratorInv
  <1>3. /\ migrator' \in [Migrators -> MigratorStates]
        /\ \A n \in Migrators : n # m => UNCHANGED migrator[n]
        /\ migrator'[m].step = "checksums" /\ migrator'[m].next = migrator[m].next
    BY <1>1, MigratorGoes DEF Working
  <1>4. /\ LedgerOK' /\ Applied \subseteq Applied'
        /\ \A last \in {18, 22} : Settled(last) => Settled(last)'
    <2>1. CASE UNCHANGED <<ledger, schema>>
      BY <1>2, <2>1, SchemaOK, SettledStays DEF LedgerOK
    <2>2. CASE ~UNCHANGED <<ledger, schema>>
      <3>1. /\ Renamed # {} /\ schema' = schema \cup {19} /\ Release[m] \in Version
            /\ ledger' = [v \in Applied \cup {19} \cup {w + 1 : w \in Renamed} |->
                            IF v > Older THEN Row(v, Release[m], Unsigned) ELSE ledger[v]]
        BY <1>2, <2>2 DEF Reconcile, Version
      <3>2. LedgerOK' /\ Applied \subseteq Applied'
        <4>1. PICK last \in 19..21 :
                /\ Applied = 0..last /\ Renamed = 19..last
                /\ \A v \in 0..18 : ledger[v].name = v /\ v \in schema
                /\ \A v \in 20..last + 1 : v \in schema
          BY <1>2, <3>1, RenamedRows
        <4>2. ledger' = [v \in 0..last + 1 |->
                           IF v > Older THEN Row(v, Release[m], Unsigned) ELSE ledger[v]]
          BY <3>1, <4>1, RenamedVersions
        <4>3. QED
          BY <1>2, <3>1, <4>1, <4>2, ReconciledRows, ReconciledOK, ZenonT(30)
      <3>3. \A last \in {18, 22} : ~Settled(last)
        BY <3>1 DEF Settled, Renamed
      <3>4. QED
        BY <3>2, <3>3
    <2>3. QED
      BY <2>1, <2>2
  <1>5. MigratorInv(m)'
    BY <1>1, <1>2, <1>3, <1>4 DEF MigratorInv, Working, Applying
  <1>6. QED
    BY <1>1, <1>2, <1>3, <1>4, <1>5, MigratorAlone

(* The row of the version that comes next.                                 *)
LEMMA NextRow ==
  ASSUME MigrationInv, NEW m \in Migrators, migrator[m].step \in Applying,
         NEW n \in Version, migrator[m].next = n, n <= Release[m], n \notin Applied,
         schema' \in {schema, schema \cup {n}}, n \in schema', n = Checkpoint => Tables \in schema',
         ledger' = Insert(n, Row(n, Release[m], schema'))
  PROVE  /\ LedgerOK' /\ Applied' = Applied \cup {n} /\ KnownTo(m)'
         /\ \A last \in {18, 22} : Release[m] <= last => ~Settled(last)
  <1>1. /\ LedgerOK /\ Release[m] \in {18, 22} /\ KnownTo(m)
        /\ \A v \in 0..n - 1 : v \in Applied
    BY AtWork DEF Working, Applying, MigratorInv
  <1>2. /\ Renamed = {} /\ schema \subseteq Complete(Release[m])
        /\ \A v \in Applied : ledger[v].name = v /\ v \in schema
    BY <1>1, KnownLedger
  <1>3. /\ schema' \subseteq Complete(Release[m]) /\ schema' \subseteq Complete(22)
        /\ schema' \in SUBSET (-2..22) /\ Release[m] \in Version
        /\ \A w \in schema' : w > Older => w \in schema \/ n > Older
    <2>1. n \in Complete(Release[m])
      BY <1>1, ContractTypes DEF Version
    <2>2. schema' \subseteq Complete(Release[m])
      BY <1>2, <2>1
    <2>3. Complete(Release[m]) \subseteq Complete(22) /\ Complete(Release[m]) \subseteq -2..22
      BY <1>1, ContractTypes
    <2>4. QED
      BY <1>1, <2>2, <2>3 DEF Version, Older
  <1>4. ASSUME Release[m] = n PROVE schema' = Complete(n)
    <2>1. Tables \in schema
      BY <1>1, <1>4 DEF LedgerOK, Checkpoint
    <2>2. \A v \in 0..n - 1 : v \in schema'
      BY <1>1, <1>2
    <2>3. Complete(n) \subseteq schema'
      BY <1>1, <1>4, <2>1, <2>2 DEF Complete, Tables
    <2>4. QED
      BY <1>3, <1>4, <2>3
  <1>5. /\ LedgerOK' /\ Applied' = Applied \cup {n}
        /\ ledger'[n].name = n /\ \A w \in Applied : ledger'[w] = ledger[w]
    BY <1>1, <1>2, <1>3, <1>4, InsertOK
  <1>6. KnownTo(m)'
    BY <1>1, <1>5 DEF KnownTo
  <1>7. \A last \in {18, 22} : Release[m] <= last => ~Settled(last)
    BY <1>1 DEF Settled, Version
  <1>8. QED
    BY <1>5, <1>6, <1>7

LEMMA ExecuteInv ==
  ASSUME MigrationInv, NEW m \in Migrators, Execute(m) \/ WriteRow(m)
  PROVE  MigrationInv'
  <1>1. /\ migrator[m].step \in {"execute", "row"} /\ UNCHANGED <<lock, server, failures>> /\ Advance(m)
        /\ migrator[m].step = "execute" => migrator[m].next <= Release[m]
    BY DEF Execute, WriteRow, Pending, MigratorAt
  <1>2. /\ LedgerOK /\ MigratorInv(m) /\ Release[m] \in {18, 22} /\ lock = {m}
        /\ migrator[m].next \in 1..23 /\ 0 \in Applied /\ failures \in 0..MaxFailures
        /\ \A v \in 0..migrator[m].next - 1 : v \in Applied
    BY <1>1, AtWork DEF Working, Applying, MigratorInv
  <1>3. migrator[m].step = "row" =>
          /\ migrator[m].next = Checkpoint /\ Checkpoint \notin Applied /\ Checkpoint \in schema
          /\ Tables \in schema
    BY <1>2 DEF MigratorInv
  <1>4. PICK n \in Version : n = migrator[m].next /\ n <= Release[m] /\ n >= 1
    BY <1>1, <1>2, <1>3 DEF Version, Checkpoint
  <1>5. /\ n \notin Applied /\ schema' \in {schema, schema \cup {n}} /\ n \in schema'
        /\ n = Checkpoint => Tables \in schema'
        /\ ledger' = Insert(n, Row(n, Release[m], schema'))
    <2>1. CASE Execute(m)
      BY <1>4, <2>1 DEF Execute, ApplyMigration
    <2>2. CASE WriteRow(m)
      <3>1. migrator[m].step = "row" /\ schema' = schema /\ CheckpointRow(m)
        BY <2>2 DEF WriteRow, MigratorAt
      <3>2. QED
        BY <1>3, <1>4, <3>1 DEF CheckpointRow
    <2>3. QED
      BY <2>1, <2>2
  <1>6. /\ migrator' \in [Migrators -> MigratorStates]
        /\ \A p \in Migrators : p # m => UNCHANGED migrator[p]
        /\ migrator'[m].step = "execute" /\ migrator'[m].next = n + 1
    BY <1>1, <1>2, <1>4, MigratorAdvances DEF Version
  <1>7. /\ LedgerOK' /\ Applied' = Applied \cup {n} /\ KnownTo(m)'
        /\ \A last \in {18, 22} : Release[m] <= last => ~Settled(last)
    BY <1>1, <1>4, <1>5, NextRow DEF Applying
  <1>8. MigratorInv(m)'
    <2>1. \A v \in 0..migrator'[m].next - 1 : v \in Applied'
      BY <1>2, <1>4, <1>6, <1>7 DEF Version
    <2>2. migrator'[m].next <= Release[m] + 1
      BY <1>2, <1>4, <1>6 DEF Version
    <2>3. QED
      BY <1>1, <1>2, <1>6, <1>7, <2>1, <2>2 DEF MigratorInv, Working, Applying
  <1>9. QED
    BY <1>1, <1>2, <1>6, <1>7, <1>8, MigratorAlone

(* The script and the tables of the checkpoint version, without its row.   *)
LEMMA CheckpointInv ==
  ASSUME MigrationInv, NEW m \in Migrators, CheckpointScript(m) \/ SetUp(m)
  PROVE  MigrationInv'
  <1>1. /\ migrator[m].step \in {"execute", "setup"} /\ UNCHANGED <<ledger, lock, server, failures>>
        /\ \/ /\ Goto(m, "setup") /\ schema' = schema \cup {Checkpoint}
              /\ migrator[m].next = Checkpoint /\ Checkpoint \notin Applied
           \/ Goto(m, "row") /\ schema' = schema \cup {Tables} /\ migrator[m].step = "setup"
    BY DEF CheckpointScript, SetUp, Pending, MigratorAt
  <1>2. /\ LedgerOK /\ MigratorInv(m) /\ Release[m] \in {18, 22} /\ lock = {m}
        /\ failures \in 0..MaxFailures /\ KnownTo(m) /\ 0 \in Applied
    BY <1>1, AtWork DEF Working, Applying, MigratorInv
  <1>3. migrator[m].next = Checkpoint /\ Checkpoint \notin Applied
    BY <1>1, <1>2 DEF MigratorInv
  <1>4. /\ migrator' \in [Migrators -> MigratorStates]
        /\ \A p \in Migrators : p # m => UNCHANGED migrator[p]
        /\ migrator'[m].next = migrator[m].next
        /\ \/ migrator'[m].step = "setup" /\ Checkpoint \in schema'
           \/ migrator'[m].step = "row" /\ Tables \in schema' /\ Checkpoint \in schema'
    BY <1>1, <1>2, MigratorGoes DEF Working, MigratorInv
  <1>5. LedgerOK' /\ Applied' = Applied
    <2>1. Checkpoint \in Complete(22) /\ Tables \in Complete(22) /\ Checkpoint <= Older /\ Tables <= Older
          /\ Older \in Int
      BY DEF Checkpoint, Tables, Older, Complete
    <2>2. schema' \in {schema \cup {Checkpoint}, schema \cup {Tables}}
      BY <1>1
    <2>3. schema' \subseteq Complete(22) /\ \A w \in schema' : w > Older => w \in schema
      BY <1>2, <2>1, <2>2 DEF LedgerOK, Checkpoint, Tables, Older
    <2>4. QED
      BY <1>1, <1>2, <2>2, <2>3, SchemaOK
  <1>6. \A last \in {18, 22} : ~Settled(last)
    BY <1>3 DEF Settled, Checkpoint
  <1>7. KnownTo(m)'
    BY <1>1, <1>2, <1>5 DEF KnownTo
  <1>8. MigratorInv(m)'
    BY <1>1, <1>2, <1>3, <1>4, <1>5, <1>7 DEF MigratorInv, Working, Applying
  <1>9. QED
    BY <1>1, <1>2, <1>4, <1>5, <1>6, <1>8, MigratorAlone

(* The first version without a row of those an old schema may have.        *)
LEMMA LeastMissing ==
  ASSUME LedgerOK, 0 \in Applied, NEW v \in Baselined \ Applied,
         \A u \in Baselined \ Applied : v <= u
  PROVE  \A w \in 0..v - 1 : w \in Applied
  <1>1. PICK k \in -1..22 : Applied = 0..k
    BY LedgerType
  <1>2. v \in 1..5 /\ k \in 0..4 /\ v > k
    BY <1>1 DEF Baselined
  <1>3. k + 1 \in Baselined \ Applied
    BY <1>1, <1>2 DEF Baselined
  <1>4. v <= k + 1
    BY <1>3
  <1>5. QED
    BY <1>1, <1>2, <1>4
LEMMA FirstMissing ==
  ASSUME LedgerOK, 0 \in Applied, ~(Baselined \subseteq Applied),
         NEW v, v = CHOOSE w \in Baselined \ Applied : \A u \in Baselined \ Applied : w <= u
  PROVE  v \in Baselined /\ v \notin Applied /\ \A w \in 0..v - 1 : w \in Applied
  <1>1. PICK k \in -1..22 : Applied = 0..k
    BY LedgerType
  <1>2. k \in 0..4
    BY <1>1 DEF Baselined
  <1>3. k + 1 \in Baselined \ Applied /\ \A u \in Baselined \ Applied : k + 1 <= u
    BY <1>1, <1>2 DEF Baselined
  <1>4. v \in Baselined \ Applied /\ \A u \in Baselined \ Applied : v <= u
    BY <1>3
  <1>5. QED
    BY <1>4, LeastMissing

LEMMA BaselineMigrationInv ==
  ASSUME MigrationInv, NEW m \in Migrators, Baseline(m)
  PROVE  MigrationInv'
  <1>1. migrator[m].step = "baseline" /\ UNCHANGED <<server, failures>>
    BY DEF Baseline, MigratorAt
  <1>2. /\ LedgerOK /\ MigratorInv(m) /\ Release[m] \in {18, 22} /\ lock = {m}
        /\ failures \in 0..MaxFailures /\ KnownTo(m) /\ 0 \in Applied /\ migrator[m].next = 1
        /\ migrator \in [Migrators -> MigratorStates]
    BY <1>1, AtWork DEF Working, Applying, MigratorInv
  <1>3. CASE Baselined \subseteq Applied
    <2>1. Goto(m, "execute") /\ UNCHANGED <<ledger, schema, lock>>
      BY <1>3 DEF Baseline
    <2>2. /\ migrator' \in [Migrators -> MigratorStates]
          /\ \A n \in Migrators : n # m => UNCHANGED migrator[n]
          /\ migrator'[m].step = "execute" /\ migrator'[m].next = migrator[m].next
      BY <2>1, MigratorGoes DEF Working
    <2>3. LedgerOK' /\ Applied' = Applied /\ \A last : Settled(last) => Settled(last)'
      BY <1>2, <2>1, SchemaOK, SettledStays DEF LedgerOK
    <2>4. KnownTo(m)'
      BY <1>2, <2>1, <2>3 DEF KnownTo
    <2>5. MigratorInv(m)'
      BY <1>2, <2>1, <2>2, <2>3, <2>4 DEF MigratorInv, Working, Applying
    <2>6. QED
      BY <1>1, <1>2, <2>1, <2>2, <2>3, <2>5, MigratorAlone
  <1>4. CASE ~(Baselined \subseteq Applied)
    <2>1. PICK v : v = CHOOSE w \in Baselined \ Applied : \A u \in Baselined \ Applied : w <= u
      OBVIOUS
    <2>2. v \in Baselined /\ v \notin Applied /\ \A w \in 0..v - 1 : w \in Applied
      BY <1>2, <1>4, <2>1, FirstMissing
    <2>3. /\ v \in Version /\ v <= Older /\ v # Release[m] /\ Release[m] \in Version
          /\ v <= Release[m] /\ v \in Complete(22)
      BY <1>2, <2>2 DEF Version, Older, Baselined, Complete
    <2>4. \A last \in {18, 22} : ~Settled(last)
      BY <2>2 DEF Settled, Baselined
    <2>5. \/ /\ v \in schema /\ v = Checkpoint /\ schema' = schema \cup {Tables}
             /\ UNCHANGED <<ledger, lock, migrator>>
          \/ /\ v \in schema /\ (v = Checkpoint => Tables \in schema) /\ UNCHANGED schema
             /\ ledger' = Insert(v, Row(v, Release[m], Unsigned)) /\ UNCHANGED <<lock, migrator>>
          \/ MigratorEnds(m) /\ UNCHANGED <<ledger, schema>>
      BY <1>4, <2>1 DEF Baseline
    <2>6. CASE v = Checkpoint /\ schema' = schema \cup {Tables} /\ UNCHANGED <<ledger, lock, migrator>>
      <3>1. schema' \subseteq Complete(22) /\ \A w \in schema' : w > Older => w \in schema
        BY <1>2, <2>6 DEF LedgerOK, Complete, Tables, Older
      <3>2. LedgerOK' /\ Applied' = Applied
        BY <1>2, <2>6, <3>1, SchemaOK
      <3>3. KnownTo(m)'
        BY <1>2, <2>6, <3>2 DEF KnownTo
      <3>4. MigratorInv(m)'
        BY <1>1, <1>2, <2>6, <3>2, <3>3 DEF MigratorInv, Working, Applying
      <3>5. QED
        BY <1>1, <1>2, <2>4, <2>6, <3>2, <3>4, MigratorAlone
    <2>7. CASE /\ v \in schema /\ (v = Checkpoint => Tables \in schema) /\ UNCHANGED schema
               /\ ledger' = Insert(v, Row(v, Release[m], Unsigned)) /\ UNCHANGED <<lock, migrator>>
      <3>1. schema' \subseteq Complete(22) /\ Unsigned \in SUBSET (-2..22)
        BY <1>2, <2>7, ContractTypes DEF LedgerOK
      <3>2. /\ LedgerOK' /\ Applied' = Applied \cup {v}
            /\ ledger'[v].name = v /\ \A w \in Applied : ledger'[w] = ledger[w]
        BY <1>2, <2>2, <2>3, <2>7, <3>1, InsertOK
      <3>3. KnownTo(m)'
        BY <1>2, <2>3, <3>2 DEF KnownTo
      <3>4. MigratorInv(m)'
        BY <1>1, <1>2, <2>7, <3>2, <3>3 DEF MigratorInv, Working, Applying
      <3>5. QED
        BY <1>1, <1>2, <2>4, <2>7, <3>2, <3>4, MigratorAlone
    <2>8. CASE MigratorEnds(m) /\ UNCHANGED <<ledger, schema>>
      <3>1. /\ migrator' \in [Migrators -> MigratorStates] /\ lock' = {} /\ MigratorInv(m)'
            /\ \A n \in Migrators : n # m => UNCHANGED migrator[n]
        BY <1>2, <2>8, MigratorLeaves
      <3>2. LedgerOK' /\ Applied' = Applied
        BY <1>2, <2>8, SchemaOK DEF LedgerOK
      <3>3. QED
        BY <1>1, <1>2, <2>4, <3>1, <3>2, MigratorAlone
    <2>9. QED
      BY <2>5, <2>6, <2>7, <2>8
  <1>5. QED
    BY <1>3, <1>4

(* The migrator that ends has left the whole schema of its release.        *)
LEMMA FinishInv ==
  ASSUME MigrationInv, NEW m \in Migrators, FinishMigration(m)
  PROVE  MigrationInv'
  <1> DEFINE last == Release[m]
  <1>0. migrator[m].step = "execute" /\ ~(migrator[m].next <= last)
    BY DEF FinishMigration, MigratorAt, Pending
  <1>2. /\ LedgerOK /\ MigratorInv(m) /\ last \in {18, 22} /\ lock = {m}
        /\ failures \in 0..MaxFailures /\ KnownTo(m) /\ migrator[m].next \in 1..23
        /\ migrator \in [Migrators -> MigratorStates]
        /\ \A v \in 0..migrator[m].next - 1 : v \in Applied
    BY <1>0, AtWork DEF Working, Applying, MigratorInv
  <1>3. /\ Renamed = {} /\ Applied \subseteq 0..last /\ schema \subseteq Complete(last)
        /\ \A v \in Applied : ledger[v].name = v /\ v \in schema
    BY <1>2, KnownLedger
  <1> HIDE DEF last
  <1>4. Applied = 0..last
    <2>1. \A v \in 0..last : v \in 0..migrator[m].next - 1
      BY <1>0, <1>2
    <2>2. QED
      BY <1>2, <1>3, <2>1
  <1>5. schema = Complete(last) /\ schema \in SUBSET (-2..22) /\ last \in Version
    <2>1. Tables \in schema
      BY <1>2, <1>4 DEF LedgerOK, Checkpoint
    <2>2. Complete(last) \subseteq schema
      BY <1>3, <1>4, <2>1 DEF Complete
    <2>3. schema = Complete(last)
      BY <1>3, <2>2
    <2>4. Complete(last) \in SUBSET (-2..22) /\ last \in Version
      BY <1>2, ContractTypes DEF Version
    <2>5. QED
      BY <2>3, <2>4
  <1>1. /\ UNCHANGED <<schema, server, failures>> /\ lock' = lock \ {m}
        /\ ledger' = [ledger EXCEPT ![last] = Row(last, last, schema)]
        /\ migrator' = [migrator EXCEPT ![m] = [Outside EXCEPT !.step = "done"]]
    <2>1. Catalogued(m)
      BY <1>2, <1>5 DEF Catalogued, Complete, Tables, last
    <2>2. QED
      BY <1>2, <2>1 DEF FinishMigration, RefreshedContract, last
  <1>6. ledger \in [0..last -> LedgerRows]
    BY <1>2, <1>4 DEF LedgerOK, Applied
  <1> DEFINE row == Row(last, last, schema)
  <1>7. row \in LedgerRows
    BY <1>5, RowType
  <1>8. row.name = last /\ row.signature = schema
    BY DEF Row
  <1> HIDE DEF row
  <1>9. /\ ledger' \in [0..last -> LedgerRows] /\ Applied' = 0..last /\ ledger'[last] = row
        /\ \A v \in 0..last : v # last => ledger'[v] = ledger[v]
    BY <1>1, <1>2, <1>6, <1>7 DEF Applied, row
  <1>10. \A v \in 0..last : ledger'[v].name = v
    BY <1>3, <1>4, <1>8, <1>9
  <1>11. \A v \in Applied' : RowOK(v)'
    <2>1. ASSUME NEW v \in 0..last, v # last PROVE RowOK(v)'
      <3>1. RowOK(v) /\ ledger'[v] = ledger[v] /\ UNCHANGED schema
        BY <1>1, <1>2, <1>4, <1>9, <2>1 DEF LedgerOK
      <3>2. QED
        BY <3>1 DEF RowOK
    <2>2. RowOK(last)'
      <3>1. ledger'[last].name = last /\ ledger'[last].signature = Complete(last) /\ last \in schema'
        BY <1>1, <1>2, <1>3, <1>4, <1>5, <1>8, <1>9
      <3>2. QED
        BY <3>1 DEF RowOK
    <2>3. QED
      BY <1>9, <2>1, <2>2
  <1>12. Renamed' = {}
    BY <1>9, <1>10 DEF Renamed, Lineage
  <1>13. LedgerOK'
    <2>1. last \in -1..22 /\ Applied' = Applied
      BY <1>2, <1>4, <1>9
    <2>2. \E k \in -1..22 : ledger' \in [0..k -> LedgerRows]
      BY <1>9, <2>1
    <2>3. QED
      BY <1>1, <1>2, <1>11, <1>12, <2>1, <2>2 DEF LedgerOK
  <1>14. Settled(last)'
    BY <1>1, <1>5, <1>9, <1>10 DEF Settled, row
  <1>15. ASSUME NEW l \in {18, 22}, Release[m] <= l, Settled(l) PROVE Settled(l)'
    <2>1. l = last
      BY <1>2, <1>4, <1>15 DEF Settled, last
    <2>2. QED
      BY <1>14, <2>1
  <1>16. /\ migrator' \in [Migrators -> MigratorStates] /\ migrator'[m].step = "done" /\ lock' = {}
         /\ \A n \in Migrators : n # m => UNCHANGED migrator[n]
    BY <1>1, <1>2, ProcessTypes
  <1>17. MigratorInv(m)'
    BY <1>14, <1>16 DEF MigratorInv, Working, Applying, last
  <1>18. Applied \subseteq Applied'
    BY <1>4, <1>9
  <1>19. QED
    BY <1>1, <1>2, <1>13, <1>15, <1>16, <1>17, <1>18, MigratorAlone DEF last

(* A server compares the catalog with the signatures of a whole schema or  *)
(* with none.                                                              *)
LEMMA ServerInvStep ==
  ASSUME MigrationInv, NEW s \in Servers, CheckNames(s) \/ CheckLedger(s) \/ CheckSchema(s)
  PROVE  MigrationInv'
  <1>1. /\ LedgerOK /\ ServerInv(s) /\ Release[s] \in {18, 22}
        /\ server \in [Servers -> ServerStates] /\ server[s] \in ServerStates
    BY Releases DEF MigrationInv
  <1>2. UNCHANGED <<ledger, schema, lock, migrator, failures>>
    BY DEF CheckNames, CheckLedger, CheckSchema
  <1>3. LedgerOK' /\ Applied' = Applied /\ \A last : Settled(last) => Settled(last)'
    BY <1>1, <1>2, SchemaOK, SettledStays DEF LedgerOK
  <1>4. \A m \in Migrators : MigratorInv(m)'
    BY <1>2, <1>3 DEF MigrationInv, MigratorInv, KnownTo
  <1>5. /\ server' \in [Servers -> ServerStates] /\ ServerInv(s)'
        /\ \A t \in Servers : t # s => UNCHANGED server[t]
    <2>1. CASE CheckNames(s)
      <3>1. server' = [server EXCEPT ![s] = [server[s] EXCEPT !.step = "names"]] /\ Applied # {}
        BY <2>1 DEF CheckNames
      <3>2. /\ [server[s] EXCEPT !.step = "names"] \in ServerStates
            /\ [server[s] EXCEPT !.step = "names"].step = "names"
        BY <1>1 DEF ServerStates
      <3>3. QED
        BY <1>1, <1>3, <3>1, <3>2 DEF ServerInv
    <2>2. CASE CheckLedger(s)
      <3>1. /\ server[s].step = "names" /\ Newest = Release[s] /\ ledger[Newest].manifest = Release[s]
            /\ server' = [server EXCEPT ![s] = [step |-> "compare", saw |-> ledger[Newest].signature]]
        BY <2>2 DEF CheckLedger
      <3>2. Newest \in Applied
        <4>1. PICK k \in -1..22 : Applied = 0..k
          BY <1>1, LedgerType
        <4>2. k \in Applied /\ \A w \in Applied : w <= k
          BY <1>1, <3>1, <4>1 DEF ServerInv
        <4>3. QED
          BY <4>2 DEF Newest
      <3>3. PICK saw \in SUBSET (-2..22) : saw = ledger[Newest].signature
        BY <1>1, <3>2, LedgerType
      <3>4. saw \in {Unsigned, Complete(Release[s])}
        BY <1>1, <3>1, <3>2, <3>3 DEF LedgerOK, RowOK
      <3> DEFINE state == [step |-> "compare", saw |-> saw]
      <3>5. state \in ServerStates /\ state.step = "compare" /\ state.saw = saw
        BY DEF ServerStates
      <3>6. server' = [server EXCEPT ![s] = state]
        BY <3>1, <3>3
      <3> HIDE DEF state
      <3>7. QED
        BY <1>1, <3>4, <3>5, <3>6 DEF ServerInv
    <2>3. CASE CheckSchema(s) /\ SameContract(s)
      <3>1. server[s].step = "compare" /\ server[s].saw = schema
        BY <2>3 DEF CheckSchema, SameContract
      <3>2. schema = Complete(Release[s]) /\ schema \in SUBSET (-2..22)
        <4>1. schema # Unsigned
          BY <1>1 DEF LedgerOK, Complete, Unsigned, Tables
        <4>2. schema = Complete(Release[s])
          BY <1>1, <3>1, <4>1 DEF ServerInv
        <4>3. QED
          BY <1>1, <4>2, ContractTypes
      <3> DEFINE state == [step |-> "passed", saw |-> schema]
      <3>3. state \in ServerStates /\ state.step = "passed" /\ state.saw = schema
        BY <3>2 DEF ServerStates
      <3>4. server' = [server EXCEPT ![s] = state]
        BY <2>3 DEF CheckSchema
      <3> HIDE DEF state
      <3>5. QED
        BY <1>1, <1>2, <3>2, <3>3, <3>4 DEF ServerInv
    <2>4. CASE CheckSchema(s) /\ ~SameContract(s)
      <3>1. server' = [server EXCEPT ![s] = NotStarted]
        BY <2>4 DEF CheckSchema
      <3>2. QED
        BY <1>1, <3>1, ProcessTypes DEF ServerInv
    <2>5. QED
      BY <2>1, <2>2, <2>3, <2>4
  <1>6. \A t \in Servers : ServerInv(t)'
    BY <1>3, <1>5 DEF MigrationInv, ServerInv
  <1>7. QED
    BY <1>2, <1>3, <1>4, <1>5, <1>6 DEF MigrationInv

LEMMA MigrationStep == MigrationInv /\ [MigrationNext]_migrationVars => MigrationInv'
  <1>1. SUFFICES ASSUME MigrationInv, [MigrationNext]_migrationVars PROVE MigrationInv'
    OBVIOUS
  <1>2. CASE UNCHANGED migrationVars
    <2>1. UNCHANGED <<ledger, schema, lock, migrator, server, failures>>
      BY <1>2 DEF migrationVars
    <2>2. LedgerOK' /\ Applied' = Applied /\ \A last : Settled(last) => Settled(last)'
      BY <1>1, <2>1, SchemaOK, SettledStays DEF LedgerOK, MigrationInv
    <2>3. \A m \in Migrators : MigratorInv(m)'
      BY <1>1, <2>1, <2>2 DEF MigrationInv, MigratorInv, KnownTo
    <2>4. \A s \in Servers : ServerInv(s)'
      BY <1>1, <2>1, <2>2 DEF MigrationInv, ServerInv
    <2>5. QED
      BY <1>1, <2>1, <2>2, <2>3, <2>4 DEF MigrationInv
  <1>3. ASSUME NEW m \in Migrators,
               BeginMigration(m) \/ Checksums(m) \/ Skip(m) \/ FailMigrator(m)
        PROVE  MigrationInv'
    BY <1>1, <1>3, WaitInv
  <1>4. ASSUME NEW m \in Migrators,
               \/ FirstMigration(m) \/ Reconcile(m) \/ Baseline(m) \/ Execute(m) \/ WriteRow(m)
               \/ CheckpointScript(m) \/ SetUp(m) \/ FinishMigration(m)
        PROVE  MigrationInv'
    BY <1>1, <1>4, FirstInv, ReconcileInv, BaselineMigrationInv, ExecuteInv, CheckpointInv, FinishInv
  <1>5. ASSUME NEW s \in Servers, CheckNames(s) \/ CheckLedger(s) \/ CheckSchema(s)
        PROVE  MigrationInv'
    BY <1>1, <1>5, ServerInvStep
  <1>6. QED
    BY <1>1, <1>2, <1>3, <1>4, <1>5 DEF MigrationNext

(* The inductive invariant holds in every state.                           *)
THEOREM MigrationInvariance == MigrationSpec => []MigrationInv
  BY MigrationInitInv, MigrationStep, PTL DEF MigrationSpec

(* At most one migrator holds the advisory lock, and whoever works holds   *)
(* it; the ledger and the schema know only the versions there are          *)
(* (migrate_database).                                                     *)
THEOREM MigrationTypes == MigrationSpec => []MigrationTypeOK
  <1>1. ASSUME MigrationInv PROVE MigrationTypeOK
    <2>1. Applied \subseteq 0..22 /\ schema \subseteq Complete(22)
      BY <1>1, LedgerType DEF MigrationInv, LedgerOK, Version
    <2>2. Cardinality(lock) <= 1
      <3>1. CASE lock = {}
        BY <3>1, FS_EmptySet
      <3>2. ASSUME NEW m \in lock PROVE Cardinality(lock) = 1
        <4>1. lock = {m}
          BY <1>1, <3>2 DEF MigrationInv
        <4>2. QED
          BY <4>1, FS_Singleton
      <3>3. QED
        BY <3>1, <3>2
    <2>3. \A m \in Migrators : (m \notin lock) <=> (migrator[m].step \in {"idle", "done"})
      <3>1. TAKE m \in Migrators
      <3>2. migrator[m] \in MigratorStates /\ (migrator[m].step \in Working <=> m \in lock)
        BY <1>1 DEF MigrationInv, MigratorInv
      <3>3. QED
        BY <3>2 DEF MigratorStates, Working
    <2>4. QED
      BY <1>1, <2>1, <2>2, <2>3 DEF MigrationInv, MigrationTypeOK
  <1>2. QED
    BY <1>1, MigrationInvariance, PTL

(* Wherever migrators of the two releases are stopped, a row of the ledger *)
(* says what is in the database; one that finishes leaves its release's    *)
(* schema and contract; and a server serves only on the whole schema of    *)
(* its own release (migrate_database, verify_database_contract).           *)
THEOREM LedgerSafety == MigrationSpec => []LedgerIsTrue
  <1>1. ASSUME MigrationInv PROVE RowsAreTrue
    BY <1>1 DEF MigrationInv, LedgerOK, RowOK, RowsAreTrue
  <1>2. ASSUME MigrationInv PROVE MigratedIsServable
    <2>1. SUFFICES ASSUME NEW m \in Migrators, migrator[m].step = "done",
                          \A n \in Migrators : Release[n] <= Release[m]
                   PROVE  /\ Newest = Release[m] /\ KnownTo(m)
                          /\ ledger[Newest] = Row(Release[m], Release[m], schema)
      BY DEF MigratedIsServable
    <2>2. Settled(Release[m]) /\ Release[m] \in {18, 22}
      BY <1>2, <2>1, Releases DEF MigrationInv, MigratorInv
    <2>3. Newest = Release[m]
      <3>1. Release[m] \in Applied /\ \A w \in Applied : w <= Release[m]
        BY <2>2 DEF Settled
      <3>2. \A v \in Applied : (\A w \in Applied : w <= v) => v = Release[m]
        BY <2>2, <3>1 DEF Settled
      <3>3. QED
        BY <3>1, <3>2 DEF Newest
    <2>4. QED
      BY <2>2, <2>3 DEF Settled, KnownTo
  <1>3. ASSUME MigrationInv PROVE ServesItsOwnSchema
    BY <1>3 DEF MigrationInv, ServerInv, ServesItsOwnSchema
  <1>4. MigrationInv => LedgerIsTrue
    BY <1>1, <1>2, <1>3 DEF LedgerIsTrue
  <1>5. QED
    BY <1>4, MigrationInvariance, PTL
=============================================================================
