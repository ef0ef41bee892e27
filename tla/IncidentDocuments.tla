--------------------------- MODULE IncidentDocuments --------------------------
(***************************************************************************)
(* The versions of one document of an incident (PostgresIncidentDocument-  *)
(* Repository).  Each operation is one READ COMMITTED transaction behind   *)
(* the advisory lock of its idempotency key: it reads the latest version,  *)
(* an edit or an approval also reads whether that version is approved, and *)
(* then it writes and commits.  Transactions under other keys commit in    *)
(* between; only the UNIQUE (episode_id, document_type, version) of the    *)
(* table keeps two of them from writing the same version.                  *)
(***************************************************************************)
EXTENDS Integers, Sequences

CONSTANTS
  Writers,              \* requests that may be served at once
  DocumentKeys,         \* idempotency keys
  DocumentRequests,     \* [op, expected, content]; content: has_content_edit of an edit
  MaxDocumentVersions,  \* bound: versions of the document
  MaxNotes              \* bound: reviews of its versions

Ops == {"generate", "edit", "approve"}
ASSUME DocumentsAssumption ==
  /\ DocumentRequests \subseteq [op : Ops, expected : Nat, content : BOOLEAN]
  /\ MaxDocumentVersions \in Nat /\ MaxNotes \in Nat

VARIABLES
  written,  \* incident_document_versions, by version
  noted,    \* incident_document_reviews, by creation
  keys,     \* keys[op, k]: operation_idempotency_keys
  writer    \* writer[c]: where the request is

documentVars == <<written, noted, keys, writer>>

Scopes == Ops \X DocumentKeys
UnusedKey == [status |-> "none"]
Served == [step |-> "idle"]

DocumentInit ==
  /\ written = <<>>
  /\ noted = <<>>
  /\ keys = [s \in Scopes |-> UnusedKey]
  /\ writer = [c \in Writers |-> Served]
-----------------------------------------------------------------------------
WriterAt(c, step) == writer[c].step = step
OpOf(c) == writer[c].req.op
ScopeOf(c) == <<OpOf(c), writer[c].key>>
BaseOf(c) == writer[c].latest
Approved(v) == \E i \in DOMAIN noted : noted[i].of = v /\ noted[i].type = "approval"

(* Seeded fault: a completed key does not answer.                          *)
AnsweredIfOther(s, req) == keys[s] # UnusedKey /\ keys[s].req # req
(* begin_idempotent_operation: a completed key answers with its document,  *)
(* a key of another payload is a conflict; a key left running goes on.     *)
AnsweredByKey(s, req) ==
  keys[s] # UnusedKey /\ (keys[s].req # req \/ keys[s].status = "completed")

(* begin_idempotent_operation and latest_version.  A conflict of versions  *)
(* rolls the transaction back and leaves nothing.                          *)
BeginWrite(c, req, k) ==
  /\ WriterAt(c, "idle")
  /\ ~\E d \in Writers : ~WriterAt(d, "idle") /\ ScopeOf(d) = <<req.op, k>>
  /\ ~AnsweredByKey(<<req.op, k>>, req)
  /\ req.op # "generate" => Len(written) > 0 /\ req.expected = Len(written)
  /\ Len(written) < MaxDocumentVersions /\ Len(noted) < MaxNotes
  /\ writer' = [writer EXCEPT ![c] =
       [step |-> IF req.op = "generate" THEN "write" ELSE "check",
        req |-> req, key |-> k, latest |-> Len(written), approved |-> FALSE]]
  /\ UNCHANGED <<written, noted, keys>>

(* has_approval of the version read: an edit is refused.                   *)
CheckApproval(c) ==
  /\ WriterAt(c, "check")
  /\ writer' = IF OpOf(c) = "edit" /\ Approved(BaseOf(c))
               THEN [writer EXCEPT ![c] = Served]
               ELSE [writer EXCEPT ![c] = [step |-> "write", req |-> @.req, key |-> @.key,
                                           latest |-> @.latest, approved |-> Approved(@.latest)]]
  /\ UNCHANGED <<written, noted, keys>>
-----------------------------------------------------------------------------
SlotTaken(c) == Len(written) > BaseOf(c)

Noted(v, type, decision, by) ==
  Append(noted, [of |-> v, type |-> type, decision |-> decision, by |-> by])

CommitWrite(c, status) ==
  /\ keys' = [keys EXCEPT ![ScopeOf(c)] = [status |-> status, req |-> writer[c].req]]
  /\ writer' = [writer EXCEPT ![c] = Served]

(* insert_version with its pending or failed AI review; the unique index   *)
(* fails the transaction if another has taken the version.                 *)
InsertVersion(c, status) ==
  IF SlotTaken(c)
  THEN /\ writer' = [writer EXCEPT ![c] = Served]
       /\ UNCHANGED <<written, noted, keys>>
  ELSE /\ written' = Append(written, [status |-> status, base |-> BaseOf(c), by |-> ScopeOf(c)])
       /\ noted' = Noted(BaseOf(c) + 1, "ai_review",
                              IF status = "failed" THEN "failed" ELSE "pending", <<>>)
       /\ CommitWrite(c, "completed")

(* generate_document answers with the latest version unless that failed    *)
(* and the model is there now.                                             *)
KeepsLatest(latest, available) ==
  latest # 0 /\ (written[latest].status # "failed" \/ ~available)

(* available: the process that serves the request has an OPENAI_API_KEY.   *)
(* An answer with the latest version leaves the key running.               *)
Generate(c, available) ==
  /\ WriterAt(c, "write") /\ OpOf(c) = "generate"
  /\ IF KeepsLatest(BaseOf(c), available)
     THEN CommitWrite(c, "running") /\ UNCHANGED <<written, noted>>
     ELSE InsertVersion(c, IF available THEN "draft" ELSE "failed")

EditContent(c) ==
  /\ WriterAt(c, "write") /\ OpOf(c) = "edit" /\ writer[c].req.content
  /\ InsertVersion(c, "draft")

AppendNote(c) ==
  /\ WriterAt(c, "write") /\ OpOf(c) = "edit" /\ ~writer[c].req.content
  /\ noted' = Noted(BaseOf(c), "operator_note", "pending", ScopeOf(c))
  /\ CommitWrite(c, "completed")
  /\ UNCHANGED written

Approve(c) ==
  /\ WriterAt(c, "write") /\ OpOf(c) = "approve"
  /\ noted' = IF writer[c].approved THEN noted
                ELSE Noted(BaseOf(c), "approval", "approved", ScopeOf(c))
  /\ CommitWrite(c, "completed")
  /\ UNCHANGED written

DocumentNext ==
  \E c \in Writers :
    \/ \E req \in DocumentRequests, k \in DocumentKeys : BeginWrite(c, req, k)
    \/ CheckApproval(c)
    \/ \E available \in BOOLEAN : Generate(c, available)
    \/ EditContent(c) \/ AppendNote(c) \/ Approve(c)

DocumentSpec == DocumentInit /\ [][DocumentNext]_documentVars
-----------------------------------------------------------------------------
DocumentTypeOK ==
  /\ \A v \in DOMAIN written : written[v].status \in {"draft", "failed"}
                                /\ written[v].base \in 0..MaxDocumentVersions
  /\ \A i \in DOMAIN noted : noted[i].of \in DOMAIN written
  /\ \A s \in DOMAIN keys : keys[s].status \in {"none", "running", "completed"}
  /\ \A c \in Writers : writer[c].step \in {"idle", "check", "write"}

(* A request repeated under its key writes one version, one note or one    *)
(* approval.                                                               *)
OncePerKey ==
  /\ \A v, w \in DOMAIN written : written[v].by = written[w].by => v = w
  /\ \A i, j \in DOMAIN noted : noted[i].by # <<>> /\ noted[i].by = noted[j].by => i = j
  /\ \A v \in DOMAIN written, i \in DOMAIN noted : written[v].by # noted[i].by

(* The document as a log: the version each version was written over.       *)
DocumentLog == [v \in DOMAIN written |-> written[v].base]
=============================================================================
