--------------------------- MODULE WorkOrderRevision ---------------------------
(***************************************************************************)
(* What a message of the review chat becomes (review_chat_service.py): its *)
(* intent, and for a change of the work order the draft of a new version,  *)
(* written by the language model or by fixed rules, spliced into the body  *)
(* and validated.                                                          *)
(*                                                                         *)
(* A message is a set of words, each standing for a term of the service's  *)
(* lists and known by the lists it is in.  A line of a body is the heading *)
(* of a section or an item with the traits the validation looks for; the   *)
(* limit of 8,000 characters is left out, and of empty lines only that one *)
(* may follow a heading or not is kept.                                    *)
(***************************************************************************)
EXTENDS Integers, Sequences, FiniteSets

CONSTANTS
  Sayings,     \* the messages
  WorkOrders,  \* the work orders the chat may be about
  Replies      \* what the language model may answer, sequences of lines

VARIABLES phase, saying, about, reply, workOrder, outcome

wordingVars == <<phase, saying, about, reply, workOrder, outcome>>

(* The lists a term is in: 승인, 거절, 보류, 수정, 삭제, 보강, 짧게, 부족,        *)
(* 다시 평가, 작업지시서 전체, 제목, 안전 확인, 보호구, 작업 절차, 판단 근거,    *)
(* 상황 요약, 검색, 날씨, 고장, 정책, 왜, 뭐라고, 하지 마, 초밥, 추천,          *)
(* "ignore previous", 그 부분, 보고서 본문, and any other text.               *)
Terms ==
  [approve |-> {"approve", "scope"}, reject |-> {"reject", "scope"}, hold |-> {"hold"},
   revise |-> {"correct", "marker"}, delete |-> {"correct", "marker", "delete"},
   reinforce |-> {"correct", "marker", "style", "report"},
   shorten |-> {"marker", "style", "change", "short"}, lacking |-> {"style", "change"},
   again |-> {"correct", "rerun", "follow"},
   whole |-> {"scope", "revised", "whole", "explicit"},
   title |-> {"revised", "report", "title", "explicit"},
   safety |-> {"scope", "revised", "report", "safety", "explicit"},
   gear |-> {"scope", "operational", "strong", "safety", "latest"},
   procedure |-> {"scope", "revised", "report", "procedure", "explicit"},
   evidence |-> {"scope", "revised", "operational", "report", "risk", "explicit"},
   summary |-> {"revised", "report", "summary", "short", "explicit"},
   search |-> {"scope", "operational", "stage", "rag", "explicit"},
   weather |-> {"domain", "stage", "weather", "explicit"},
   fault |-> {"fault"}, policy |-> {"policy"}, why |-> {"question"},
   recall |-> {"question", "recall"}, stop |-> {"negative"},
   sushi |-> {"foreign", "domain"}, advise |-> {"action"}, attack |-> {"attack"},
   that |-> {"scope", "revised", "follow"}, body |-> {"scope", "revised", "report"},
   other |-> {}]

Words == DOMAIN Terms

(* What a message may quote as all it means to change, 'X'만 수정: the      *)
(* names of the parts, 작업 목적, 보호구, 주의사항, or anything else.  The part  *)
(* it is taken for, the fixed rule that is followed, and whether it is     *)
(* known as the safety section when the revision is validated.             *)
Quote(part, rule) == [part |-> part, rule |-> rule, guarded |-> FALSE]
Quotes ==
  [whole |-> Quote("whole", "whole"), title |-> Quote("title", "title"),
   summary |-> Quote("summary", "summary"), purpose |-> Quote("summary", "other"),
   risk |-> Quote("risk", "risk"), procedure |-> Quote("procedure", "procedure"),
   safety |-> [Quote("safety", "safety") EXCEPT !.guarded = TRUE],
   gear |-> Quote("safety", "safety"), caution |-> Quote("safety", "other"),
   other |-> Quote("other", "other")]

(* A line of a body: the section it is the heading of or "none", its text, *)
(* and the traits of the text.                                             *)
Sections == {"summary", "risk", "procedure", "safety"}
Texts == Sections \cup {"rule", "cut", "fallback"}
           \cup UNION {{w[i].id : i \in DOMAIN w} : w \in WorkOrders \cup Replies}
Traits == {"operational", "strong", "unsafe", "foreign", "mention"}
BodyLines == [heading : Sections \cup {"none"}, id : Texts, traits : SUBSET Traits]

(* The operator's own words, those of the frame the console puts them in   *)
(* ("운영자 요청:" divides them), the request before, as a whole and behind  *)
(* the frame of its own, an item number and what is quoted.                *)
Messages == [own : SUBSET Words, frame : SUBSET Words, anchor : SUBSET Words,
             asked : SUBSET Words, item : Nat, quoted : DOMAIN Quotes \cup {"none"}]

ASSUME WordingAssumption ==
  /\ Sayings \subseteq Messages
  /\ WorkOrders \subseteq Seq(BodyLines) \ {<<>>}
  /\ Replies \subseteq Seq(BodyLines)

Has(words, list) == \E w \in words : list \in Terms[w]

(* The first of a set of places in a list.                                 *)
First(places) == CHOOSE i \in places : \A j \in places : i <= j
-----------------------------------------------------------------------------
(* _resolve_review_chat_followup: the previous request is put before it,   *)
(* with "후속 수정 요청:", which is a word of the lists as well.              *)
Text(m) == m.frame \cup m.own

IsFollowUp(m) ==
  /\ m.anchor # {} /\ Has(Text(m), "follow")
  /\ \A list \in {"question", "negative", "explicit"} : ~Has(Text(m), list)

Content(m) == IF IsFollowUp(m) THEN m.anchor \cup Text(m) \cup {"revise"} ELSE Text(m)

(* _operator_revision_instruction: what is behind the last "운영자 요청:" of  *)
(* the content, else behind "후속 수정 요청:", else all of it.                *)
Instruction(m) ==
  IF IsFollowUp(m) /\ m.frame = {} /\ m.asked # {}
  THEN m.asked \cup m.own \cup {"revise"} ELSE m.own

(* _has_supported_revision_semantics: operational, or nothing but words    *)
(* about the change.                                                       *)
Supported(words) ==
  \/ Has(words, "operational")
  \/ \A w \in words : Terms[w] \cap {"revised", "marker", "style"} # {}

(* _revision_request_guardrail_notice                                      *)
RefusedRequest(m) ==
  LET asked == Instruction(m) IN
  \/ Has(asked, "attack") \/ Has(asked, "foreign")
  \/ /\ ~Has(asked, "question") /\ ~Has(asked, "negative")
     /\ Has(Content(m), "marker") /\ ~Supported(asked)

InScope(words) == Has(words, "recall") \/ Has(words, "scope")

OffTopic(words) == ~Has(words, "scope") /\ Has(words, "domain") /\ Has(words, "action")

ExplicitRerun(words) == Has(words, "stage") /\ Has(words, "rerun")

(* _reason_category: the first that matches.                               *)
Categories == <<"rag", "weather", "fault", "report", "policy">>
ReasonCategory(words) ==
  LET found == {i \in DOMAIN Categories : Has(words, Categories[i])}
  IN  IF found = {} THEN "none" ELSE Categories[First(found)]

TargetedStages == {"rag", "weather"}

(* _is_work_order_change_request                                           *)
IsChange(words) ==
  /\ about /\ Has(words, "change")
  /\ ~(ReasonCategory(words) \in TargetedStages /\ ~ExplicitRerun(words))

DecisionsIn(words) ==
  LET said == {d \in {"approve", "reject", "correct", "hold"} : Has(words, d)}
  IN  IF said = {} /\ IsChange(words) THEN {"correct"} ELSE said

(* The category that counts: about a work order, a complaint changes it.   *)
Reason(words, decision) ==
  LET c == ReasonCategory(words) IN
  IF /\ decision = "correct" /\ about
     /\ c = "none" \/ (c \in TargetedStages /\ ~ExplicitRerun(words))
  THEN "report" ELSE c

(* _reason_from_content: what is left without the word of the decision.    *)
HasReason(words) == words \ {"approve", "reject", "revise"} # {}

Kind(m) ==
  LET words == Content(m)
      unclear == LET d == CHOOSE x \in DecisionsIn(words) : TRUE IN
        d = "reject" /\ (Reason(words, d) \in {"report", "none"} \/ ~HasReason(words))
  IN
  IF RefusedRequest(m) \/ OffTopic(words) THEN "out_of_scope"
  ELSE IF words = {"advise"} THEN "clarify"
  ELSE IF Has(words, "negative") THEN "explain"
  ELSE IF Has(words, "question") \/ DecisionsIn(words) = {}
  THEN IF InScope(words) THEN "explain" ELSE "out_of_scope"
  ELSE IF Cardinality(DecisionsIn(words)) > 1 \/ unclear THEN "clarify" ELSE "proposal"

(* Seeded fault: any complaint about a stage runs it again.                *)
RerunsOnComplaint(words, decision) ==
  decision \in {"reject", "correct"} /\ Reason(words, decision) \in TargetedStages

(* next_action                                                             *)
RerunsStage(words, decision) ==
  /\ decision = "reject" \/ (decision = "correct" /\ ExplicitRerun(words))
  /\ Reason(words, decision) \in TargetedStages

(* parse_review_chat_intent                                                *)
Parse ==
  /\ phase = "said" /\ phase' = "parsed"
  /\ outcome' =
       IF Kind(saying) # "proposal" THEN [kind |-> Kind(saying), decision |-> "none",
                                           reason |-> "none", rerun |-> FALSE]
       ELSE LET d == CHOOSE x \in DecisionsIn(Content(saying)) : TRUE IN
            [kind |-> "proposal", decision |-> d, reason |-> Reason(Content(saying), d),
             rerun |-> RerunsStage(Content(saying), d)]
  /\ UNCHANGED <<saying, about, reply, workOrder>>
-----------------------------------------------------------------------------
(* _revision_target_label and _target_heading: what is quoted, else the    *)
(* first part that is named, and the number of an item in it.              *)
Parts == <<"title", "safety", "procedure", "risk", "summary">>
Target(m) ==
  LET found == {i \in DOMAIN Parts : Has(Content(m), Parts[i])}
      label == IF m.quoted # "none" THEN Quotes[m.quoted]
               ELSE IF found = {} THEN Quotes["whole"] ELSE Quotes[Parts[First(found)]]
      numbered == label.part \in Sections /\ (m.quoted = "none" => label.part # "summary")
  IN  [part |-> label.part, rule |-> label.rule, guarded |-> label.guarded,
       item |-> IF numbered THEN m.item ELSE 0]

Heading(s) ==
  [heading |-> s, id |-> s, traits |-> IF s = "risk" THEN {"operational", "strong"} ELSE {}]
Item(id, traits) == [heading |-> "none", id |-> id, traits |-> traits]

(* _section_bounds: the lines between the first heading of s and the next. *)
HeadingOf(lines, s) == {i \in DOMAIN lines : lines[i].heading = s}
SectionStart(lines, s) == First(HeadingOf(lines, s))
SectionEnd(lines, s) ==
  First({Len(lines) + 1} \cup {i \in DOMAIN lines : /\ i > SectionStart(lines, s)
                                                    /\ lines[i].heading # "none"})
SectionLines(lines, s) ==
  IF HeadingOf(lines, s) = {} THEN <<>>
  ELSE SubSeq(lines, SectionStart(lines, s) + 1, SectionEnd(lines, s) - 1)

LineAt(lines, i) == IF i \in DOMAIN lines THEN <<lines[i]>> ELSE <<>>

(* _scope_content                                                          *)
Scope(lines, target) ==
  CASE target.part = "whole" -> lines
    [] target.part = "other" -> <<>>
    [] target.part = "title" -> LineAt(lines, 1)
    [] target.part \in Sections /\ target.item = 0 -> SectionLines(lines, target.part)
    [] target.part \in Sections /\ target.item > 0 ->
         LineAt(SectionLines(lines, target.part), target.item)

AllTraits(lines) == UNION {lines[i].traits : i \in DOMAIN lines}
WithLast(lines, traits) ==
  IF lines = <<>> THEN <<Item("rule", traits)>>
  ELSE [lines EXCEPT ![Len(lines)] = Item("rule", @.traits \cup traits)]

(* _deterministic_scope_replacement; a sentence that is cut may lose any   *)
(* of its traits.                                                          *)
FixedReplies(words, target, current) ==
  IF Has(words, "delete") THEN {<<>>}
  ELSE IF Has(words, "short") /\ current # <<>>
  THEN {Append(SubSeq(current, 1, n - 1), Item("cut", t)) :
          n \in 1..Len(current), t \in SUBSET AllTraits(current)}
  ELSE CASE target.rule = "safety" ->
              IF Has(words, "latest") THEN {<<Item("rule", {"operational", "strong"})>>}
              ELSE {WithLast(current, {"operational", "strong"})}
         [] target.rule \in {"procedure", "summary", "title"} -> {WithLast(current, {"operational"})}
         [] target.rule \in {"risk", "whole"} -> {Append(current, Item("rule", {"operational"}))}
         [] target.rule = "other" -> {WithLast(current, {})}

(* Seeded fault: the answer is spliced in as it is.                        *)
Unbounded(lines, target) == lines

(* _bounded_scope_replacement: of an answer that has or mentions a heading *)
(* only the target is taken.                                               *)
Bounded(lines, target) ==
  IF \A i \in DOMAIN lines : lines[i].heading = "none" /\ "mention" \notin lines[i].traits
  THEN lines ELSE Scope(lines, target)

(* _generate_scope_replacement: without a key, an answer or a usable part  *)
(* of it the fixed rules are followed.                                     *)
Replacements ==
  LET target == Target(saying)
      usable == IF target.part = "whole" THEN reply ELSE Bounded(reply, target)
  IN  IF usable = <<>>
      THEN FixedReplies(Instruction(saying), target, Scope(workOrder, target)) ELSE {usable}

Fallback(words) == Item("fallback", {t \in {"operational", "strong"} : Has(words, t)})

Splice(first, past, lines) ==
  SubSeq(workOrder, 1, first - 1) \o lines \o SubSeq(workOrder, past, Len(workOrder))

(* _apply_scoped_revision.  replacement is <<>> or lines, or "none".       *)
Written(target, isNone, replacement) ==
  LET words == Instruction(saying)
      lines == IF isNone THEN <<Fallback(words)>> ELSE replacement
      orFallback == IF lines = <<>> THEN <<Fallback(words)>> ELSE lines
      s == target.part
      items == SectionLines(workOrder, s)
      at == SectionStart(workOrder, s) + target.item
  IN
  CASE s = "whole" -> IF isNone THEN Append(workOrder, Fallback(words)) ELSE lines
    [] s = "other" -> workOrder \o <<Item("rule", {})>> \o orFallback
    [] s = "title" -> Splice(1, 2, orFallback)
    [] s \in Sections /\ HeadingOf(workOrder, s) = {} -> workOrder \o <<Heading(s)>> \o orFallback
    [] s \in Sections /\ HeadingOf(workOrder, s) # {} /\ target.item = 0 ->
         Splice(SectionStart(workOrder, s) + 1, SectionEnd(workOrder, s), lines)
    [] s \in Sections /\ HeadingOf(workOrder, s) # {} /\ target.item \in 1..Len(items) ->
         Splice(at, at + 1, IF isNone THEN <<Item("fallback", items[target.item].traits
                                                               \cup Fallback(words).traits)>>
                            ELSE IF lines = <<>> THEN <<>> ELSE lines)
    [] OTHER -> Splice(at, at, orFallback)

(* _section_span and _splice_bounded: a section without a line is written  *)
(* right behind its heading.  If that ends the document without the end of *)
(* a line, it runs into the first of the lines; if the next heading comes  *)
(* with no empty line between, the last of them runs into that, unless the *)
(* lines are an item, which brings the end of its line.                    *)
RunsOn(target, lines) ==
  /\ target.part \in Sections /\ HeadingOf(workOrder, target.part) # {}
  /\ SectionLines(workOrder, target.part) = <<>> /\ lines # <<>>
  /\ target.item = 0 \/ SectionStart(workOrder, target.part) = Len(workOrder)

RunOn(target, lines) ==
  LET p == SectionStart(workOrder, target.part)
      n == Len(lines)
  IN  IF p = Len(workOrder)
      THEN Splice(p, p + 1, [lines EXCEPT ![1] = Item(@.id, @.traits \cup workOrder[p].traits)])
      ELSE Splice(p + 1, p + 2,
                  [lines EXCEPT ![n] = Item(@.id, @.traits \cup workOrder[p + 1].traits)])

(* apart: whatever follows a heading is kept apart from it by empty lines. *)
Spliced(target, isNone, replacement, apart) ==
  LET lines == IF isNone THEN <<Fallback(Instruction(saying))>> ELSE replacement
  IN  IF ~apart /\ RunsOn(target, lines) THEN RunOn(target, lines)
      ELSE Written(target, isNone, replacement)

(* "requested work-order item does not exist": beyond the next one, or     *)
(* nothing to put there.                                                   *)
NoSuchItem(target, replacement) ==
  /\ target.item > 0 /\ HeadingOf(workOrder, target.part) # {}
  /\ LET n == Len(SectionLines(workOrder, target.part)) IN
     target.item > n + 1 \/ (target.item = n + 1 /\ replacement = <<>>)

(* A replacement that changes nothing is replaced by the fallback.         *)
Proposed(target, replacement, apart) ==
  LET lines == Spliced(target, FALSE, replacement, apart)
  IN  IF lines = workOrder THEN Spliced(target, TRUE, <<>>, apart) ELSE lines

(* Seeded fault: the safety section is validated like any other.           *)
AcceptedAnywhere(target, lines) ==
  lines # <<>> /\ "operational" \in AllTraits(lines) /\ "foreign" \notin AllTraits(lines)

(* _revision_validation_notice                                             *)
Accepted(target, lines) ==
  LET traits == AllTraits(lines) IN
  /\ lines # <<>> /\ "foreign" \notin traits
  /\ IF target.guarded THEN "strong" \in traits /\ "unsafe" \notin traits
     ELSE "operational" \in traits

(* _with_revision_draft                                                    *)
IsRevision == outcome.decision = "correct" /\ outcome.reason = "report"

Draft ==
  /\ phase = "parsed" /\ IsRevision
  /\ LET target == Target(saying) IN
     IF target.part = "whole" /\ ~Has(Content(saying), "whole")
     THEN outcome' = [outcome EXCEPT !.kind = "clarify"] /\ phase' = "answered" /\ UNCHANGED reply
     ELSE IF target.guarded /\ Has(Instruction(saying), "delete")
     THEN outcome' = [outcome EXCEPT !.kind = "out_of_scope"] /\ phase' = "answered"
          /\ UNCHANGED reply
     ELSE reply' \in Replies /\ phase' = "replied" /\ UNCHANGED outcome
  /\ UNCHANGED <<saying, about, workOrder>>

(* The version is saved when the operator confirms the proposal.           *)
Revise ==
  /\ phase = "replied"
  /\ \E r \in Replacements, apart \in BOOLEAN :
       IF NoSuchItem(Target(saying), r)
       THEN phase' = "failed" /\ UNCHANGED <<outcome, workOrder>>
       ELSE LET lines == Proposed(Target(saying), r, apart) IN
            IF Accepted(Target(saying), Scope(lines, Target(saying)))
            THEN phase' = "saved" /\ workOrder' = lines /\ UNCHANGED outcome
            ELSE /\ phase' = "answered" /\ outcome' = [outcome EXCEPT !.kind = "out_of_scope"]
                 /\ UNCHANGED workOrder
  /\ UNCHANGED <<saying, about, reply>>

WordingInit ==
  /\ phase = "said"
  /\ saying \in Sayings /\ about \in BOOLEAN
  /\ reply = <<>> /\ workOrder \in WorkOrders
  /\ outcome = [kind |-> "none", decision |-> "none", reason |-> "none", rerun |-> FALSE]

WordingNext == Parse \/ Draft \/ Revise

WordingSpec == WordingInit /\ [][WordingNext]_wordingVars
-----------------------------------------------------------------------------
(* test_review_chat_intent.py: questions, refusals and what is out of      *)
(* scope are never acted on, however many words of action they hold; a     *)
(* stage of the analysis runs again only if it is rejected or the message  *)
(* says so, never for a complaint; and what revises the document runs      *)
(* nothing again.                                                          *)
IntentIsExplicit ==
  phase # "said" =>
    /\ outcome.kind = "proposal" =>
         /\ \A list \in {"question", "negative"} : ~Has(Content(saying), list)
         /\ \A list \in {"attack", "foreign"} : ~Has(Instruction(saying), list)
         /\ Cardinality({d \in {"approve", "reject", "correct", "hold"} :
                           Has(Content(saying), d)} \cup {outcome.decision}) = 1
    /\ outcome.rerun =>
         /\ Has(Content(saying), "stage")
         /\ Has(Content(saying), "reject") \/ Has(Content(saying), "rerun")
         /\ phase \notin {"replied", "saved"}

(* The document old becomes new in the target only: the other sections     *)
(* keep their lines, and the target the items around the one that is meant. *)
StaysInScope(old, new, target) ==
  LET before == SectionLines(old, target.part)
      after == SectionLines(new, target.part)
  IN  /\ target.part # "title" => new[1] = old[1]
      /\ \A s \in Sections \ {target.part} : SectionLines(new, s) = SectionLines(old, s)
      /\ target.item \in 1..Len(before) =>
           /\ SubSeq(after, 1, target.item - 1) = SubSeq(before, 1, target.item - 1)
           /\ LET rest == SubSeq(before, target.item + 1, Len(before)) IN
                /\ Len(rest) <= Len(after)
                /\ rest = SubSeq(after, Len(after) - Len(rest) + 1, Len(after))

(* A section that had no line has swallowed the heading behind it, and     *)
(* with it a section; every other line is what it was.                     *)
SwallowsHeading(old, new, target) ==
  LET p == SectionStart(old, target.part) IN
  /\ target.part \in Sections /\ HeadingOf(old, target.part) # {}
  /\ SectionLines(old, target.part) = <<>> /\ p < Len(old) /\ Len(new) >= Len(old)
  /\ \A k \in 1..p : new[k] = old[k]
  /\ \A k \in p + 2..Len(old) : new[k + (Len(new) - Len(old))] = old[k]

(* An answer whose first line is a heading becomes the title, and with it  *)
(* a section.                                                              *)
TitleIsHeading == Target(saying).part = "title" /\ workOrder[1].heading # "none"

(* A version that is saved for a part of the document differs from the one *)
(* before it in that part only, whatever the language model answered, but  *)
(* for the heading behind a section that was empty; a title is excepted    *)
(* that is or becomes a heading.  The safety section has an instruction in *)
(* force, if the message calls it by that name: quoted as 보호구 or 주의사항   *)
(* it is revised, or emptied, like any other.                              *)
RevisionStaysInScope ==
  [][/\ phase' = "saved" /\ Target(saying).part # "whole"
     /\ ~TitleIsHeading /\ ~TitleIsHeading'
     => /\ \/ StaysInScope(workOrder, workOrder', Target(saying))
           \/ SwallowsHeading(workOrder, workOrder', Target(saying))
        /\ Target(saying).part = "safety" /\ Target(saying).guarded
           => "strong" \in AllTraits(SectionLines(workOrder', "safety"))]_wordingVars
=============================================================================
