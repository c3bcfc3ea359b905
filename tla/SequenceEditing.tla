-------------------------- MODULE SequenceEditing --------------------------
(***************************************************************************)
(* Sequence documents under the checked editing loop: the parser,          *)
(* serializer and operations of src/src/agent/sequence-body.ts and the     *)
(* verifier of src/src/agent/verify.ts.                                    *)
(*                                                                         *)
(* Statements order the text: declarations and messages by reference, and  *)
(* actor links, typed fragments and unmodelled lines by value.  A block    *)
(* the parser reads as a typed fragment keeps its own text (`raw`) until   *)
(* an operation changes it.                                                *)
(***************************************************************************)
EXTENDS Naturals, FiniteSets, Sequences, SequencesExt

CONSTANTS None,         \* no label
          BlockWords,   \* ids that open or continue a block at a line's start
          Sources,      \* authored sources: sequences of lines
          Ids, Texts, FragmentKinds,   \* arguments of operations
          MaxOps

VARIABLES published, body, ops

(* ------------------------------ the parser ------------------------------ *)

Blank == [participants |-> << >>, messages |-> << >>, statements |-> << >>]

ParticipantIds(b) == {p.id : p \in ToSet(b.participants)}
IndexOf(b, id) == CHOOSE k \in DOMAIN b.participants : b.participants[k].id = id

\* A participant that is only mentioned is known, and has no declaration.
EnsureKnown(b, id) ==
  IF id \in ParticipantIds(b) THEN b
  ELSE [b EXCEPT !.participants = Append(@, [id |-> id, label |-> id, links |-> {}])]

EnsureBoth(b, m) == EnsureKnown(EnsureKnown(b, m.from), m.to)

BranchMessages(branches) == FlattenSeq([k \in DOMAIN branches |-> branches[k].messages])

AppendOpaque(statements, line) ==
  IF statements # << >> /\ Last(statements).kind = "opaque"
    THEN Front(statements) \o <<[kind |-> "opaque", lines |-> Append(Last(statements).lines, line)]>>
    ELSE Append(statements, [kind |-> "opaque", lines |-> <<line>>])

ReadLine(b, line) ==
  CASE line.kind = "participant" ->
         LET c == EnsureKnown(b, line.id)
             k == IndexOf(c, line.id)
         IN [c EXCEPT !.participants[k].label = line.label,
                      !.statements = Append(@, [kind |-> "participant", ref |-> k])]
    [] line.kind = "link" ->
         LET c == EnsureKnown(b, line.id)
         IN [c EXCEPT !.participants[IndexOf(c, line.id)].links = @ \union line.links,
                      !.statements = Append(@, [kind |-> "actor-links", id |-> line.id, links |-> line.links])]
    [] line.kind = "message" ->
         LET c == EnsureBoth(b, line.message)
         IN [c EXCEPT !.messages = Append(@, line.message),
                      !.statements = Append(@, [kind |-> "message", ref |-> Len(b.messages) + 1])]
    [] line.kind = "fragment" ->
         [FoldLeft(EnsureBoth, b, BranchMessages(line.fragment.branches)) EXCEPT
            !.statements = Append(@, [kind |-> "fragment", fragment |-> line.fragment,
                                      raw |-> <<line.fragment>>])]
    [] OTHER -> [b EXCEPT !.statements = AppendOpaque(@, line)]

LineMessages(line) ==
  CASE line.kind = "message" -> {line.message}
    [] line.kind = "fragment" -> ToSet(BranchMessages(line.fragment.branches))
    [] OTHER -> {}

\* A message line that starts with a block keyword opens a block that nothing
\* closes: the whole source is opaque.
Parse(lines) ==
  IF \E line \in ToSet(lines) : \E m \in LineMessages(line) : m.from \in BlockWords THEN {}
  ELSE {FoldLeft(ReadLine, Blank, lines)}

(* ---------------------------- the serializer ---------------------------- *)

FragmentText(st) == IF st.raw = << >> THEN st.fragment ELSE st.raw[1]

StatementLines(b, st) ==
  CASE st.kind = "opaque" -> st.lines
    [] st.kind = "participant" ->
         <<[kind |-> "participant", id |-> b.participants[st.ref].id, label |-> b.participants[st.ref].label]>>
    [] st.kind = "actor-links" -> <<[kind |-> "link", id |-> st.id, links |-> st.links]>>
    [] st.kind = "fragment" -> <<[kind |-> "fragment", fragment |-> FragmentText(st)]>>
    [] OTHER -> <<[kind |-> "message", message |-> b.messages[st.ref]]>>

Render(b) == FlattenSeq([k \in DOMAIN b.statements |-> StatementLines(b, b.statements[k])])

(* ------------------------------ the verifier ---------------------------- *)

Reparse(b) == Parse(Render(b))

\* sequenceMessages: top-level and fragment messages in interaction order.
StatementMessages(b, st) ==
  CASE st.kind = "message" -> <<b.messages[st.ref]>>
    [] st.kind = "fragment" -> BranchMessages(st.fragment.branches)
    [] OTHER -> << >>
AllMessages(b) == FlattenSeq([k \in DOMAIN b.statements |-> StatementMessages(b, b.statements[k])])

OpaqueLines(b) ==
  FlattenSeq([k \in DOMAIN b.statements |->
     IF b.statements[k].kind = "opaque" THEN b.statements[k].lines ELSE << >>])

EmptyDiagram(b) == b.participants = << >> /\ AllMessages(b) = << >> /\ OpaqueLines(b) = << >>
Misanchored(b) ==
  \E m \in ToSet(AllMessages(b)) : ~({m.from, m.to} \subseteq ParticipantIds(b))
Rejected(b) == EmptyDiagram(b) \/ Misanchored(b)
Tally(b) == <<Len(b.participants), Len(AllMessages(b)), 0>>

Core == INSTANCE EditCore WITH Empty <- EmptyDiagram

(* ------------------------------ operations ------------------------------ *)

\* Positions of the statements of one kind.
At(b, kind) == SelectSeq([k \in DOMAIN b.statements |-> k], LAMBDA k : b.statements[k].kind = kind)

\* A declaration goes after the last one, or to the top.
AddParticipant(b, id, label) ==
  LET declared == At(b, "participant")
      at == IF declared = << >> THEN 1 ELSE Last(declared) + 1
  IN IF id \in ParticipantIds(b) THEN {}
     ELSE {[b EXCEPT !.participants = Append(@, [id |-> id, label |-> label, links |-> {}]),
                     !.statements = InsertAt(@, at, [kind |-> "participant", ref |-> Len(b.participants) + 1])]}

OpaqueBlocksReference(b, id) ==
  \/ \E line \in ToSet(OpaqueLines(b)) : id \in line.ids
  \/ \E st \in ToSet(b.statements) : st.kind = "fragment" /\
        \E m \in ToSet(BranchMessages(st.fragment.branches)) : id \in {m.from, m.to}

\* The participant goes with its declaration, its links and its messages; the
\* references that remain are renumbered.
RemoveParticipant(b, id) ==
  LET gone == IndexOf(b, id)
      touches(k) == id \in {b.messages[k].from, b.messages[k].to}
      kept == SelectSeq(b.statements, LAMBDA st :
                CASE st.kind = "participant" -> st.ref # gone
                  [] st.kind = "actor-links" -> st.id # id
                  [] st.kind = "message" -> ~touches(st.ref)
                  [] OTHER -> TRUE)
      renumbered(st) ==
        CASE st.kind = "participant" /\ st.ref > gone -> [st EXCEPT !.ref = @ - 1]
          [] st.kind = "message" ->
               [st EXCEPT !.ref = @ - Cardinality({k \in 1 .. st.ref - 1 : touches(k)})]
          [] OTHER -> st
  IN IF OpaqueBlocksReference(b, id) THEN {}
     ELSE {[participants |-> RemoveAt(b.participants, gone),
            messages |-> SelectSeq(b.messages, LAMBDA m : id \notin {m.from, m.to}),
            statements |-> [k \in DOMAIN kept |-> renumbered(kept[k])]]}

MessageAt(b, ref) == {k \in DOMAIN b.statements : b.statements[k].kind = "message" /\ b.statements[k].ref = ref}

ShiftLaterRefs(statements, from, by) ==   \* mutant: off by one
  [k \in DOMAIN statements |->
     IF statements[k].kind = "message" /\ statements[k].ref > from
       THEN [statements[k] EXCEPT !.ref = @ + by] ELSE statements[k]]

ShiftRefs(statements, from, by) ==
  [k \in DOMAIN statements |->
     IF statements[k].kind = "message" /\ statements[k].ref >= from
       THEN [statements[k] EXCEPT !.ref = @ + by] ELSE statements[k]]

\* A message takes the place of the one it displaces, or goes to the end.
AddMessage(b, i, m) ==
  LET c == EnsureBoth(b, m)
      st == [kind |-> "message", ref |-> i]
      at == IF MessageAt(b, i) = {} THEN Len(b.statements) + 1 ELSE CHOOSE k \in MessageAt(b, i) : TRUE
  IN [c EXCEPT !.messages = InsertAt(@, i, m),
               !.statements = InsertAt(ShiftRefs(@, i, 1), at, st)]

RemoveMessage(b, i) ==
  [b EXCEPT !.messages = RemoveAt(@, i),
            !.statements = LET kept == SelectSeq(@, LAMBDA st : ~(st.kind = "message" /\ st.ref = i))
                           IN [k \in DOMAIN kept |->
                                 IF kept[k].kind = "message" /\ kept[k].ref > i
                                   THEN [kept[k] EXCEPT !.ref = @ - 1] ELSE kept[k]]]

\* The moved message's statement goes to the position of the message it
\* displaces, or after the last one; all are numbered again in order.
MoveMessage(b, from, to) ==
  LET without == SelectSeq(b.statements, LAMBDA st : ~(st.kind = "message" /\ st.ref = from))
      remaining == SelectSeq([k \in DOMAIN without |-> k], LAMBDA k : without[k].kind = "message")
      at == IF to <= Len(remaining) THEN remaining[to]
            ELSE IF remaining # << >> THEN Last(remaining) + 1 ELSE Len(without) + 1
      stream == InsertAt(without, at, [kind |-> "message", ref |-> 0])
      rank(k) == Cardinality({j \in 1 .. k : stream[j].kind = "message"})
  IN IF from = to THEN b
     ELSE [b EXCEPT !.messages = InsertAt(RemoveAt(@, from), to, b.messages[from]),
                    !.statements = [k \in DOMAIN stream |->
                       IF stream[k].kind = "message" THEN [stream[k] EXCEPT !.ref = rank(k)] ELSE stream[k]]]

\* A participant without a declaration gets one at the top.
SetParticipantLabel(b, k, label) ==
  [b EXCEPT !.participants[k].label = label,
            !.statements = IF \E st \in ToSet(@) : st.kind = "participant" /\ st.ref = k THEN @
                           ELSE <<[kind |-> "participant", ref |-> k]>> \o @]

AddFragment(b, i, fragmentKind, label) ==
  LET fragments == At(b, "fragment")
      at == IF i <= Len(fragments) THEN fragments[i] ELSE Len(b.statements) + 1
  IN [b EXCEPT !.statements = InsertAt(@, at,
        [kind |-> "fragment", raw |-> << >>,
         fragment |-> [kind |-> fragmentKind, label |-> label,
                       branches |-> <<[label |-> None, messages |-> << >>]>>]])]

\* mutant: the text it was read from is still written
EditKeepingText(b, i, fragment) == [b EXCEPT !.statements[i].fragment = fragment]

\* Changing a fragment gives up the text it was read from.
Edit(b, i, fragment) == [b EXCEPT !.statements[i] = [@ EXCEPT !.fragment = fragment, !.raw = << >>]]

HasBranches(fragment) == fragment.kind \in {"alt", "par"}

\* The first branch's label stands on the line that opens the fragment.
SetBranchLabel(fragment, n, label) ==
  IF n = 1 THEN [fragment EXCEPT !.label = label, !.branches[1].label = None]
  ELSE [fragment EXCEPT !.branches[n].label = label]

(* -------------------------------- actions ------------------------------- *)

vars == <<published, body, ops>>
Messages == [from : Ids, to : Ids, text : Texts]
Labels == Texts \union {None}
FragmentsOf(b) == {k \in DOMAIN b.statements : b.statements[k].kind = "fragment"}
FragmentIn(k) == body.statements[k].fragment

add_participant == \E id \in Ids, label \in Texts : Core!Commit(AddParticipant(body, id, label))
remove_participant == \E id \in ParticipantIds(body) : Core!Commit(RemoveParticipant(body, id))
add_message ==
  \E i \in 1 .. Len(body.messages) + 1, m \in Messages : Core!Commit({AddMessage(body, i, m)})
move_message ==
  \E from \in DOMAIN body.messages, to \in DOMAIN body.messages :
     Core!Commit({MoveMessage(body, from, to)})
set_participant_label ==
  \E k \in DOMAIN body.participants, label \in Texts : Core!Commit({SetParticipantLabel(body, k, label)})
remove_message == \E i \in DOMAIN body.messages : Core!Commit({RemoveMessage(body, i)})
set_message_text ==
  \E i \in DOMAIN body.messages, text \in Texts : Core!Commit({[body EXCEPT !.messages[i].text = text]})
add_fragment ==
  \E i \in 1 .. Cardinality(FragmentsOf(body)) + 1, kind \in FragmentKinds, label \in Labels :
     Core!Commit({AddFragment(body, i, kind, label)})
remove_fragment ==
  \E k \in FragmentsOf(body) : Core!Commit({[body EXCEPT !.statements = RemoveAt(@, k)]})
set_fragment_label ==
  \E k \in FragmentsOf(body), label \in Labels :
     Core!Commit({Edit(body, k, [FragmentIn(k) EXCEPT !.label = label])})
add_fragment_branch ==
  \E k \in FragmentsOf(body), label \in Labels :
     /\ HasBranches(FragmentIn(k))
     /\ Core!Commit({Edit(body, k, [FragmentIn(k) EXCEPT
                                      !.branches = Append(@, [label |-> label, messages |-> << >>])])})
set_fragment_branch_label ==
  \E k \in FragmentsOf(body), label \in Labels : \E n \in DOMAIN FragmentIn(k).branches :
     Core!Commit({Edit(body, k, SetBranchLabel(FragmentIn(k), n, label))})
add_fragment_message ==
  \E k \in FragmentsOf(body), m \in Messages : \E n \in DOMAIN FragmentIn(k).branches :
    \E i \in 1 .. Len(FragmentIn(k).branches[n].messages) + 1 :
      Core!Commit({Edit(EnsureBoth(body, m), k,
                        [FragmentIn(k) EXCEPT !.branches[n].messages = InsertAt(@, i, m)])})
remove_fragment_message ==
  \E k \in FragmentsOf(body) : \E n \in DOMAIN FragmentIn(k).branches :
    \E i \in DOMAIN FragmentIn(k).branches[n].messages :
      Core!Commit({Edit(body, k, [FragmentIn(k) EXCEPT !.branches[n].messages = RemoveAt(@, i)])})
set_fragment_message_text ==
  \E k \in FragmentsOf(body), text \in Texts : \E n \in DOMAIN FragmentIn(k).branches :
    \E i \in DOMAIN FragmentIn(k).branches[n].messages :
      Core!Commit({Edit(body, k, [FragmentIn(k) EXCEPT !.branches[n].messages[i].text = text])})

Init == Core!Begin(UNION {Parse(source) : source \in Sources})

Next ==
  \/ add_participant \/ remove_participant \/ add_message \/ move_message
  \/ set_participant_label \/ remove_message \/ set_message_text
  \/ add_fragment \/ remove_fragment \/ set_fragment_label
  \/ add_fragment_branch \/ set_fragment_branch_label
  \/ add_fragment_message \/ remove_fragment_message \/ set_fragment_message_text
  \/ Core!Refuse \/ Core!Publish

Spec == Init /\ [][Next]_vars

(* ------------------------------ properties ------------------------------ *)

Nodes(b) == ParticipantIds(b)
Links(b) == LET all == AllMessages(b) IN [k \in DOMAIN all |-> <<all[k].from, all[k].to>>]

\* Message statements appear in the order of the messages they refer to, each
\* once; declarations refer to participants; every endpoint is a participant.
ReferencesResolve ==
  LET refs == SelectSeq(body.statements, LAMBDA st : st.kind = "message")
  IN /\ [k \in DOMAIN refs |-> refs[k].ref] = [k \in DOMAIN body.messages |-> k]
     /\ \A st \in ToSet(body.statements) :
          /\ st.kind = "participant" => st.ref \in DOMAIN body.participants
          /\ st.kind = "actor-links" => st.id \in ParticipantIds(body)
     /\ Cardinality(ParticipantIds(body)) = Len(body.participants)
     /\ \A m \in ToSet(AllMessages(body)) : {m.from, m.to} \subseteq ParticipantIds(body)

\* What a body says; the order of the participants is left out.
Content(b) ==
  [participants |-> ToSet(b.participants), messages |-> AllMessages(b), lines |-> OpaqueLines(b),
   fragments |-> {b.statements[k].fragment : k \in FragmentsOf(b)}]

\* A body that does not say the same as the text it is written to is one the
\* verifier rejects or reports dropped content for.
LossIsAnnounced ==
  Rejected(body) \/ Core!LossReported(body)
    \/ \A r \in Reparse(body) : Content(r) = Content(body)

KeepsUnmodelled == OpaqueLines(body)' = OpaqueLines(body)
=============================================================================
