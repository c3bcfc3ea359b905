----------------------- MODULE StdioCoordinatorProofs -----------------------
(***************************************************************************)
(* Proofs about the stdio coordinator, for any number of lines, ids,       *)
(* revisions and input messages.                                           *)
(***************************************************************************)
EXTENDS StdioContract, TLAPS

USE MaxLinesAssumption DEF Lines

\* The revision an initialize selects is one the stdio transport serves.
LEMMA SelectedVersionServed ==
    ASSUME NEW m
    PROVE  SelectedVersion(m) \in StdioVersions \cap LegacyVersions
BY StdioVersionsAssumption DEF SelectedVersion, NewestLegacy

\* Admission is in the pinned era, or in one of the two eras if none is.
LEMMA AdmittedEra ==
    ASSUME TypeOK, NEW l \in Lines, Verdict(l).verdict = "admitted"
    PROVE  /\ Verdict(l) \in [verdict : {"admitted"}, era : Eras]
           /\ era # None => Verdict(l).era = era
BY DEF TypeOK, Verdict, EffectiveEra, DispatchOptions, RequestedEra, Eras

Responses == {"result", "error", "refusal", "internal", "parse-error"}

\* emit() keeps the record of written responses well formed.
LEMMA EmitTyped ==
    ASSUME TypeOK, NEW l \in Lines, NEW kind, NEW nonNull, Emit(l, kind, nonNull),
           nonNull => kind \in Responses
    PROVE  wire' \in [Lines -> Seq(Responses)]
<1>1. wire \in [Lines -> Seq(Responses)]
  BY DEF TypeOK, Responses
<1>2. CASE nonNull
  <2>1. Append(wire[l], kind) \in Seq(Responses)
    BY <1>1, <1>2
  <2>2. QED
    BY <1>1, <2>1 DEF Emit
<1>3. CASE ~ nonNull
  BY <1>1, <1>3 DEF Emit
<1>4. QED
  BY <1>2, <1>3

\* Types are preserved by every action: the state stays the one TypeOK describes.
THEOREM TypeCorrect == Spec => []TypeOK
<1>1. Init => TypeOK
  BY DEF Init, TypeOK, NoLine, Unread, Phases
<1>2. TypeOK /\ [Next]_vars => TypeOK'
  <2> SUFFICES ASSUME TypeOK, [Next]_vars PROVE TypeOK'
    OBVIOUS
  <2> USE DEF TypeOK, Phases, coordVars, drainVars
  <2>1. CASE UNCHANGED vars
    BY <2>1 DEF vars
  <2>2. ASSUME NEW l \in Lines, Accept(l) PROVE TypeOK'
    <3>1. CASE AcceptGarbage(l)
      BY <3>1 DEF AcceptGarbage, NextLine
    <3>2. ASSUME NEW m \in Inputs, NEW id \in Ids, AcceptRequest(l, m, id) PROVE TypeOK'
      <4>1. KeyOf(id) \in Keys /\ m \in Message
        BY <3>2, InputsAssumption DEF Keys
      <4>2. line' \in [Lines -> [id : Ids \cup {None}, msg : Message \cup {None}]]
        BY <3>2, <4>1 DEF AcceptRequest, TakeTicket
      <4>3. inFlight' \in [Keys -> SUBSET Lines]
        BY <3>2, <4>1 DEF AcceptRequest
      <4>4. QED
        BY <3>2, <4>2, <4>3 DEF AcceptRequest, TakeTicket, NextLine
    <3>3. ASSUME NEW m \in Inputs, AcceptUnkeyed(l, m) PROVE TypeOK'
      BY <3>3, InputsAssumption DEF AcceptUnkeyed, TakeTicket, NextLine
    <3>4. ASSUME NEW id \in Ids, AcceptCancellation(l, id) PROVE TypeOK'
      <4>1. KeyOf(id) \in Keys
        BY DEF Keys
      <4>2. aborted' \subseteq Lines /\ revoked' \subseteq Lines
        BY <3>4, <4>1 DEF AcceptCancellation, Revoke, Tasks
      <4>3. QED
        BY <3>4, <4>2 DEF AcceptCancellation, NextLine
    <3>5. ASSUME NEW id \in Ids, AcceptInexactCancellation(l, id) PROVE TypeOK'
      <4>1. UnrecognisedCancellation \in Message
        BY DEF UnrecognisedCancellation, Message
      <4>2. line' \in [Lines -> [id : Ids \cup {None}, msg : Message \cup {None}]]
        BY <3>5, <4>1 DEF AcceptInexactCancellation, TakeTicket
      <4>3. revoked' \subseteq Lines
        BY <3>5 DEF AcceptInexactCancellation, Revoke, Tasks
      <4>4. QED
        BY <3>5, <4>2, <4>3 DEF AcceptInexactCancellation, TakeTicket, NextLine
    <3>6. QED
      BY <2>2, <3>1, <3>2, <3>3, <3>4, <3>5 DEF Accept
  <2>3. ASSUME NEW l \in Lines, Turn(l) PROVE TypeOK'
    <3>1. Verdict(l) \in [verdict : {"admitted", "refused"}, era : Eras \cup {None}]
      BY AdmittedEra DEF Verdict
    <3>2. CASE BeginInitialize(l)
      BY <3>1, <3>2 DEF BeginInitialize
    <3>3. CASE Classify(l)
      BY <3>1, <3>3 DEF Classify, Eras
    <3>4. CASE CompleteInitialize(l)
      <4>1. SelectedVersion(line[l].msg) \in Versions
        BY SelectedVersionServed, StdioVersionsAssumption DEF Versions, KnownVersions
      <4>2. ReplyKind(line[l].msg, admission[l].era) # None
              => ReplyKind(line[l].msg, admission[l].era) \in {"result", "error"}
        BY DEF ReplyKind
      <4>3. wire' \in [Lines -> Seq(Responses)]
        BY <3>4, <4>2, EmitTyped DEF CompleteInitialize, Responses
      <4>4. era' \in Eras \cup {None} /\ version' \in Versions \cup {None}
        BY <3>4, <4>1 DEF CompleteInitialize, Eras
      <4>5. phase' \in [Lines -> Phases]
        BY <3>4 DEF CompleteInitialize
      <4>6. QED
        BY <3>4, <4>3, <4>4, <4>5 DEF CompleteInitialize, Responses
    <3>5. CASE Refuse(l)
      <4>1. wire' \in [Lines -> Seq(Responses)]
        BY <3>5, EmitTyped DEF Refuse, Responses
      <4>2. QED
        BY <3>5, <4>1 DEF Refuse, Advance, Responses
    <3>6. CASE SkipCancelled(l) \/ Dispatch(l) \/ DispatchFails(l)
      BY <3>6 DEF SkipCancelled, Dispatch, DispatchFails, Advance
    <3>7. CASE Reply(l)
      <4>1. ReplyKind(line[l].msg, admission[l].era) # None
              => ReplyKind(line[l].msg, admission[l].era) \in {"result", "error"}
        BY DEF ReplyKind
      <4>2. wire' \in [Lines -> Seq(Responses)]
        BY <3>7, <4>1, EmitTyped DEF Reply, Responses
      <4>3. QED
        BY <3>7, <4>2 DEF Reply, Advance, Responses
    <3>8. CASE Rescue(l)
      <4>1. wire' \in [Lines -> Seq(Responses)]
        BY <3>8, EmitTyped DEF Rescue, Responses
      <4>2. QED
        BY <3>8, <4>1 DEF Rescue, Advance, Responses
    <3>9. CASE Settle(l)
      BY <3>9 DEF Settle, Advance
    <3>10. QED
      BY <2>3, <3>2, <3>3, <3>4, <3>5, <3>6, <3>7, <3>8, <3>9 DEF Turn
  <2>4. CASE EndOfInput
    BY <2>4 DEF EndOfInput
  <2>5. CASE WaitForTasks
    BY <2>5 DEF WaitForTasks, Tasks
  <2>6. QED
    BY <2>1, <2>2, <2>3, <2>4, <2>5 DEF Next, Closed
<1>3. QED
  BY <1>1, <1>2, PTL DEF Spec

-----------------------------------------------------------------------------
(***************************************************************************)
(* The ledger of requests: a line that has not been read has no promise    *)
(* chain, and a chain that has not reached a writer has written nothing.   *)
(* Without these two AnsweredAtMostOnce and InFlightIsExact are not        *)
(* inductive: a chain could start, or write, twice.                        *)
(***************************************************************************)
FutureIsUnread == \A l \in Lines : received < l => phase[l] = "unread"

SilentUntilWritten ==
    \A l \in Lines : phase[l] \notin {"emitted", "settled"} => wire[l] = <<>>

LedgerInv ==
    /\ TypeOK
    /\ FutureIsUnread
    /\ SilentUntilWritten
    /\ AnsweredAtMostOnce
    /\ InFlightIsExact

\* A chain that moves between two live phases leaves the set of tasks alone.
LEMMA TasksKept ==
    ASSUME TypeOK, NEW l \in Lines, phase[l] \in Live, NEW to \in Live,
           phase' = [phase EXCEPT ![l] = to]
    PROVE  Tasks' = Tasks
BY DEF TypeOK, Tasks

\* emit() on a chain that has written nothing leaves at most one response.
LEMMA EmitOnce ==
    ASSUME TypeOK, NEW l \in Lines, NEW kind, NEW nonNull, Emit(l, kind, nonNull),
           wire[l] = <<>>, AnsweredAtMostOnce
    PROVE  /\ AnsweredAtMostOnce'
           /\ \A k \in Lines \ {l} : wire'[k] = wire[k]
<1>1. Len(Append(<<>>, kind)) = 1
  OBVIOUS
<1>2. wire' = wire \/ wire' = [wire EXCEPT ![l] = Append(<<>>, kind)]
  BY DEF Emit
<1>3. CASE wire' = wire
  BY <1>3 DEF AnsweredAtMostOnce
<1>4. CASE wire' = [wire EXCEPT ![l] = Append(<<>>, kind)]
  <2>1. DOMAIN wire = Lines
    BY DEF TypeOK
  <2>2. wire'[l] = Append(<<>>, kind)
    BY <1>4, <2>1
  <2>3. \A k \in Lines \ {l} : wire'[k] = wire[k]
    BY <1>4, <2>1
  <2>4. ASSUME NEW k \in Lines PROVE Len(wire'[k]) <= 1
    <3>1. CASE k = l
      <4>1. Len(wire'[k]) = 1
        BY <1>1, <2>2, <3>1
      <4>2. QED
        BY <4>1
    <3>2. CASE k # l
      <4>1. wire'[k] = wire[k]
        BY <2>3, <3>2
      <4>2. QED
        BY <4>1 DEF AnsweredAtMostOnce
    <3>3. QED
      BY <3>1, <3>2
  <2>5. QED
    BY <2>3, <2>4 DEF AnsweredAtMostOnce
<1>5. QED
  BY <1>2, <1>3, <1>4

LEMMA LedgerInvariant == Spec => []LedgerInv
<1>1. Init => LedgerInv
  BY DEF Init, LedgerInv, TypeOK, FutureIsUnread, SilentUntilWritten, AnsweredAtMostOnce,
         InFlightIsExact, Tasks, Live, NoLine, Unread, Phases
<1>2. LedgerInv /\ TypeOK' /\ [Next]_vars => LedgerInv'
  <2> SUFFICES ASSUME LedgerInv, TypeOK', [Next]_vars PROVE LedgerInv'
    OBVIOUS
  <2> USE DEF LedgerInv
  <2>1. CASE UNCHANGED vars
    BY <2>1 DEF vars, FutureIsUnread, SilentUntilWritten, AnsweredAtMostOnce, InFlightIsExact,
                Tasks, HasKey
  <2>2. ASSUME NEW l \in Lines, Accept(l) PROVE LedgerInv'
    <3>1. NextLine(l) /\ phase[l] = "unread" /\ wire[l] = <<>> /\ received' = l
      <4>1. NextLine(l) /\ received' = l
        BY <2>2 DEF Accept, AcceptGarbage, AcceptRequest, AcceptUnkeyed, AcceptCancellation,
                    AcceptInexactCancellation, TakeTicket
      <4>2. phase[l] = "unread"
        BY <4>1 DEF NextLine, FutureIsUnread, TypeOK
      <4>3. QED
        BY <4>1, <4>2 DEF SilentUntilWritten
    <3>0. ASSUME NEW to, phase' = [phase EXCEPT ![l] = to] PROVE FutureIsUnread'
      <4> SUFFICES ASSUME NEW k \in Lines, received' < k PROVE phase'[k] = "unread"
        BY DEF FutureIsUnread
      <4>1. received \in Nat /\ received < l /\ l < k
        BY <3>1 DEF NextLine, TypeOK
      <4>2. received < k /\ k # l
        BY <4>1
      <4>3. QED
        BY <3>0, <4>2 DEF FutureIsUnread, TypeOK
    <3>2. CASE phase' = [phase EXCEPT ![l] = "settled"]
      <4>1. Tasks' = Tasks /\ FutureIsUnread'
        BY <3>0, <3>1, <3>2 DEF Tasks, Live, TypeOK
      <4>2. line' = line /\ inFlight' = inFlight
        <5>1. AcceptGarbage(l) \/ (\E id \in Ids : AcceptCancellation(l, id))
          BY <2>2, <3>2, <3>1 DEF Accept, AcceptRequest, AcceptUnkeyed, AcceptInexactCancellation,
                                  TakeTicket, TypeOK
        <5>2. QED
          BY <5>1 DEF AcceptGarbage, AcceptCancellation, coordVars
      <4>3. InFlightIsExact'
        BY <4>1, <4>2 DEF InFlightIsExact, HasKey
      <4>4. wire' \in {wire, [wire EXCEPT ![l] = Append(@, "parse-error")]}
        BY <2>2 DEF Accept, AcceptGarbage, AcceptRequest, AcceptUnkeyed, AcceptCancellation,
                    AcceptInexactCancellation, TakeTicket
      <4>5. SilentUntilWritten' /\ AnsweredAtMostOnce'
        <5>1. Len(Append(<<>>, "parse-error")) = 1
          OBVIOUS
        <5>2. QED
          <6>1. \A k \in Lines \ {l} : wire'[k] = wire[k] /\ phase'[k] = phase[k]
            BY <3>2, <4>4 DEF TypeOK
          <6>2. wire'[l] \in {<<>>, Append(<<>>, "parse-error")} /\ phase'[l] = "settled"
            BY <3>1, <3>2, <4>4 DEF TypeOK
          <6>3. Len(wire'[l]) <= 1
            <7>1. CASE wire'[l] = <<>>
              BY <7>1
            <7>2. CASE wire'[l] = Append(<<>>, "parse-error")
              BY <5>1, <7>2
            <7>3. QED
              BY <6>2, <7>1, <7>2
          <6>4. QED
            BY <6>1, <6>2, <6>3 DEF SilentUntilWritten, AnsweredAtMostOnce
      <4>6. QED
        BY <4>1, <4>3, <4>5
    <3>3. CASE phase' = [phase EXCEPT ![l] = "queued"]
      <4>1. Tasks' = Tasks \cup {l} /\ l \notin Tasks /\ FutureIsUnread'
        BY <3>0, <3>1, <3>3 DEF Tasks, Live, TypeOK
      <4>0. Tasks \subseteq Lines
        BY DEF Tasks
      <4>2. wire' = wire
        BY <2>2, <3>1, <3>3 DEF Accept, AcceptGarbage, AcceptRequest, AcceptUnkeyed,
                    AcceptCancellation, AcceptInexactCancellation, TakeTicket, TypeOK
      <4>3. SilentUntilWritten' /\ AnsweredAtMostOnce'
        BY <3>1, <3>3, <4>2 DEF SilentUntilWritten, AnsweredAtMostOnce, TypeOK
      <4>4. \A k \in Lines \ {l} : line'[k] = line[k]
        BY <2>2 DEF Accept, AcceptGarbage, AcceptRequest, AcceptUnkeyed, AcceptCancellation,
                    AcceptInexactCancellation, TakeTicket, TypeOK
      <4>5. InFlightIsExact'
        <5>1. CASE \E m \in Inputs, id \in Ids : AcceptRequest(l, m, id)
          <6> PICK m \in Inputs, id \in Ids : AcceptRequest(l, m, id)
            BY <5>1
          <6>1. line'[l].id = id /\ id # None
            BY IdsAssumption DEF AcceptRequest, TakeTicket, TypeOK
          <6>2. inFlight' = [inFlight EXCEPT ![KeyOf(id)] = @ \cup {l}] /\ KeyOf(id) \in Keys
            BY DEF AcceptRequest, Keys
          <6>3. \A k \in Keys : inFlight'[k] = IF k = KeyOf(id) THEN inFlight[k] \cup {l}
                                               ELSE inFlight[k]
            BY <6>2 DEF TypeOK
          <6>4. \A k \in Keys : {j \in Tasks' : HasKey(j)' /\ KeyOf(line'[j].id) = k}
                  = IF k = KeyOf(id) THEN {j \in Tasks : HasKey(j) /\ KeyOf(line[j].id) = k} \cup {l}
                    ELSE {j \in Tasks : HasKey(j) /\ KeyOf(line[j].id) = k}
            BY <4>0, <4>1, <4>4, <6>1 DEF HasKey
          <6>5. QED
            BY <6>3, <6>4 DEF InFlightIsExact
        <5>2. CASE line'[l].id = None /\ inFlight' = inFlight
          <6>1. ASSUME NEW k \in Keys
                PROVE  {j \in Tasks' : HasKey(j)' /\ KeyOf(line'[j].id) = k}
                         = {j \in Tasks : HasKey(j) /\ KeyOf(line[j].id) = k}
            <7>1. ~HasKey(l)'
              BY <5>2 DEF HasKey
            <7>2. \A j \in Tasks : j \in Lines \ {l} /\ line'[j] = line[j]
              BY <4>0, <4>1, <4>4
            <7>3. \A j \in Tasks : HasKey(j)' <=> HasKey(j)
              BY <7>2 DEF HasKey
            <7>4. QED
              BY <4>1, <7>1, <7>2, <7>3
          <6>2. QED
            BY <5>2, <6>1 DEF InFlightIsExact
        <5>3. QED
          <6>1. ASSUME NEW m, TakeTicket(l, m, None) PROVE line'[l].id = None
            BY <6>1 DEF TakeTicket, TypeOK
          <6>2. ~AcceptGarbage(l) /\ \A id \in Ids : ~AcceptCancellation(l, id)
            BY <3>1, <3>3 DEF AcceptGarbage, AcceptCancellation, TypeOK
          <6>3. QED
            BY <2>2, <5>1, <5>2, <6>1, <6>2 DEF Accept, AcceptUnkeyed, AcceptInexactCancellation
      <4>6. QED
        BY <4>1, <4>3, <4>5
    <3>4. QED
      BY <2>2, <3>2, <3>3 DEF Accept, AcceptGarbage, AcceptRequest, AcceptUnkeyed,
            AcceptCancellation, AcceptInexactCancellation, TakeTicket
  <2>3. ASSUME NEW l \in Lines, Turn(l) PROVE LedgerInv'
    <3>1. phase[l] \in Live /\ received' = received /\ line' = line
      BY <2>3 DEF Turn, BeginInitialize, Classify, CompleteInitialize, Refuse, SkipCancelled,
                  Dispatch, Reply, DispatchFails, Rescue, Settle, Advance, GateIsAt, Live
    <3>2. ASSUME NEW to \in Phases \ {"unread"}, phase' = [phase EXCEPT ![l] = to]
          PROVE  FutureIsUnread'
      BY <3>1, <3>2 DEF FutureIsUnread, TypeOK, Live
    <3>3. CASE Settle(l)
      <4>1. Tasks' = Tasks \ {l}
        BY <3>3 DEF Settle, Advance, Tasks, Live, TypeOK
      <4>2. InFlightIsExact'
        <5>1. \A k \in Keys : inFlight'[k] = IF HasKey(l) /\ k = KeyOf(line[l].id)
                                             THEN inFlight[k] \ {l} ELSE inFlight[k]
          <6>1. HasKey(l) => KeyOf(line[l].id) \in Keys
            BY DEF HasKey, Keys, TypeOK
          <6>2. QED
            BY <3>3, <6>1 DEF Settle, TypeOK
        <5>2. \A k \in Keys : {j \in Tasks \ {l} : HasKey(j) /\ KeyOf(line[j].id) = k}
                = IF HasKey(l) /\ k = KeyOf(line[l].id)
                  THEN {j \in Tasks : HasKey(j) /\ KeyOf(line[j].id) = k} \ {l}
                  ELSE {j \in Tasks : HasKey(j) /\ KeyOf(line[j].id) = k}
          OBVIOUS
        <5>3. QED
          BY <3>1, <4>1, <5>1, <5>2 DEF InFlightIsExact, HasKey
      <4>3. SilentUntilWritten' /\ AnsweredAtMostOnce'
        BY <3>3 DEF Settle, Advance, SilentUntilWritten, AnsweredAtMostOnce, TypeOK
      <4>4. QED
        BY <3>2, <3>3, <4>2, <4>3 DEF Settle, Advance, Phases
    <3>4. CASE ~Settle(l)
      <4>1. PICK to \in Live : phase' = [phase EXCEPT ![l] = to]
        BY <2>3, <3>4 DEF Turn, BeginInitialize, Classify, CompleteInitialize, Refuse,
              SkipCancelled, Dispatch, Reply, DispatchFails, Rescue, Advance, Live
      <4>2. FutureIsUnread'
        BY <3>2, <4>1 DEF Live, Phases
      <4>3. inFlight' = inFlight
        BY <2>3, <3>4 DEF Turn, BeginInitialize, Classify, CompleteInitialize, Refuse,
              SkipCancelled, Dispatch, Reply, DispatchFails, Rescue, coordVars
      <4>4. InFlightIsExact'
        BY <3>1, <4>1, <4>3, TasksKept DEF InFlightIsExact, HasKey
      <4>5. SilentUntilWritten' /\ AnsweredAtMostOnce'
        <5>1. CASE wire' = wire
          BY <2>3, <3>4, <5>1 DEF SilentUntilWritten, AnsweredAtMostOnce, TypeOK, Turn,
                BeginInitialize, Classify, CompleteInitialize, Refuse, SkipCancelled, Dispatch,
                Reply, DispatchFails, Rescue, Advance, GateIsAt
        <5>2. CASE CompleteInitialize(l) \/ Refuse(l) \/ Reply(l) \/ Rescue(l)
          <6>1. wire[l] = <<>> /\ phase' = [phase EXCEPT ![l] = "emitted"]
            BY <5>2 DEF CompleteInitialize, Refuse, Reply, Rescue, Advance, SilentUntilWritten
          <6>2. PICK kind, nonNull : Emit(l, kind, nonNull)
            BY <5>2 DEF CompleteInitialize, Refuse, Reply, Rescue
          <6>3. /\ AnsweredAtMostOnce'
                /\ \A k \in Lines \ {l} : wire'[k] = wire[k]
            BY <6>1, <6>2, EmitOnce
          <6>4. QED
            BY <6>1, <6>3 DEF SilentUntilWritten, TypeOK
        <5>3. QED
          BY <2>3, <3>4, <5>1, <5>2 DEF Turn, BeginInitialize, Classify, SkipCancelled, Dispatch,
                DispatchFails
      <4>6. QED
        BY <4>2, <4>4, <4>5
    <3>5. QED
      BY <3>3, <3>4
  <2>4. CASE EndOfInput \/ WaitForTasks
    BY <2>4 DEF EndOfInput, WaitForTasks, coordVars, FutureIsUnread, SilentUntilWritten,
                AnsweredAtMostOnce, InFlightIsExact, Tasks, HasKey
  <2>5. QED
    BY <2>1, <2>2, <2>3, <2>4 DEF Next, Closed
<1>3. QED
  BY <1>1, <1>2, TypeCorrect, PTL DEF Spec

\* No request is answered twice by the gate, its task and the catch clause.
THEOREM AtMostOneAnswer == Spec => []AnsweredAtMostOnce
<1>1. LedgerInv => AnsweredAtMostOnce
  BY DEF LedgerInv
<1>2. QED
  BY <1>1, LedgerInvariant, PTL

\* The cancellation map is exact in every state, for any reuse of ids.
THEOREM InFlightExact == Spec => []InFlightIsExact
<1>1. LedgerInv => InFlightIsExact
  BY DEF LedgerInv
<1>2. QED
  BY <1>1, LedgerInvariant, PTL

-----------------------------------------------------------------------------
(***************************************************************************)
(* What each kind of step does, in the terms the invariants below are      *)
(* about: who reads a line, who writes a response, who aborts.             *)
(***************************************************************************)
\* Reading a line touches that line alone, which was unread and blank.
LEMMA AcceptFrame ==
    ASSUME LedgerInv, NEW l \in Lines, Accept(l)
    PROVE  /\ life = "open" /\ received' = l /\ received < l /\ received = l - 1
           /\ phase[l] = "unread" /\ wire[l] = <<>>
           /\ phase' \in {[phase EXCEPT ![l] = "settled"], [phase EXCEPT ![l] = "queued"]}
           /\ \A k \in Lines \ {l} : line'[k] = line[k]
           /\ phase'[l] = "settled" => line' = line
           /\ \A k \in Lines \ {l} : wire'[k] = wire[k]
           /\ wire'[l] \in {<<>>, <<"parse-error">>}
           /\ era' = era /\ version' = version /\ admission' = admission /\ life' = life
           /\ aborted \subseteq aborted'
<1> USE DEF LedgerInv
<1>1. NextLine(l) /\ received' = l
  BY DEF Accept, AcceptGarbage, AcceptRequest, AcceptUnkeyed, AcceptCancellation,
         AcceptInexactCancellation, TakeTicket
<1>2. phase[l] = "unread" /\ wire[l] = <<>> /\ received < l /\ received = l - 1
  <2>1. received \in Nat /\ l \in Nat /\ l = received + 1
    BY <1>1 DEF NextLine, TypeOK, Lines
  <2>2. received < l /\ received = l - 1
    BY <2>1
  <2>3. phase[l] = "unread"
    BY <2>2 DEF FutureIsUnread
  <2>4. QED
    BY <2>2, <2>3 DEF SilentUntilWritten
<1>3. /\ phase' \in {[phase EXCEPT ![l] = "settled"], [phase EXCEPT ![l] = "queued"]}
      /\ phase' = [phase EXCEPT ![l] = "settled"] => line' = line
      /\ era' = era /\ version' = version /\ admission' = admission /\ life' = life
      /\ aborted \subseteq aborted'
  <2>1. phase' = [phase EXCEPT ![l] = "queued"] => phase' # [phase EXCEPT ![l] = "settled"]
    BY DEF TypeOK
  <2>2. QED
    BY <2>1 DEF Accept, AcceptGarbage, AcceptRequest, AcceptUnkeyed, AcceptCancellation,
         AcceptInexactCancellation, TakeTicket, coordVars, drainVars
<1>4. wire' \in {wire, [wire EXCEPT ![l] = Append(@, "parse-error")]}
  BY DEF Accept, AcceptGarbage, AcceptRequest, AcceptUnkeyed, AcceptCancellation,
         AcceptInexactCancellation, TakeTicket
<1>5. \A k \in Lines \ {l} : line'[k] = line[k]
  BY DEF Accept, AcceptGarbage, AcceptRequest, AcceptUnkeyed, AcceptCancellation,
         AcceptInexactCancellation, TakeTicket, TypeOK
<1>6. /\ \A k \in Lines \ {l} : wire'[k] = wire[k]
      /\ wire'[l] \in {<<>>, Append(<<>>, "parse-error")}
  BY <1>2, <1>4 DEF TypeOK
<1>7. Append(<<>>, "parse-error") = <<"parse-error">>
  OBVIOUS
<1>8. phase'[l] = "settled" => line' = line
  BY <1>3 DEF TypeOK
<1>9. QED
  BY <1>1, <1>2, <1>3, <1>5, <1>6, <1>7, <1>8 DEF NextLine

\* A turn of a chain moves that line alone, and writes for it at most once.
LEMMA TurnFrame ==
    ASSUME LedgerInv, NEW l \in Lines, Turn(l)
    PROVE  /\ received' = received /\ line' = line /\ aborted' = aborted
           /\ revoked' = revoked /\ life' = life
           /\ phase[l] \in Live /\ phase[l] # "settled" /\ phase[l] # "unread"
           /\ \E to \in Phases \ {"unread", "queued"} : phase' = [phase EXCEPT ![l] = to]
           /\ \A k \in Lines \ {l} : /\ phase'[k] = phase[k] /\ wire'[k] = wire[k]
                                     /\ admission'[k] = admission[k]
           /\ l \in aborted => wire' = wire
<1> USE DEF LedgerInv
<1>1. /\ received' = received /\ line' = line /\ aborted' = aborted
      /\ revoked' = revoked /\ life' = life
  BY DEF Turn, BeginInitialize, Classify, CompleteInitialize, Refuse, SkipCancelled, Dispatch,
         Reply, DispatchFails, Rescue, Settle, Advance, coordVars, drainVars
<1>2. phase[l] \in Live /\ phase[l] # "settled" /\ phase[l] # "unread"
  BY DEF Turn, BeginInitialize, Classify, CompleteInitialize, Refuse, SkipCancelled, Dispatch,
         Reply, DispatchFails, Rescue, Settle, Advance, GateIsAt, Live
<1>3. \E to \in Phases \ {"unread", "queued"} : phase' = [phase EXCEPT ![l] = to]
  BY DEF Turn, BeginInitialize, Classify, CompleteInitialize, Refuse, SkipCancelled, Dispatch,
         Reply, DispatchFails, Rescue, Settle, Advance, Phases
<1>4. wire' = wire \/ \E kind : l \notin aborted /\ wire' = [wire EXCEPT ![l] = Append(@, kind)]
  BY DEF Turn, BeginInitialize, Classify, CompleteInitialize, Refuse, SkipCancelled, Dispatch,
         Reply, DispatchFails, Rescue, Settle, Emit
<1>5. admission' = admission \/ admission' = [admission EXCEPT ![l] = Verdict(l)]
  BY DEF Turn, BeginInitialize, Classify, CompleteInitialize, Refuse, SkipCancelled, Dispatch,
         Reply, DispatchFails, Rescue, Settle, Advance
<1>6. QED
  BY <1>1, <1>2, <1>3, <1>4, <1>5 DEF TypeOK

\* Closing down touches no line.
LEMMA DrainFrame ==
    ASSUME EndOfInput \/ WaitForTasks \/ UNCHANGED vars
    PROVE  UNCHANGED <<era, version, received, line, phase, admission, aborted, revoked,
                       inFlight, wire>>
BY DEF EndOfInput, WaitForTasks, coordVars, vars

-----------------------------------------------------------------------------
(***************************************************************************)
(* Answers and cancellations.  Only well-formed requests carry a key, so   *)
(* whichever writer ends the chain of one has a response to write; and a   *)
(* revoked line is aborted or already over.  The second part is what       *)
(* InFlightIsExact is for: a cancellation reaches a request through the    *)
(* map, and one the map had lost would go on to answer.                    *)
(***************************************************************************)
UnreadIsBlank == \A l \in Lines : phase[l] = "unread" => line[l] = NoLine

KeyedIsRequest == \A l \in Lines : HasKey(l) => line[l].msg.valid /\ line[l].msg.hasId

DoneIsAnswered ==
    \A l \in Lines : phase[l] \in {"emitted", "settled"} /\ HasKey(l) /\ l \notin aborted
                         => Len(wire[l]) = 1

RevokedIsSilenced ==
    \A l \in revoked :
        /\ phase[l] # "unread"
        /\ line[l].id \notin InexactIds => l \in aborted \/ phase[l] = "settled"

AnswerInv ==
    /\ UnreadIsBlank
    /\ KeyedIsRequest
    /\ DoneIsAnswered
    /\ RevokedIsSilenced

LEMMA AnswerInvariant == Spec => []AnswerInv
<1>1. Init => AnswerInv
  BY DEF Init, AnswerInv, UnreadIsBlank, KeyedIsRequest, DoneIsAnswered, RevokedIsSilenced,
         HasKey, NoLine
<1>2. AnswerInv /\ LedgerInv /\ LedgerInv' /\ [Next]_vars => AnswerInv'
  <2> SUFFICES ASSUME AnswerInv, LedgerInv, LedgerInv', [Next]_vars PROVE AnswerInv'
    OBVIOUS
  <2> USE DEF AnswerInv
  <2>0. TypeOK /\ TypeOK'
    BY DEF LedgerInv
  <2>1. ASSUME NEW l \in Lines, Accept(l) PROVE AnswerInv'
    <3>0. /\ phase[l] = "unread" /\ wire[l] = <<>> /\ aborted \subseteq aborted'
          /\ phase' \in {[phase EXCEPT ![l] = "settled"], [phase EXCEPT ![l] = "queued"]}
          /\ \A k \in Lines \ {l} : line'[k] = line[k] /\ wire'[k] = wire[k]
          /\ phase'[l] = "settled" => line' = line
      BY <2>1, AcceptFrame
    <3>1. /\ line[l] = NoLine /\ phase'[l] # "unread"
          /\ \A k \in Lines \ {l} : phase'[k] = phase[k]
      BY <2>0, <3>0 DEF UnreadIsBlank, TypeOK
    <3>2. UnreadIsBlank'
      BY <3>0, <3>1 DEF UnreadIsBlank
    <3>3. KeyedIsRequest'
      <4>1. HasKey(l)' => line'[l].msg.valid /\ line'[l].msg.hasId
        <5>1. CASE \E m \in Inputs, id \in Ids : AcceptRequest(l, m, id)
          BY <2>0, <5>1 DEF AcceptRequest, TakeTicket, TypeOK
        <5>2. CASE ~\E m \in Inputs, id \in Ids : AcceptRequest(l, m, id)
          <6>1. line'[l].id = None
            BY <2>0, <2>1, <3>1, <5>2 DEF Accept, AcceptGarbage, AcceptUnkeyed, AcceptCancellation,
                  AcceptInexactCancellation, TakeTicket, TypeOK, NoLine
          <6>2. QED
            BY <6>1 DEF HasKey
        <5>3. QED
          BY <5>1, <5>2
      <4>2. \A k \in Lines \ {l} : HasKey(k)' => HasKey(k)
        BY <3>0 DEF HasKey
      <4>3. QED
        BY <3>0, <4>1, <4>2 DEF KeyedIsRequest
    <3>4. DoneIsAnswered'
      <4>1. phase'[l] \in {"emitted", "settled"} => ~HasKey(l)'
        <5>1. phase'[l] \in {"settled", "queued"}
          BY <2>0, <3>0 DEF TypeOK
        <5>2. phase'[l] = "settled" => line'[l] = NoLine
          BY <3>0, <3>1
        <5>3. QED
          BY <5>1, <5>2 DEF HasKey, NoLine
      <4>2. \A k \in Lines \ {l} : HasKey(k)' <=> HasKey(k)
        BY <3>0 DEF HasKey
      <4>3. QED
        BY <3>0, <3>1, <4>1, <4>2 DEF DoneIsAnswered
    <3>5. RevokedIsSilenced'
      <4> SUFFICES ASSUME NEW k \in revoked'
                   PROVE  /\ phase'[k] # "unread"
                          /\ line'[k].id \notin InexactIds => k \in aborted' \/ phase'[k] = "settled"
        BY DEF RevokedIsSilenced
      <4>1. CASE k \in revoked
        <5>1. k \in Lines \ {l}
          BY <2>0, <3>0, <4>1 DEF RevokedIsSilenced, TypeOK
        <5>2. QED
          BY <3>0, <3>1, <4>1, <5>1 DEF RevokedIsSilenced
      <4>2. CASE k \notin revoked
        <5>1. PICK id \in Ids : /\ AcceptCancellation(l, id) \/ AcceptInexactCancellation(l, id)
                                /\ Revoke(id)
          BY <2>1, <4>2 DEF Accept, AcceptGarbage, AcceptRequest, AcceptUnkeyed, AcceptCancellation,
                AcceptInexactCancellation
        <5>2. k \in Tasks /\ line[k].id = id /\ id # None
          BY <4>2, <5>1, IdsAssumption DEF Revoke
        <5>3. k \in Lines \ {l} /\ phase'[k] # "unread" /\ line'[k] = line[k]
          BY <3>0, <3>1, <5>2 DEF Tasks, Live
        <5>4. ASSUME AcceptCancellation(l, id) PROVE k \in aborted'
          <6>1. KeyOf(id) \in Keys
            BY DEF Keys
          <6>2. k \in inFlight[KeyOf(id)]
            BY <5>2, <6>1 DEF LedgerInv, InFlightIsExact, HasKey
          <6>3. QED
            BY <5>4, <6>2 DEF AcceptCancellation
        <5>5. AcceptInexactCancellation(l, id) => line'[k].id \in InexactIds
          BY <5>2, <5>3 DEF AcceptInexactCancellation
        <5>6. QED
          BY <5>1, <5>3, <5>4, <5>5
      <4>3. QED
        BY <4>1, <4>2
    <3>6. QED
      BY <3>2, <3>3, <3>4, <3>5
  <2>2. ASSUME NEW l \in Lines, Turn(l) PROVE AnswerInv'
    <3>0. /\ line' = line /\ aborted' = aborted /\ revoked' = revoked
          /\ phase[l] # "settled" /\ phase[l] # "unread" /\ phase'[l] # "unread"
          /\ \A k \in Lines \ {l} : phase'[k] = phase[k] /\ wire'[k] = wire[k]
          /\ HasKey(l)' <=> HasKey(l)
      BY <2>0, <2>2, TurnFrame DEF TypeOK, HasKey
    <3>1. UnreadIsBlank'
      BY <3>0 DEF UnreadIsBlank
    <3>2. KeyedIsRequest'
      BY <3>0 DEF KeyedIsRequest, HasKey
    <3>3. ASSUME phase'[l] \in {"emitted", "settled"}, HasKey(l), l \notin aborted
          PROVE  Len(wire'[l]) = 1
      <4>1. line[l].msg.hasId
        BY <3>3 DEF KeyedIsRequest
      <4>2. CASE Settle(l)
        BY <2>0, <3>3, <4>2 DEF Settle, Advance, DoneIsAnswered, TypeOK
      <4>3. CASE CompleteInitialize(l) \/ Refuse(l) \/ Reply(l) \/ Rescue(l)
        <5>1. wire[l] = <<>>
          BY <4>3 DEF LedgerInv, SilentUntilWritten, CompleteInitialize, Refuse, Reply, Rescue,
                Advance
        <5>2. \E kind : Emit(l, kind, TRUE)
          <6>1. ReplyKind(line[l].msg, admission[l].era) # None
            BY <4>1, NoneAssumption DEF ReplyKind
          <6>2. RefusalIsAnswered(line[l].msg)
            BY <4>1 DEF RefusalIsAnswered
          <6>3. CASE CompleteInitialize(l) \/ Reply(l)
            BY <6>1, <6>3 DEF CompleteInitialize, Reply, Emit
          <6>4. CASE Refuse(l)
            BY <6>2, <6>4 DEF Refuse, Emit
          <6>5. CASE Rescue(l)
            BY <6>5 DEF Rescue
          <6>6. QED
            BY <4>3, <6>3, <6>4, <6>5
        <5>3. PICK kind : wire'[l] = Append(<<>>, kind)
          BY <2>0, <3>3, <5>1, <5>2 DEF Emit, TypeOK
        <5>4. Len(Append(<<>>, kind)) = 1
          OBVIOUS
        <5>5. QED
          BY <5>3, <5>4
      <4>4. QED
        BY <2>0, <2>2, <3>3, <4>2, <4>3 DEF Turn, BeginInitialize, Classify, SkipCancelled,
              Dispatch, DispatchFails, Advance, TypeOK
    <3>4. DoneIsAnswered'
      BY <3>0, <3>3 DEF DoneIsAnswered, HasKey
    <3>5. RevokedIsSilenced'
      BY <2>0, <3>0 DEF RevokedIsSilenced, TypeOK
    <3>6. QED
      BY <3>1, <3>2, <3>4, <3>5
  <2>3. CASE EndOfInput \/ WaitForTasks \/ UNCHANGED vars
    BY <2>3, DrainFrame DEF UnreadIsBlank, KeyedIsRequest, DoneIsAnswered, RevokedIsSilenced,
          HasKey
  <2>4. QED
    BY <2>1, <2>2, <2>3 DEF Next, Closed
<1>3. QED
  BY <1>1, <1>2, LedgerInvariant, PTL DEF Spec

\* Every request that was not cancelled is answered by the time its chain has
\* settled, on every path through the gate, its task and the catch clause.
THEOREM KeyedRequestsAnswered == Spec => []EveryKeyedRequestIsAnswered
<1>1. AnswerInv => EveryKeyedRequestIsAnswered
  BY DEF AnswerInv, DoneIsAnswered, EveryKeyedRequestIsAnswered
<1>2. QED
  BY <1>1, AnswerInvariant, PTL

\* Nothing is written for a request once the client has cancelled its exact id.
THEOREM CancelledIsSilent == Spec => NoAnswerAfterCancel
<1>1. AnswerInv /\ LedgerInv /\ [Next]_vars
        => [\A l \in revoked : line[l].id \notin InexactIds => wire'[l] = wire[l]]_vars
  <2> SUFFICES ASSUME AnswerInv, LedgerInv, Next,
                      NEW l \in revoked, line[l].id \notin InexactIds
               PROVE  wire'[l] = wire[l]
    BY DEF vars
  <2>1. /\ l \in Lines /\ phase[l] # "unread"
        /\ l \in aborted \/ phase[l] = "settled"
    BY DEF AnswerInv, RevokedIsSilenced, LedgerInv, TypeOK
  <2>2. ASSUME NEW k \in Lines, Accept(k) PROVE wire'[l] = wire[l]
    BY <2>1, <2>2, AcceptFrame
  <2>3. ASSUME NEW k \in Lines, Turn(k) PROVE wire'[l] = wire[l]
    BY <2>1, <2>3, TurnFrame
  <2>4. CASE EndOfInput \/ WaitForTasks \/ UNCHANGED vars
    BY <2>4, DrainFrame
  <2>5. QED
    BY <2>2, <2>3, <2>4 DEF Next, Closed
<1>2. QED
  BY <1>1, AnswerInvariant, LedgerInvariant, PTL DEF Spec, NoAnswerAfterCancel

-----------------------------------------------------------------------------
(***************************************************************************)
(* The order of the gate.  A line that has its admission is behind no line *)
(* still in the gate, so an initialize in the gate keeps the era unchosen, *)
(* and once a line has pinned the era every line after it was, or will be, *)
(* admitted in that era.                                                   *)
(***************************************************************************)
PastIsRead == \A l \in Lines : phase[l] = "unread" => received < l

NotYetAdmitted == \A l \in Lines : phase[l] \in {"unread", "queued"} => admission[l] = Unread

AdmittedInOrder ==
    \A i, j \in Lines : i < j /\ admission[j] # Unread
                            => phase[i] \notin {"unread", "queued", "initializing"}

GateHeld ==
    \A l \in Lines : phase[l] = "initializing" =>
        /\ era = None
        /\ line[l].msg.method = "initialize"
        /\ admission[l].verdict = "admitted" /\ admission[l].era \in Eras

\* Line l stands for the era of the connection: a modern request other than
\* initialize, an initialize that was answered, or one that will be.
PinsEra(l) ==
    IF line[l].msg.method = "initialize"
    THEN \/ phase[l] = "classified" /\ admission[l].verdict = "admitted"
         \/ phase[l] = "dispatched"
         \/ wire[l] = <<"result">>
    ELSE admission[l].era = "modern"

PinnedIsChosen == \A l \in Lines : PinsEra(l) => era # None /\ admission[l].era = era

FollowersAgree ==
    \A i, j \in Lines : i < j /\ PinsEra(i) /\ admission[j].verdict = "admitted"
                            => admission[j].era = admission[i].era

AnsweredAsLegacy ==
    \A l \in Lines : wire[l] = <<"result">> /\ line[l].msg.method = "initialize"
                         => admission[l].era = "legacy"

GateInv ==
    /\ PastIsRead
    /\ NotYetAdmitted
    /\ AdmittedInOrder
    /\ GateHeld
    /\ PinnedIsChosen
    /\ FollowersAgree
    /\ AnsweredAsLegacy

\* Where an era is pinned the gate admits in that era, and in no era a refused line.
LEMMA VerdictEra ==
    ASSUME TypeOK, NEW l \in Lines
    PROVE  /\ Verdict(l).verdict = "admitted" => /\ Verdict(l).era \in Eras
                                                 /\ era # None => Verdict(l).era = era
           /\ Verdict(l).verdict # "admitted" => Verdict(l).era = None
           /\ Verdict(l).verdict \in {"admitted", "refused"}
<1>1. Verdict(l).verdict = "admitted" => Verdict(l) \in [verdict : {"admitted"}, era : Eras]
  BY AdmittedEra
<1>2. QED
  BY <1>1, AdmittedEra DEF Verdict

\* A line at the gate is read, and behind no line in the gate.
LEMMA GateOrder ==
    ASSUME LedgerInv, GateInv, NEW l \in Lines, GateIsAt(l)
    PROVE  /\ admission[l] = Unread /\ ~PinsEra(l)
           /\ \A i \in Lines : i < l => phase[i] \notin {"unread", "queued", "initializing"}
           /\ \A j \in Lines : l < j => admission[j] = Unread
           /\ \A j \in Lines : phase[j] # "initializing"
<1> USE DEF LedgerInv, GateInv
<1>1. phase[l] = "queued" /\ admission[l] = Unread /\ wire[l] = <<>>
  BY DEF GateIsAt, NotYetAdmitted, SilentUntilWritten
<1>2. ~PinsEra(l)
  BY <1>1, SentinelsAreNotVersions DEF PinsEra, Unread
<1>3. \A i \in Lines : i < l => phase[i] \notin {"unread", "queued", "initializing"}
  <2> SUFFICES ASSUME NEW i \in Lines, i < l PROVE phase[i] \notin {"unread", "queued", "initializing"}
    OBVIOUS
  <2>1. ~(received < l)
    BY <1>1 DEF FutureIsUnread
  <2>2. ~(received < i)
    BY <2>1 DEF TypeOK
  <2>3. QED
    BY <2>2 DEF PastIsRead, GateIsAt
<1>4. \A j \in Lines : l < j => admission[j] = Unread
  BY <1>1 DEF AdmittedInOrder
<1>5. \A j \in Lines : phase[j] # "initializing"
  <2> SUFFICES ASSUME NEW j \in Lines, phase[j] = "initializing" PROVE FALSE
    OBVIOUS
  <2>1. j # l /\ admission[j] # Unread
    BY <1>1, SentinelsAreNotVersions DEF GateHeld, Unread, Eras
  <2>2. QED
    BY <1>3, <1>4, <2>1
<1>6. QED
  BY <1>1, <1>2, <1>3, <1>4, <1>5

\* Reading a line pins nothing.
LEMMA AcceptKeepsGate ==
    ASSUME LedgerInv, GateInv, LedgerInv', NEW l \in Lines, Accept(l)
    PROVE  GateInv'
<1> USE DEF GateInv
<1>0. TypeOK /\ TypeOK'
  BY DEF LedgerInv
<1>1. /\ received' = l /\ received = l - 1 /\ phase[l] = "unread"
      /\ phase'[l] \in {"settled", "queued"}
      /\ era' = era /\ admission' = admission
      /\ \A k \in Lines \ {l} : line'[k] = line[k] /\ wire'[k] = wire[k] /\ phase'[k] = phase[k]
      /\ wire'[l] \in {<<>>, <<"parse-error">>}
  <2>1. /\ received' = l /\ received = l - 1 /\ phase[l] = "unread"
        /\ phase' \in {[phase EXCEPT ![l] = "settled"], [phase EXCEPT ![l] = "queued"]}
        /\ era' = era /\ admission' = admission
        /\ \A k \in Lines \ {l} : line'[k] = line[k] /\ wire'[k] = wire[k]
        /\ wire'[l] \in {<<>>, <<"parse-error">>}
    BY AcceptFrame
  <2>2. phase'[l] \in {"settled", "queued"} /\ \A k \in Lines \ {l} : phase'[k] = phase[k]
    BY <1>0, <2>1 DEF TypeOK
  <2>3. QED
    BY <2>1, <2>2
<1>2. admission[l] = Unread /\ admission'[l].era # "modern"
  <2>1. admission[l] = Unread
    BY <1>1 DEF NotYetAdmitted
  <2>2. None # "modern"
    BY SentinelsAreNotVersions
  <2>3. Unread.era = None
    BY DEF Unread
  <2>4. QED
    BY <1>1, <2>1, <2>2, <2>3
<1>3. wire'[l] # <<"result">>
  <2>1. <<>> # <<"result">> /\ <<"parse-error">> # <<"result">>
    OBVIOUS
  <2>2. QED
    BY <1>1, <2>1
<1>4. ~PinsEra(l)' /\ \A k \in Lines \ {l} : PinsEra(k)' <=> PinsEra(k)
  BY <1>1, <1>2, <1>3 DEF PinsEra
<1>5. PastIsRead'
  <2> SUFFICES ASSUME NEW k \in Lines, phase'[k] = "unread" PROVE received' < k
    BY DEF PastIsRead
  <2>1. k # l /\ received < k
    BY <1>1 DEF PastIsRead
  <2>2. QED
    BY <1>1, <2>1
<1>6. NotYetAdmitted'
  BY <1>1, <1>2 DEF NotYetAdmitted
<1>7. AdmittedInOrder'
  BY <1>1 DEF AdmittedInOrder
<1>8. GateHeld'
  BY <1>1 DEF GateHeld
<1>9. PinnedIsChosen'
  BY <1>1, <1>4 DEF PinnedIsChosen
<1>10. FollowersAgree'
  BY <1>1, <1>4 DEF FollowersAgree
<1>11. AnsweredAsLegacy'
  BY <1>1, <1>3 DEF AnsweredAsLegacy
<1>12. QED
  BY <1>5, <1>6, <1>7, <1>8, <1>9, <1>10, <1>11

\* The two turns of the gate: the line they admit follows every line admitted
\* before it, and precedes every line that is not.
LEMMA AdmissionKeepsGate ==
    ASSUME LedgerInv, GateInv, LedgerInv', NEW l \in Lines,
           BeginInitialize(l) \/ Classify(l)
    PROVE  GateInv'
<1> USE DEF GateInv
<1>0. TypeOK /\ TypeOK' /\ GateIsAt(l) /\ wire[l] = <<>> /\ <<>> # <<"result">>
  BY DEF LedgerInv, BeginInitialize, Classify, GateIsAt, SilentUntilWritten
<1>1. /\ admission[l] = Unread
      /\ \A i \in Lines : i < l => phase[i] \notin {"unread", "queued", "initializing"}
      /\ \A j \in Lines : l < j => admission[j] = Unread
      /\ \A j \in Lines : phase[j] # "initializing"
  BY <1>0, GateOrder
<1>2. /\ received' = received /\ line' = line /\ wire' = wire
      /\ \A k \in Lines \ {l} : phase'[k] = phase[k] /\ admission'[k] = admission[k]
      /\ phase'[l] \in {"emitted", "initializing", "classified"}
      /\ admission'[l] = Verdict(l)
  BY <1>0 DEF BeginInitialize, Classify, TypeOK
<1>3. \A k \in Lines \ {l} : PinsEra(k)' <=> PinsEra(k)
  BY <1>2 DEF PinsEra
<1>4. PastIsRead' /\ NotYetAdmitted' /\ AnsweredAsLegacy'
  <2>1. PastIsRead'
    BY <1>2 DEF PastIsRead
  <2>2. NotYetAdmitted'
    BY <1>2 DEF NotYetAdmitted
  <2>3. AnsweredAsLegacy'
    BY <1>0, <1>2 DEF AnsweredAsLegacy
  <2>4. QED
    BY <2>1, <2>2, <2>3
<1>5. AdmittedInOrder'
  BY <1>1, <1>2 DEF AdmittedInOrder
<1>6. CASE BeginInitialize(l)
  <2>1. era = None /\ era' = era /\ line[l].msg.method = "initialize"
    BY <1>6 DEF BeginInitialize, IsInitialize, coordVars
  <2>2. admission'[l].verdict = "admitted" /\ admission'[l].era \in Eras
    BY <1>0, <1>2, <1>6, VerdictEra DEF BeginInitialize
  <2>3. GateHeld'
    BY <1>1, <1>2, <2>1, <2>2 DEF GateHeld
  <2>4. phase'[l] \in {"emitted", "initializing"}
    BY <1>0, <1>6 DEF BeginInitialize, TypeOK
  <2>5. \A k \in Lines : ~PinsEra(k)'
    BY <1>0, <1>2, <1>3, <2>1, <2>4 DEF PinsEra, PinnedIsChosen
  <2>6. QED
    BY <1>4, <1>5, <2>3, <2>5 DEF PinnedIsChosen, FollowersAgree
<1>7. CASE Classify(l)
  <2>1. /\ phase'[l] = "classified"
        /\ ~(IsInitialize(l) /\ Verdict(l).verdict = "admitted")
        /\ era' = IF era = None /\ Verdict(l).era = "modern" THEN "modern" ELSE era
    BY <1>0, <1>7 DEF Classify, TypeOK
  <2>2. GateHeld'
    BY <1>1, <1>2, <2>1 DEF GateHeld
  <2>3. Verdict(l).era = "modern" => Verdict(l).verdict = "admitted"
    BY <1>0, VerdictEra, SentinelsAreNotVersions
  <2>4. PinsEra(l)' => era' # None /\ admission'[l].era = era'
    <3> SUFFICES ASSUME PinsEra(l)' PROVE era' # None /\ Verdict(l).era = era'
      BY <1>2
    <3>1. Verdict(l).verdict = "admitted"
      BY <1>0, <1>2, <2>1, <2>3 DEF PinsEra
    <3>2. CASE era # None
      BY <1>0, <2>1, <3>1, <3>2, VerdictEra
    <3>3. CASE era = None
      <4>1. line[l].msg.method # "initialize"
        BY <2>1, <3>1, <3>3 DEF IsInitialize
      <4>2. Verdict(l).era = "modern"
        BY <1>2, <4>1 DEF PinsEra
      <4>3. QED
        BY <2>1, <3>3, <4>2, SentinelsAreNotVersions
    <3>4. QED
      BY <3>2, <3>3
  <2>5. \A k \in Lines \ {l} : PinsEra(k)' => era # None /\ era' = era /\ admission[k].era = era
    BY <1>3, <2>1 DEF PinnedIsChosen
  <2>6. PinnedIsChosen'
    BY <1>2, <2>4, <2>5 DEF PinnedIsChosen
  <2>7. FollowersAgree'
    <3> SUFFICES ASSUME NEW i \in Lines, NEW j \in Lines, i < j, PinsEra(i)',
                        admission'[j].verdict = "admitted"
                 PROVE  admission'[j].era = admission'[i].era
      BY DEF FollowersAgree
    <3>1. CASE i = l
      <4>1. admission'[j] = Unread
        BY <1>1, <1>2, <3>1
      <4>2. QED
        BY <4>1, NoneAssumption DEF Unread
    <3>2. CASE j = l
      BY <1>0, <1>2, <2>5, <3>2, VerdictEra
    <3>3. CASE i # l /\ j # l
      BY <1>2, <1>3, <3>3 DEF FollowersAgree
    <3>4. QED
      BY <3>1, <3>2, <3>3
  <2>8. QED
    BY <1>4, <1>5, <2>2, <2>6, <2>7
<1>8. QED
  BY <1>6, <1>7

\* The reply to initialize is the only step that pins the legacy era: no line
\* has an admission after the one it pins with.
LEMMA InitializeKeepsGate ==
    ASSUME LedgerInv, GateInv, LedgerInv', NEW l \in Lines, CompleteInitialize(l)
    PROVE  GateInv'
<1> USE DEF GateInv
<1>0. /\ TypeOK /\ TypeOK' /\ phase[l] = "initializing" /\ wire[l] = <<>>
      /\ era = None /\ line[l].msg.method = "initialize"
      /\ admission[l].verdict = "admitted" /\ admission[l].era \in Eras
  BY DEF LedgerInv, CompleteInitialize, SilentUntilWritten, GateHeld
<1>1. /\ received' = received /\ line' = line /\ admission' = admission
      /\ \A k \in Lines \ {l} : phase'[k] = phase[k] /\ wire'[k] = wire[k]
      /\ phase'[l] = "emitted"
  BY <1>0 DEF CompleteInitialize, Emit, TypeOK
<1>2. \A j \in Lines : phase[j] = "initializing" => j = l
  <2> SUFFICES ASSUME NEW j \in Lines, phase[j] = "initializing", j # l PROVE FALSE
    OBVIOUS
  <2>1. admission[l] # Unread /\ admission[j] # Unread
    BY <1>0, NoneAssumption DEF GateHeld, Unread
  <2>2. j < l \/ l < j
    OBVIOUS
  <2>3. QED
    BY <1>0, <2>1, <2>2 DEF AdmittedInOrder
<1>3. \A k \in Lines \ {l} : ~PinsEra(k)'
  BY <1>0, <1>1 DEF PinsEra, PinnedIsChosen
<1>4. PastIsRead' /\ NotYetAdmitted' /\ AdmittedInOrder' /\ GateHeld'
  BY <1>1, <1>2 DEF PastIsRead, NotYetAdmitted, AdmittedInOrder, GateHeld
<1>5. wire'[l] = <<"result">> => era' = "legacy" /\ admission[l].era = "legacy"
  <2> DEFINE reply == ReplyKind(line[l].msg, admission[l].era)
  <2>1. wire'[l] = <<>> \/ (l \notin aborted /\ wire'[l] = Append(<<>>, reply))
    BY <1>0 DEF CompleteInitialize, Emit, TypeOK
  <2>2. Append(<<>>, reply) = <<"result">> => reply = "result"
    <3> HIDE DEF reply
    <3>1. Append(<<>>, reply)[1] = reply
      OBVIOUS
    <3>2. QED
      BY <3>1
  <2>3. reply = "result" /\ l \notin aborted => era' = "legacy"
    BY DEF CompleteInitialize
  <2>4. reply = "result" => admission[l].era = "legacy"
    BY <1>0, NoneAssumption DEF ReplyKind, Eras
  <2>5. QED
    BY <2>1, <2>2, <2>3, <2>4
<1>6. AnsweredAsLegacy' /\ PinnedIsChosen'
  <2>1. PinsEra(l)' => wire'[l] = <<"result">>
    BY <1>0, <1>1 DEF PinsEra
  <2>2. QED
    BY <1>1, <1>3, <1>5, <2>1, SentinelsAreNotVersions DEF AnsweredAsLegacy, PinnedIsChosen
<1>7. FollowersAgree'
  <2>1. \A j \in Lines : l < j => admission[j] = Unread
    BY <1>0 DEF AdmittedInOrder
  <2>2. QED
    BY <1>1, <1>3, <2>1, NoneAssumption DEF FollowersAgree, Unread
<1>8. QED
  BY <1>4, <1>6, <1>7

\* A task after the gate admits nothing and pins nothing new.
LEMMA TaskKeepsGate ==
    ASSUME LedgerInv, GateInv, LedgerInv', NEW l \in Lines,
           \/ Refuse(l) \/ SkipCancelled(l) \/ Dispatch(l) \/ Reply(l)
           \/ DispatchFails(l) \/ Rescue(l) \/ Settle(l)
    PROVE  GateInv'
<1> USE DEF GateInv
<1>0. TypeOK /\ TypeOK' /\ Turn(l)
  BY DEF LedgerInv, Turn
<1>1. /\ era' = era /\ received' = received /\ line' = line /\ admission' = admission
      /\ phase'[l] \in {"dispatched", "failed", "emitted", "settled"}
      /\ phase'[l] = "dispatched" => phase[l] = "classified" /\ admission[l].verdict = "admitted"
  BY <1>0 DEF Refuse, SkipCancelled, Dispatch, Reply, DispatchFails, Rescue, Settle, Advance,
          TypeOK
<1>2. \A k \in Lines \ {l} : phase'[k] = phase[k] /\ wire'[k] = wire[k]
  BY <1>0, TurnFrame
<1>3. PastIsRead' /\ NotYetAdmitted' /\ AdmittedInOrder' /\ GateHeld'
  BY <1>1, <1>2 DEF PastIsRead, NotYetAdmitted, AdmittedInOrder, GateHeld
<1>4. ASSUME wire'[l] = <<"result">>, wire[l] # <<"result">>
      PROVE  phase[l] = "dispatched" /\ ReplyKind(line[l].msg, admission[l].era) = "result"
  <2>1. wire' # wire
    BY <1>4
  <2>2. Refuse(l) \/ Reply(l) \/ Rescue(l)
    BY <2>1 DEF SkipCancelled, Dispatch, DispatchFails, Settle
  <2>3. wire[l] = <<>>
    BY <2>2 DEF LedgerInv, SilentUntilWritten, Refuse, Reply, Rescue, Advance
  <2>4. ASSUME NEW kind, Append(<<>>, kind) = <<"result">> PROVE kind = "result"
    <3>1. Append(<<>>, kind)[1] = kind
      OBVIOUS
    <3>2. QED
      BY <2>4, <3>1
  <2>5. ASSUME NEW kind, NEW nonNull, Emit(l, kind, nonNull) PROVE kind = "result"
    <3>1. wire'[l] = Append(<<>>, kind)
      BY <1>0, <2>1, <2>3, <2>5 DEF Emit, TypeOK
    <3>2. QED
      BY <1>4, <2>4, <3>1
  <2>6. ~Refuse(l) /\ ~Rescue(l)
    BY <2>5 DEF Refuse, Rescue
  <2>7. QED
    BY <2>2, <2>5, <2>6 DEF Reply, Advance
<1>5. \A k \in Lines : PinsEra(k)' => PinsEra(k)
  BY <1>1, <1>2, <1>4 DEF PinsEra
<1>6. PinnedIsChosen' /\ FollowersAgree'
  BY <1>1, <1>5 DEF PinnedIsChosen, FollowersAgree
<1>7. AnsweredAsLegacy'
  <2>1. ASSUME wire'[l] = <<"result">>, line[l].msg.method = "initialize"
        PROVE  admission[l].era = "legacy"
    <3>1. CASE wire[l] = <<"result">>
      BY <2>1, <3>1 DEF AnsweredAsLegacy
    <3>2. CASE wire[l] # <<"result">>
      <4>1. PinsEra(l) /\ ReplyKind(line[l].msg, admission[l].era) = "result"
        BY <1>4, <2>1, <3>2 DEF PinsEra
      <4>2. admission[l].era \in Eras
        BY <1>0, <4>1 DEF PinnedIsChosen, TypeOK
      <4>3. QED
        BY <2>1, <4>1, <4>2, NoneAssumption DEF ReplyKind, Eras
    <3>3. QED
      BY <3>1, <3>2
  <2>2. QED
    BY <1>1, <1>2, <2>1 DEF AnsweredAsLegacy
<1>8. QED
  BY <1>3, <1>6, <1>7

LEMMA GateInvariant == Spec => []GateInv
<1>1. Init => GateInv
  <2> SUFFICES ASSUME Init PROVE GateInv
    OBVIOUS
  <2>1. \A l \in Lines : ~PinsEra(l) /\ wire[l] # <<"result">>
    <3>1. <<>> # <<"result">>
      OBVIOUS
    <3>2. QED
      BY <3>1, SentinelsAreNotVersions DEF Init, PinsEra, Unread
  <2>2. QED
    BY <2>1 DEF Init, GateInv, PastIsRead, NotYetAdmitted, AdmittedInOrder, GateHeld,
          PinnedIsChosen, FollowersAgree, AnsweredAsLegacy
<1>2. GateInv /\ LedgerInv /\ LedgerInv' /\ [Next]_vars => GateInv'
  <2> SUFFICES ASSUME GateInv, LedgerInv, LedgerInv', [Next]_vars PROVE GateInv'
    OBVIOUS
  <2>1. ASSUME NEW l \in Lines, Accept(l) PROVE GateInv'
    BY <2>1, AcceptKeepsGate
  <2>2. ASSUME NEW l \in Lines, Turn(l) PROVE GateInv'
    BY <2>2, AdmissionKeepsGate, InitializeKeepsGate, TaskKeepsGate DEF Turn
  <2>3. CASE EndOfInput \/ WaitForTasks \/ UNCHANGED vars
    BY <2>3, DrainFrame DEF GateInv, PastIsRead, NotYetAdmitted, AdmittedInOrder, GateHeld,
          PinnedIsChosen, FollowersAgree, AnsweredAsLegacy, PinsEra
  <2>4. QED
    BY <2>1, <2>2, <2>3 DEF Next, Closed
<1>3. QED
  BY <1>1, <1>2, LedgerInvariant, PTL DEF Spec

\* Nothing that follows a successful initialize is served as modern, and nothing
\* that follows another modern request is served as legacy.
THEOREM EraIsKept == Spec => []LaterLinesKeepTheEra
<1>1. GateInv => LaterLinesKeepTheEra
  BY DEF GateInv, LaterLinesKeepTheEra, FollowersAgree, AnsweredAsLegacy, PinsEra
<1>2. QED
  BY <1>1, GateInvariant, PTL

-----------------------------------------------------------------------------
(***************************************************************************)
(* The coordinator implements the connection contract, one step at a time. *)
(* VersionWithEra makes the choice of an era and a revision a single step  *)
(* away from NoEra.                                                        *)
(***************************************************************************)
VersionWithEra == era = None => version = None

LEMMA VersionInvariant == Spec => []VersionWithEra
<1>1. Init => VersionWithEra
  BY DEF Init, VersionWithEra
<1>2. VersionWithEra /\ LedgerInv /\ [Next]_vars => VersionWithEra'
  <2> SUFFICES ASSUME VersionWithEra, LedgerInv, [Next]_vars PROVE VersionWithEra'
    OBVIOUS
  <2>1. ASSUME NEW l \in Lines, Accept(l) PROVE VersionWithEra'
    BY <2>1, AcceptFrame DEF VersionWithEra
  <2>2. ASSUME NEW l \in Lines, Turn(l) PROVE VersionWithEra'
    BY <2>2, SentinelsAreNotVersions DEF VersionWithEra, Turn, BeginInitialize, Classify,
          CompleteInitialize, Refuse, SkipCancelled, Dispatch, Reply, DispatchFails, Rescue,
          Settle, Advance, coordVars
  <2>3. CASE EndOfInput \/ WaitForTasks \/ UNCHANGED vars
    BY <2>3, DrainFrame DEF VersionWithEra
  <2>4. QED
    BY <2>1, <2>2, <2>3 DEF Next, Closed
<1>3. QED
  BY <1>1, <1>2, LedgerInvariant, PTL DEF Spec

\* The contract's view of a line and of its answers.
ExchangeState == [l \in Lines |-> IF phase[l] = "unread" THEN "new"
                                  ELSE IF phase[l] = "settled" THEN "closed" ELSE "open"]
Answers == [l \in Lines |-> Len(wire[l])]

\* Only the line a step is about changes in the contract's view.
LEMMA ViewOfOne ==
    ASSUME NEW l \in Lines,
           \A k \in Lines \ {l} : phase'[k] = phase[k] /\ wire'[k] = wire[k]
    PROVE  /\ ExchangeState' = [ExchangeState EXCEPT ![l] = ExchangeState'[l]]
           /\ Answers' = [Answers EXCEPT ![l] = Len(wire'[l])]
BY DEF ExchangeState, Answers

\* Reading a line opens an exchange, or is over at once.
LEMMA AcceptIsContract ==
    ASSUME LedgerInv, LedgerInv', NEW l \in Lines, Accept(l)
    PROVE  Contract!Open(l) \/ Contract!Control(l)
<1>0. TypeOK /\ TypeOK'
  BY DEF LedgerInv
<1>1. /\ phase[l] = "unread" /\ wire[l] = <<>>
      /\ phase' \in {[phase EXCEPT ![l] = "settled"], [phase EXCEPT ![l] = "queued"]}
      /\ \A k \in Lines \ {l} : wire'[k] = wire[k]
      /\ wire'[l] \in {<<>>, <<"parse-error">>}
      /\ life = "open" /\ life' = life /\ era' = era /\ version' = version
  BY AcceptFrame
<1>2. /\ phase'[l] \in {"settled", "queued"}
      /\ \A k \in Lines \ {l} : phase'[k] = phase[k]
  BY <1>0, <1>1 DEF TypeOK
<1>3. /\ ExchangeState' = [ExchangeState EXCEPT ![l] = ExchangeState'[l]]
      /\ Answers' = [Answers EXCEPT ![l] = Len(wire'[l])]
  BY <1>1, <1>2, ViewOfOne
<1>4. ExchangeState[l] = "new" /\ Answers[l] = 0
  BY <1>1 DEF ExchangeState, Answers
<1>5. CASE phase'[l] = "queued"
  <2>1. ExchangeState'[l] = "open"
    BY <1>5 DEF ExchangeState
  <2>2. wire' = wire /\ aborted' = aborted
    BY <1>0, <1>5 DEF Accept, AcceptGarbage, AcceptRequest, AcceptUnkeyed, AcceptCancellation,
          AcceptInexactCancellation, TakeTicket, TypeOK
  <2>3. Answers' = Answers
    BY <2>2 DEF Answers
  <2>4. Contract!Open(l)
    BY <1>1, <1>3, <1>4, <2>1, <2>2, <2>3 DEF Contract!Open, ExchangeState, Answers
  <2>5. QED
    BY <2>4
<1>6. CASE phase'[l] = "settled"
  <2>1. ExchangeState'[l] = "closed"
    BY <1>6 DEF ExchangeState
  <2>2. Answers' \in {Answers, [Answers EXCEPT ![l] = 1]}
    <3>1. Len(<<>>) = 0 /\ Len(<<"parse-error">>) = 1
      OBVIOUS
    <3>2. [Answers EXCEPT ![l] = 0] = Answers
      BY <1>4 DEF Answers
    <3>3. Len(wire'[l]) \in {0, 1}
      BY <1>1, <3>1
    <3>4. QED
      BY <1>3, <3>2, <3>3
  <2>3. \E S \in SUBSET {y \in Lines : ExchangeState[y] = "open"} : aborted' = aborted \cup S
    <3>1. CASE \E id \in Ids : AcceptCancellation(l, id)
      <4> PICK id \in Ids : AcceptCancellation(l, id)
        BY <3>1
      <4>1. KeyOf(id) \in Keys
        BY DEF Keys
      <4>2. inFlight[KeyOf(id)] \subseteq Tasks
        BY <4>1 DEF LedgerInv, InFlightIsExact
      <4>3. Tasks \subseteq {y \in Lines : ExchangeState[y] = "open"}
        BY DEF Tasks, Live, ExchangeState
      <4>4. QED
        BY <4>2, <4>3 DEF AcceptCancellation
    <3>2. CASE AcceptGarbage(l)
      <4>1. aborted' = aborted \cup {}
        BY <3>2 DEF AcceptGarbage, coordVars
      <4>2. QED
        BY <4>1
    <3>3. QED
      BY <1>0, <1>6, <3>1, <3>2 DEF Accept, AcceptRequest, AcceptUnkeyed,
            AcceptInexactCancellation, TakeTicket, TypeOK
  <2>4. Contract!Control(l)
    BY <1>1, <1>3, <1>4, <2>1, <2>2, <2>3 DEF Contract!Control, ExchangeState, Answers
  <2>5. QED
    BY <2>4
<1>7. QED
  BY <1>2, <1>5, <1>6

\* A turn of a chain answers an exchange, pins the era, closes an exchange, or
\* is invisible.
LEMMA TurnIsContract ==
    ASSUME LedgerInv, LedgerInv', GateInv, VersionWithEra, NEW l \in Lines, Turn(l)
    PROVE  \/ Contract!Answer(l) \/ Contract!Pin \/ Contract!Close(l)
           \/ UNCHANGED Contract!cvars
<1>0. TypeOK /\ TypeOK'
  BY DEF LedgerInv
<1>1. /\ aborted' = aborted /\ life' = life
      /\ phase[l] # "settled" /\ phase[l] # "unread"
      /\ \A k \in Lines \ {l} : phase'[k] = phase[k] /\ wire'[k] = wire[k]
  BY TurnFrame
<1>2. /\ ExchangeState' = [ExchangeState EXCEPT ![l] = ExchangeState'[l]]
      /\ Answers' = [Answers EXCEPT ![l] = Len(wire'[l])]
  BY <1>1, ViewOfOne
<1>3. ExchangeState[l] = "open"
  BY <1>1 DEF ExchangeState
<1>4. CASE Settle(l)
  <2>1. phase'[l] = "settled" /\ wire' = wire /\ era' = era /\ version' = version
    BY <1>0, <1>4 DEF Settle, Advance, TypeOK
  <2>2. ExchangeState'[l] = "closed" /\ Answers' = Answers
    BY <2>1 DEF ExchangeState, Answers
  <2>3. Contract!Close(l)
    BY <1>1, <1>2, <1>3, <2>1, <2>2 DEF Contract!Close, ExchangeState, Answers
  <2>4. QED
    BY <2>3
<1>5. CASE ~Settle(l)
  <2>1. phase'[l] \in Live
    BY <1>0, <1>5 DEF Turn, BeginInitialize, Classify, CompleteInitialize, Refuse, SkipCancelled,
          Dispatch, Reply, DispatchFails, Rescue, Advance, TypeOK, Live
  <2>2. ExchangeState' = ExchangeState
    <3>1. ExchangeState'[l] = "open"
      BY <2>1 DEF Live, ExchangeState
    <3>2. QED
      BY <1>1, <1>3, <3>1 DEF ExchangeState
  <2>3. CASE wire' # wire
    <3>1. CompleteInitialize(l) \/ Refuse(l) \/ Reply(l) \/ Rescue(l)
      BY <1>5, <2>3 DEF Turn, BeginInitialize, Classify, SkipCancelled, Dispatch, DispatchFails
    <3>2. wire[l] = <<>>
      BY <3>1 DEF LedgerInv, SilentUntilWritten, CompleteInitialize, Refuse, Reply, Rescue, Advance
    <3>3. \E kind, nonNull : Emit(l, kind, nonNull)
      BY <3>1 DEF CompleteInitialize, Refuse, Reply, Rescue
    <3>4. PICK kind : l \notin aborted /\ wire'[l] = Append(<<>>, kind)
      BY <1>0, <2>3, <3>2, <3>3 DEF Emit, TypeOK
    <3>5. Len(<<>>) = 0 /\ Len(Append(<<>>, kind)) = 1
      OBVIOUS
    <3>6. Answers[l] = 0 /\ Answers' = [Answers EXCEPT ![l] = 1]
      BY <1>2, <3>2, <3>4, <3>5 DEF Answers
    <3>7. <<era, version>> = <<None, None>> \/ <<era, version>>' = <<era, version>>
      BY <3>1 DEF GateInv, GateHeld, VersionWithEra, CompleteInitialize, Refuse, Reply, Rescue,
            Advance
    <3>8. Contract!Answer(l)
      BY <1>1, <1>3, <2>2, <3>4, <3>6, <3>7 DEF Contract!Answer, ExchangeState, Answers
    <3>9. QED
      BY <3>8
  <2>4. CASE wire' = wire
    <3>1. Answers' = Answers
      BY <2>4 DEF Answers
    <3>2. CASE <<era, version>>' = <<era, version>>
      BY <1>1, <2>2, <3>1, <3>2 DEF Contract!cvars, ExchangeState, Answers
    <3>3. CASE <<era, version>>' # <<era, version>>
      <4>1. CASE Classify(l)
        <5>1. era = None /\ era' = "modern"
          BY <3>3, <4>1 DEF Classify
        <5>2. <<era, version>> = <<None, None>> /\ <<era, version>>' # <<None, None>>
          BY <5>1, SentinelsAreNotVersions DEF VersionWithEra
        <5>3. Contract!Pin
          BY <1>1, <2>2, <3>1, <5>2 DEF Contract!Pin, ExchangeState, Answers
        <5>4. QED
          BY <5>3
      <4>2. CASE CompleteInitialize(l)
        <5>1. phase[l] = "initializing" /\ wire[l] = <<>>
          BY <4>2 DEF CompleteInitialize, LedgerInv, SilentUntilWritten
        <5>2. ReplyKind(line[l].msg, admission[l].era) = "result" /\ l \notin aborted
          BY <3>3, <4>2 DEF CompleteInitialize
        <5>3. wire' = [wire EXCEPT ![l] = Append(@, "result")]
          BY <4>2, <5>2, NoneAssumption DEF CompleteInitialize, Emit
        <5>4. wire'[l] = Append(<<>>, "result")
          BY <1>0, <5>1, <5>3 DEF TypeOK
        <5>5. Append(<<>>, "result") # <<>>
          OBVIOUS
        <5>6. QED
          BY <2>4, <5>1, <5>4, <5>5
      <4>3. QED
        BY <1>5, <3>3, <4>1, <4>2 DEF Turn, BeginInitialize, Refuse, SkipCancelled, Dispatch,
              Reply, DispatchFails, Rescue, Advance, coordVars
    <3>4. QED
      BY <3>2, <3>3
  <2>5. QED
    BY <2>3, <2>4
<1>6. QED
  BY <1>4, <1>5

\* Closing down is invisible until the last allSettled finds no task.
LEMMA DrainIsContract ==
    ASSUME LedgerInv, EndOfInput \/ WaitForTasks \/ UNCHANGED vars
    PROVE  Contract!End \/ UNCHANGED Contract!cvars
<1>1. UNCHANGED <<ExchangeState, Answers, era, version, aborted>>
  BY DrainFrame DEF ExchangeState, Answers
<1>2. CASE (life = "closed")' = (life = "closed")
  BY <1>1, <1>2 DEF Contract!cvars, ExchangeState, Answers
<1>3. CASE (life = "closed")' # (life = "closed")
  <2>1. WaitForTasks /\ Tasks = {} /\ life' = "closed"
    BY <1>3 DEF EndOfInput, WaitForTasks, vars
  <2>2. \A l \in Lines : ExchangeState[l] # "open"
    BY <2>1 DEF LedgerInv, TypeOK, Tasks, Live, Phases, ExchangeState
  <2>3. Contract!End
    BY <1>1, <2>1, <2>2 DEF Contract!End, Contract!Idle, ExchangeState, Answers
  <2>4. QED
    BY <2>3
<1>4. QED
  BY <1>2, <1>3

\* Every behaviour of the coordinator is a behaviour of the contract: the gate,
\* the promise chains and the cancellation map together promise no less.
THEOREM CoordinatorKeepsContract == Spec => KeepsContract
<1>1. Init => Contract!CInit
  <2>1. Len(<<>>) = 0
    OBVIOUS
  <2>2. QED
    BY <2>1 DEF Init, Contract!CInit
<1>2. LedgerInv /\ LedgerInv' /\ GateInv /\ VersionWithEra /\ [Next]_vars
        => [Contract!CNext]_(Contract!cvars)
  <2> SUFFICES ASSUME LedgerInv, LedgerInv', GateInv, VersionWithEra, [Next]_vars
               PROVE  Contract!CNext \/ UNCHANGED Contract!cvars
    OBVIOUS
  <2>1. ASSUME NEW l \in Lines, Accept(l) PROVE Contract!CNext
    BY <2>1, AcceptIsContract DEF Contract!CNext
  <2>2. ASSUME NEW l \in Lines, Turn(l) PROVE Contract!CNext \/ UNCHANGED Contract!cvars
    BY <2>2, TurnIsContract DEF Contract!CNext
  <2>3. CASE EndOfInput \/ WaitForTasks \/ UNCHANGED vars
    BY <2>3, DrainIsContract DEF Contract!CNext
  <2>4. QED
    BY <2>1, <2>2, <2>3 DEF Next, Closed
<1>3. QED
  BY <1>1, <1>2, LedgerInvariant, GateInvariant, VersionInvariant, PTL
     DEF Spec, KeepsContract, Contract!CSpec
=============================================================================
