------------------------- MODULE ExecuteLoaderProofs -------------------------
(***************************************************************************)
(* Theorems about one hosted `execute` (ExecuteLoader): the code a caller  *)
(* sent is run at most once, whatever isolates and timers do.              *)
(*                                                                         *)
(* CodeRunsOnce is not inductive: it does not say why a second attempt     *)
(* never meets a first that is still running.  The reason is that only a   *)
(* parse failure has a second attempt, and an isolate that failed to parse *)
(* neither ran the code nor ever will.                                     *)
(***************************************************************************)
EXTENDS ExecuteLoader, FiniteSetTheorems, TLAPS

States == {"none", "starting", "running", "syntax error",
           "response", "http error", "budget exceeded", "lost"}

LoaderTypes ==
  /\ form \in Forms
  /\ attempt \in 0 .. 2
  /\ stage \in {"idle", "racing", "reading", "answered"}
  /\ isolate \in [Attempts -> States]
  /\ ran \subseteq Attempts

\* A call that has not begun has no isolate, and one that is reading a body got
\* it from the attempt under way.
StageFits ==
  /\ stage = "idle" => attempt = 0 /\ isolate = [i \in Attempts |-> "none"]
  /\ stage \in {"racing", "reading"} => attempt \in Attempts
  /\ stage = "reading" => isolate[attempt] = "response"

\* An isolate that was not started, or has not parsed its form, ran nothing.
UnparsedRanNothing ==
  \A i \in Attempts : isolate[i] \in {"none", "starting", "syntax error"} => i \notin ran

\* There is a second isolate only if the first one could not parse its form.
SecondNeedsSyntaxError ==
  isolate[2] # "none" => attempt = 2 /\ isolate[1] = "syntax error"

LoaderInv ==
  /\ LoaderTypes
  /\ StageFits
  /\ UnparsedRanNothing
  /\ SecondNeedsSyntaxError

LEMMA TwoAttempts == Attempts = {1, 2}
BY DEF Attempts

LEMMA AttemptsInRange == Attempts \subseteq 0 .. 2
BY DEF Attempts

LEMMA InitLoader == Init => LoaderInv
BY DEF Init, LoaderInv, LoaderTypes, StageFits, UnparsedRanNothing,
       SecondNeedsSyntaxError, Forms, Attempts, States

LEMMA LaunchKeeps ==
  ASSUME LoaderInv, NEW i \in Attempts, Launch(i),
         isolate[i] = "none",
         i = 2 => isolate[1] = "syntax error"
  PROVE  LoaderInv'
<1> USE TwoAttempts
<1>1. /\ isolate' = [isolate EXCEPT ![i] = "starting"]
      /\ attempt' = i /\ stage' = "racing"
      /\ form' = form /\ ran' = ran
  BY DEF Launch
<1>2. i = 1 => isolate[2] = "none"
  BY DEF LoaderInv, SecondNeedsSyntaxError
<1>3. i = 1 \/ i = 2
  OBVIOUS
<1>4. isolate \in [Attempts -> States] /\ "starting" \in States
  BY DEF LoaderInv, LoaderTypes, States
<1>5. /\ isolate' \in [Attempts -> States]
      /\ isolate'[i] = "starting"
      /\ \A k \in Attempts : k # i => isolate'[k] = isolate[k]
  BY <1>1, <1>4
<1>6. LoaderTypes'
  <2>1. attempt' \in Attempts
    BY <1>1
  <2>2. Attempts \subseteq 0 .. 2
    BY AttemptsInRange
  <2>3. attempt' \in 0 .. 2
    BY <2>1, <2>2
  <2> QED
    BY <1>1, <1>5, <2>3 DEF LoaderInv, LoaderTypes
<1>7. StageFits'
  BY <1>1 DEF StageFits
<1>8. UnparsedRanNothing'
  BY <1>1, <1>5 DEF LoaderInv, UnparsedRanNothing
<1>9. SecondNeedsSyntaxError'
  <2>1. CASE i = 1
    BY <1>1, <1>2, <1>5, <2>1 DEF SecondNeedsSyntaxError
  <2>2. CASE i = 2
    <3>1. isolate'[1] = isolate[1]
      BY <1>5, <2>2
    <3>2. attempt' = 2
      BY <1>1, <2>2
    <3> QED
      BY <2>2, <3>1, <3>2 DEF SecondNeedsSyntaxError
  <2> QED
    BY <1>3, <2>1, <2>2
<1> QED
  BY <1>6, <1>7, <1>8, <1>9 DEF LoaderInv

LEMMA CompleteKeeps ==
  ASSUME LoaderInv, NEW result, Complete(result)
  PROVE  LoaderInv'
BY DEF LoaderInv, LoaderTypes, StageFits, UnparsedRanNothing, SecondNeedsSyntaxError,
       Complete, Attempts, States

LEMMA SecondIsFresh ==
  ASSUME LoaderInv, attempt = 1
  PROVE  isolate[2] = "none"
BY DEF LoaderInv, SecondNeedsSyntaxError

\* Only the first attempt, and only after a parse failure, is followed by a
\* second: what attempt() throws is told apart by its message.
LEMMA FailKeeps ==
  ASSUME LoaderInv, NEW outcome, Fail(outcome), stage \in {"racing", "reading"},
         outcome = "syntax error" => isolate[attempt] = "syntax error"
  PROVE  LoaderInv'
<1>1. CASE attempt = 1 /\ IsSyntaxStartupFailure(outcome)
  <2>1. isolate[2] = "none"
    BY <1>1, SecondIsFresh
  <2>2. isolate[1] = "syntax error" /\ Launch(2)
    BY <1>1 DEF IsSyntaxStartupFailure, Fail
  <2> QED
    BY <2>1, <2>2, LaunchKeeps, TwoAttempts
<1>2. CASE ~(attempt = 1 /\ IsSyntaxStartupFailure(outcome))
  BY <1>2, CompleteKeeps DEF Fail
<1> QED
  BY <1>1, <1>2

LEMMA LoaderKept == LoaderInv /\ [Next]_vars => LoaderInv'
<1> SUFFICES ASSUME LoaderInv, [Next]_vars PROVE LoaderInv'
  OBVIOUS
<1>1. CASE Begin
  <2>1. isolate[1] = "none"
    BY <1>1 DEF Begin, LoaderInv, StageFits, Attempts
  <2>2. 1 \in Attempts /\ Launch(1)
    BY <1>1, TwoAttempts DEF Begin
  <2> QED
    BY <2>1, <2>2, LaunchKeeps
<1>2. CASE FetchWins
  <2>1. CASE isolate[attempt] = "response"
    BY <1>2, <2>1 DEF FetchWins, LoaderInv, LoaderTypes, StageFits, UnparsedRanNothing,
       SecondNeedsSyntaxError
  <2>2. CASE isolate[attempt] = "http error"
    BY <1>2, <2>2, CompleteKeeps DEF FetchWins
  <2>3. CASE isolate[attempt] \notin {"response", "http error"}
    BY <1>2, <2>3, FailKeeps DEF FetchWins
  <2> QED
    BY <2>1, <2>2, <2>3
<1>3. CASE BackstopWins
  BY <1>3, FailKeeps DEF BackstopWins
<1>4. CASE ReadBody
  BY <1>4, FailKeeps, CompleteKeeps DEF ReadBody
<1>5. ASSUME NEW i \in Attempts, Start(i) PROVE LoaderInv'
  <2> USE <1>5, TwoAttempts DEF Start, LoaderInv
  <2>1. isolate[i] = "starting" /\ isolate'[i] \in {"running", "syntax error"}
    BY DEF LoaderTypes
  <2>2. LoaderTypes'
    BY DEF LoaderTypes, States
  <2>3. StageFits'
    BY <2>1 DEF StageFits, LoaderTypes
  <2>4. UnparsedRanNothing'
    BY DEF UnparsedRanNothing, LoaderTypes
  <2>5. SecondNeedsSyntaxError'
    BY <2>1 DEF SecondNeedsSyntaxError, LoaderTypes
  <2> QED
    BY <2>2, <2>3, <2>4, <2>5
<1>6. ASSUME NEW i \in Attempts, Settle(i) PROVE LoaderInv'
  <2> USE <1>6, TwoAttempts DEF LoaderInv
  <2>1. PICK outcome \in {"response", "http error", "budget exceeded", "lost"} :
          isolate' = [isolate EXCEPT ![i] = outcome]
    BY DEF Settle
  <2>2. isolate[i] = "running" /\ UNCHANGED <<form, attempt, stage, ran>>
    BY DEF Settle
  <2>3. LoaderTypes'
    BY <2>1, <2>2 DEF LoaderTypes, States
  <2>4. StageFits'
    BY <2>1, <2>2 DEF StageFits, LoaderTypes
  <2>5. UnparsedRanNothing'
    BY <2>1, <2>2 DEF UnparsedRanNothing, LoaderTypes
  <2>6. SecondNeedsSyntaxError'
    BY <2>1, <2>2 DEF SecondNeedsSyntaxError, LoaderTypes
  <2> QED
    BY <2>3, <2>4, <2>5, <2>6
<1>7. CASE UNCHANGED vars
  BY <1>7 DEF vars, LoaderInv, LoaderTypes, StageFits, UnparsedRanNothing,
     SecondNeedsSyntaxError
<1> QED
  BY <1>1, <1>2, <1>3, <1>4, <1>5, <1>6, <1>7 DEF Next

\* An attempt that ran the code is the only one.
LEMMA OneRan == LoaderInv => CodeRunsOnce
<1> SUFFICES ASSUME LoaderInv PROVE Cardinality(ran) <= 1
  BY DEF CodeRunsOnce
<1>1. 2 \in ran => 1 \notin ran
  BY TwoAttempts DEF LoaderInv, UnparsedRanNothing, SecondNeedsSyntaxError
<1>2. ran = {} \/ ran = {1} \/ ran = {2}
  BY <1>1, TwoAttempts DEF LoaderInv, LoaderTypes
<1>3. Cardinality({}) = 0
  BY FS_EmptySet
<1>4. Cardinality({1}) = 1 /\ Cardinality({2}) = 1
  BY FS_Singleton
<1> QED
  BY <1>2, <1>3, <1>4

\* The code of a call runs at most once, although a call may start it twice and
\* an isolate goes on after the backstop has given it up (execute, attempt and
\* isSyntaxStartupFailure of execute-loader.ts).
THEOREM CodeRunsAtMostOnce == Spec => []CodeRunsOnce
BY InitLoader, LoaderKept, OneRan, PTL DEF Spec
=============================================================================
