----------------------------- MODULE ExecuteLoader -----------------------------
(***************************************************************************)
(* Hosted `execute` (src/website/src/execute-loader.ts): one call starts   *)
(* an isolate for the expression form of its code and, if that does not    *)
(* parse, a second one for the statement form.  Each fetch races a         *)
(* wall-clock backstop; the body of the response is read after the race.   *)
(*                                                                         *)
(* Isolates are the platform's (external): one may reject at startup, run  *)
(* the code and answer, exceed its budget, or hang, and goes on after the  *)
(* call stopped waiting for it.                                            *)
(***************************************************************************)
EXTENDS Naturals, FiniteSets

CONSTANTS None

Forms == {"expression", "statement", "neither"}   \* what the code parses as
Attempts == 1 .. 2
Replies == {"result", "malformed", "large", "broken"}   \* bodies of a response

VARIABLES form, attempt,   \* the attempt under way, 0 before the first
          stage,           \* idle, racing, reading, answered
          isolate,         \* what each attempt's isolate did
          reply,           \* the body it answers with
          ran,             \* attempts whose isolate began to run the code
          answer           \* None, or what execute returned

vars == <<form, attempt, stage, isolate, reply, ran, answer>>

Init ==
  /\ form \in Forms
  /\ attempt = 0 /\ stage = "idle"
  /\ isolate = [i \in Attempts |-> "none"]
  /\ reply \in Replies
  /\ ran = {} /\ answer = None

\* Code that is an expression also runs in the statement form.
Parses(i) == form = "expression" \/ (form = "statement" /\ i = 2)

Launch(i) ==
  /\ attempt' = i
  /\ stage' = "racing"
  /\ isolate' = [isolate EXCEPT ![i] = "starting"]
  /\ UNCHANGED <<form, reply, ran, answer>>

Begin == stage = "idle" /\ Launch(1)

Complete(result) ==
  /\ answer' = result
  /\ stage' = "answered"
  /\ UNCHANGED <<form, attempt, isolate, reply, ran>>

(* ------------------------- isolates (external) -------------------------- *)

Start(i) ==
  /\ isolate[i] = "starting"
  /\ IF Parses(i) THEN /\ isolate' = [isolate EXCEPT ![i] = "running"]
                       /\ ran' = ran \union {i}
                  ELSE /\ isolate' = [isolate EXCEPT ![i] = "syntax error"]
                       /\ UNCHANGED ran
  /\ UNCHANGED <<form, attempt, stage, reply, answer>>

Settle(i) ==
  /\ isolate[i] = "running"
  /\ \E outcome \in {"response", "http error", "budget exceeded", "lost"} :
        isolate' = [isolate EXCEPT ![i] = outcome]
  /\ UNCHANGED <<form, attempt, stage, reply, ran, answer>>

(* ------------------------------- the call ------------------------------- *)

AnyFailure(outcome) == outcome # "response"   \* mutant: retries whatever failed

\* Only a parse failure at startup, told from its message, has a second try.
IsSyntaxStartupFailure(outcome) == outcome = "syntax error"

Outcomes == {"response", "http error", "syntax error", "budget exceeded", "lost"}

\* What attempt() throws: the second attempt, or the end of the call.
Fail(outcome) ==
  IF attempt = 1 /\ IsSyntaxStartupFailure(outcome) THEN Launch(2) ELSE Complete("error")

FetchWins ==
  /\ stage = "racing"
  /\ isolate[attempt] \in Outcomes
  /\ CASE isolate[attempt] = "response" ->
            stage' = "reading" /\ UNCHANGED <<form, attempt, isolate, reply, ran, answer>>
       [] isolate[attempt] = "http error" -> Complete("error")
       [] OTHER -> Fail(isolate[attempt])

FirstBackstop == stage = "racing" /\ attempt = 1 /\ Fail("budget exceeded")   \* mutant: armed once

\* The backstop's message is one of an exceeded budget.
BackstopWins == stage = "racing" /\ Fail("budget exceeded")

\* readCapped, which nothing guards, and the checks of the result.
ReadBody ==
  /\ stage = "reading"
  /\ IF reply = "broken" THEN Fail("lost")
     ELSE Complete(IF reply = "result" THEN "result" ELSE "error")

Next ==
  \/ Begin \/ FetchWins \/ BackstopWins \/ ReadBody
  \/ \E i \in Attempts : Start(i) \/ Settle(i)

\* The call and its timer go on; an isolate, and the body it sends, need not.
Fairness == WF_vars(Begin) /\ WF_vars(FetchWins) /\ WF_vars(BackstopWins)

Spec == Init /\ [][Next]_vars /\ Fairness

(* ------------------------------- properties ------------------------------ *)

\* The code of a call runs at most once, although it may be started twice and
\* an isolate the call gave up on goes on.
CodeRunsOnce == Cardinality(ran) <= 1

\* A call is answered whatever the isolates do, unless a body stops coming: the
\* backstop is cleared before the body is read.
ExecuteAnswers == <>(stage = "answered") \/ <>[](stage = "reading")
=============================================================================
