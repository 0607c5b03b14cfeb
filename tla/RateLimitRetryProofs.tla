------------------------ MODULE RateLimitRetryProofs ------------------------
(***************************************************************************)
(* Client.Do keeps the promise of OcisCall and never comes back too early, *)
(* for any calls, any values of Retry-After and whatever is lost.          *)
(*                                                                         *)
(* Why a retry is safe: until it returns, a call has at most one attempt   *)
(* that oCIS may still act on, and only an attempt that oCIS refused is    *)
(* followed by another.                                                    *)
(***************************************************************************)
EXTENDS RateLimitRetry, TLAPS

\* Between attempts nothing is under way and oCIS has not acted.
Untried(c) ==
  pc[c] \in {"idle", "prepare", "pause"} =>
    /\ wire[c] = "none" /\ answer[c] = Nothing /\ applied[c] = <<>>
    /\ outcome[c] = "open"

\* An attempt is on the wire or answered, and the answer says what oCIS did.
Tried(c) ==
  pc[c] = "sent" =>
    /\ outcome[c] = "open"
    /\ wire[c] = "none" \/ answer[c] = Nothing
    /\ wire[c] # "none" \/ answer[c] # Nothing
    /\ answer[c].status = "ok" => applied[c] # <<>>
    /\ answer[c].status = "limited" => applied[c] = <<>>

\* What is on the wire is the caller's body, and the first oCIS would act on;
\* it outlives its call only when the caller gave up.
OnWire(c) ==
  wire[c] # "none" =>
    /\ wire[c] = "whole" /\ applied[c] = <<>>
    /\ pc[c] \in {"sent", "done"}
    /\ pc[c] = "done" => outcome[c] = "failed"

\* The time oCIS asked for is the earliest at which the next attempt is made.
\* A number of seconds counts from when oCIS answered, and the pause from when
\* the answer is read.
Patient(c) ==
  /\ pc[c] = "idle" => attempt[c] = 0
  /\ pc[c] = "sent" /\ answer[c].status = "limited" =>
       LET h == answer[c].after IN
       /\ h.kind = "secs" => asked[c] <= now + h.n
       /\ h.kind = "date" => asked[c] = h.n
       /\ h.kind = "other" => asked[c] <= now
  /\ pc[c] = "pause" => asked[c] <= wake[c]
  /\ pc[c] = "prepare" => attempt[c] = 0 \/ asked[c] <= now

CallOK(c) == Untried(c) /\ Tried(c) /\ OnWire(c) /\ Patient(c)
IInv == TypeOK /\ \A c \in Calls : CallOK(c)

-----------------------------------------------------------------------------
\* A step of one call leaves the others as they are.
Others(c) == \A d \in Calls \ {c} :
  /\ pc'[d] = pc[d] /\ attempt'[d] = attempt[d] /\ wire'[d] = wire[d]
  /\ answer'[d] = answer[d] /\ wake'[d] = wake[d] /\ asked'[d] = asked[d]
  /\ applied'[d] = applied[d] /\ outcome'[d] = outcome[d]

LEMMA CallFrame ==
  ASSUME IInv, NEW c \in Calls, Others(c), now' = now, TypeOK', CallOK(c)'
  PROVE  IInv'
<1>1. \A d \in Calls \ {c} : CallOK(d)'
  BY DEF Others, IInv, CallOK, Untried, Tried, OnWire, Patient
<1> QED BY <1>1 DEF IInv

LEMMA InitInv == Init => IInv
<1> SUFFICES ASSUME Init PROVE IInv OBVIOUS
<1>1. TypeOK
  BY DEF Init, TypeOK, Points, Bodies, Answers, MaxRetries
<1>2. \A c \in Calls : CallOK(c)
  BY DEF Init, CallOK, Untried, Tried, OnWire, Patient
<1> QED BY <1>1, <1>2 DEF IInv

\* The components of the state, one call at a time.
LEMMA CallTypes ==
  ASSUME TypeOK, NEW c \in Calls
  PROVE  /\ now \in Nat /\ pc[c] \in Points /\ attempt[c] \in 0..2
         /\ answer[c] \in Answers /\ wake[c] \in Int /\ asked[c] \in Int
         /\ wire[c] \in {"none", "whole", "empty"}
  BY DEF TypeOK, MaxRetries

LEMMA HeaderTypes ==
  ASSUME NEW h \in Headers
  PROVE  /\ h.kind \in {"secs", "date", "other"}
         /\ h.kind \in {"secs", "date"} => h.n \in Int
  BY RetryAssumption DEF Header

\* A 429 is an answer with one of the headers.
LEMMA LimitedAnswer ==
  ASSUME TypeOK, NEW c \in Calls, answer[c].status = "limited"
  PROVE  answer[c].after \in Headers
<1>1. answer[c] \in Answers
  BY CallTypes
<1> QED BY <1>1 DEF Answers, Nothing, Limited

-----------------------------------------------------------------------------
LEMMA StartInv == ASSUME IInv, NEW c \in Calls, Start(c) PROVE IInv'
<1>1. TypeOK'
  BY DEF IInv, Start, Move, TypeOK, Points
<1>2. Others(c) /\ now' = now
  BY DEF Start, Move, Others, IInv, TypeOK
<1>3. CallOK(c)'
  BY DEF Start, Move, IInv, TypeOK, CallOK, Untried, Tried, OnWire, Patient
<1> QED BY <1>1, <1>2, <1>3, CallFrame

LEMMA AttemptInv == ASSUME IInv, NEW c \in Calls, Attempt(c) PROVE IInv'
<1>1. TypeOK'
  BY DEF IInv, Attempt, Move, Return, Payload, TypeOK, Points
<1>2. Others(c) /\ now' = now
  BY DEF Attempt, Move, Return, Others, IInv, TypeOK
<1>3. pc[c] = "prepare" /\ CallOK(c) /\ Nothing.status = "none"
  BY DEF Attempt, Move, Return, IInv, Nothing
<1>4. CallOK(c)'
  <2>1. CASE Move(c, "prepare", "sent") /\ wire' = [wire EXCEPT ![c] = Payload(c)] /\ UNCHANGED outcome
    BY <1>3, <2>1 DEF Attempt, Move, Payload, IInv, TypeOK, CallOK, Untried, Tried, OnWire, Patient
  <2>2. CASE Return(c, "prepare", "failed") /\ UNCHANGED wire
    BY <1>3, <2>2 DEF Attempt, Move, Return, IInv, TypeOK, CallOK, Untried, Tried, OnWire, Patient
  <2> QED BY <2>1, <2>2, Zenon DEF Attempt
<1> QED BY <1>1, <1>2, <1>4, CallFrame

\* An answer reaches a call that waits for one.
LEMMA AnswerType ==
  ASSUME TypeOK, NEW c \in Calls, NEW a \in Answers, Answer(c, a)
  PROVE  /\ answer' \in [Calls -> Answers] /\ wire' \in [Calls -> {"none", "whole", "empty"}]
         /\ wire'[c] = "none" /\ answer'[c] = IF pc[c] = "sent" THEN a ELSE answer[c]
         /\ \A d \in Calls \ {c} : answer'[d] = answer[d] /\ wire'[d] = wire[d]
<1>1. (IF pc[c] = "sent" THEN a ELSE answer[c]) \in Answers
  BY CallTypes
<1> QED BY <1>1 DEF Answer, TypeOK

LEMMA HandleInv == ASSUME IInv, NEW c \in Calls, Handle(c) PROVE IInv'
<1> DEFINE Acted(s) == /\ applied' = [applied EXCEPT ![c] = Append(@, wire[c])]
                       /\ Answer(c, [status |-> s]) /\ UNCHANGED asked
           Refused == Answer(c, [status |-> "error"]) /\ UNCHANGED <<applied, asked>>
           Soon(h) == CASE h.kind = "secs" -> now + h.n
                        [] h.kind = "date" -> h.n
                        [] OTHER -> now
           Later(h) == /\ Answer(c, Limited(h)) /\ UNCHANGED applied
                       /\ asked' = [asked EXCEPT ![c] = Soon(h)]
<1>0. /\ UNCHANGED <<now, pc, attempt, body, wake, alive, outcome>>
      /\ CallOK(c) /\ TypeOK /\ wire[c] # "none" /\ wire[c] = "whole" /\ applied[c] = <<>>
      /\ pc[c] \in {"sent", "done"}
  BY DEF Handle, local, IInv, CallOK, OnWire
<1>1. ASSUME NEW s \in {"ok", "error"}, Acted(s) PROVE IInv'
  <2>1. [status |-> s] \in Answers
    BY DEF Answers
  <2>2. Append(applied[c], wire[c]) = <<"whole">>
    BY <1>0
  <2>3. applied' = [applied EXCEPT ![c] = <<"whole">>]
    BY <1>1, <2>2
  <2>4. applied' \in [Calls -> Seq({"whole", "empty"})]
    BY <1>0, <2>3 DEF TypeOK
  <2>5. TypeOK'
    BY <1>0, <1>1, <2>1, <2>4, AnswerType DEF TypeOK
  <2>6. applied'[c] # <<>> /\ \A d \in Calls \ {c} : applied'[d] = applied[d]
    BY <1>0, <2>3 DEF TypeOK
  <2>7. Others(c)
    BY <1>0, <1>1, <2>1, <2>6, AnswerType DEF Others
  <2>8. CallOK(c)'
    BY <1>0, <1>1, <2>1, <2>6, AnswerType
    DEF CallOK, Untried, Tried, OnWire, Patient, Nothing
  <2> QED BY <1>0, <2>5, <2>7, <2>8, CallFrame
<1>2. CASE Refused
  <2>1. [status |-> "error"] \in Answers
    BY DEF Answers
  <2>2. TypeOK'
    BY <1>0, <1>2, <2>1, AnswerType DEF TypeOK
  <2>3. Others(c)
    BY <1>0, <1>2, <2>1, AnswerType DEF Others
  <2>4. CallOK(c)'
    BY <1>0, <1>2, <2>1, AnswerType DEF CallOK, Untried, Tried, OnWire, Patient, Nothing
  <2> QED BY <1>0, <2>2, <2>3, <2>4, CallFrame
<1>3. ASSUME NEW h \in Headers, Later(h) PROVE IInv'
  <2>1. Limited(h) \in Answers /\ Limited(h).status = "limited" /\ Limited(h).after = h
    BY DEF Answers, Limited
  <2>2. Soon(h) \in Int
    BY <1>0, HeaderTypes DEF TypeOK
  <2>3. /\ asked' \in [Calls -> Int] /\ asked'[c] = Soon(h)
        /\ \A d \in Calls \ {c} : asked'[d] = asked[d]
    BY <1>0, <1>3, <2>2 DEF TypeOK
  <2>4. TypeOK'
    BY <1>0, <1>3, <2>1, <2>3, AnswerType DEF TypeOK
  <2>5. Others(c)
    BY <1>0, <1>3, <2>1, <2>3, AnswerType DEF Others
  <2>6. /\ h.kind = "secs" => asked'[c] <= now + h.n
        /\ h.kind = "date" => asked'[c] = h.n
        /\ h.kind = "other" => asked'[c] <= now
    BY <1>0, <2>2, <2>3 DEF TypeOK
  <2>7. CallOK(c)'
    BY <1>0, <1>3, <2>1, <2>6, AnswerType DEF CallOK, Untried, Tried, OnWire, Patient, Nothing
  <2> QED BY <1>0, <2>4, <2>5, <2>7, CallFrame
<1> QED BY <1>1, <1>2, <1>3 DEF Handle

\* The pause is over no sooner than oCIS asked for.
LEMMA PauseLongEnough ==
  ASSUME IInv, NEW c \in Calls, pc[c] = "sent", answer[c].status = "limited"
  PROVE  Delay(answer[c].after) \in Int /\ asked[c] <= now + Delay(answer[c].after)
<1> DEFINE h == answer[c].after
<1>1. h \in Headers /\ TypeOK /\ Patient(c)
  BY LimitedAnswer DEF IInv, CallOK
<1>2. h.kind \in {"secs", "date", "other"} /\ (h.kind \in {"secs", "date"} => h.n \in Int)
  BY <1>1, HeaderTypes
<1>3. now \in Nat /\ asked[c] \in Int
  BY <1>1, CallTypes
<1>4. /\ h.kind = "secs" => asked[c] <= now + h.n
      /\ h.kind = "date" => asked[c] = h.n
      /\ h.kind = "other" => asked[c] <= now
  BY <1>1 DEF Patient
<1> QED BY <1>2, <1>3, <1>4 DEF Delay, DefaultDelay

LEMMA ReceiveInv == ASSUME IInv, NEW c \in Calls, Receive(c) PROVE IInv'
<1> DEFINE again == answer[c].status = "limited" /\ ~LastAttempt(c)
           Pause == /\ Move(c, "sent", "pause")
                    /\ attempt' = [attempt EXCEPT ![c] = @ + 1]
                    /\ wake' = [wake EXCEPT ![c] = now + Delay(answer[c].after)]
                    /\ UNCHANGED outcome
           End == Return(c, "sent", answer[c].status) /\ UNCHANGED <<attempt, wake>>
<1>1. /\ answer[c] # Nothing /\ answer' = [answer EXCEPT ![c] = Nothing]
      /\ UNCHANGED <<now, body, alive, wire, asked, applied>>
      /\ CallOK(c) /\ TypeOK /\ Nothing \in Answers /\ Nothing.status = "none"
      /\ answer[c] \in Answers
  BY CallTypes DEF Receive, IInv, Answers, Nothing
<1>2. (again /\ Pause) \/ (~again /\ End)
  BY Zenon DEF Receive
<1>3. ASSUME again, Pause PROVE IInv'
  <2>1. pc[c] = "sent" /\ answer[c].status = "limited"
    BY <1>3 DEF Move
  <2>2. Delay(answer[c].after) \in Int /\ asked[c] <= now + Delay(answer[c].after)
    BY <2>1, PauseLongEnough
  <2>3. attempt[c] \in 0..1
    BY <1>1, <1>3, CallTypes DEF LastAttempt, MaxRetries
  <2>4. TypeOK'
    BY <1>1, <1>3, <2>2, <2>3 DEF TypeOK, Move, Points, MaxRetries
  <2>5. Others(c)
    BY <1>1, <1>3 DEF Others, Move, TypeOK
  <2>6. wake'[c] = now + Delay(answer[c].after) /\ pc'[c] = "pause" /\ answer'[c] = Nothing
    BY <1>1, <1>3 DEF Move, TypeOK
  <2>7. CallOK(c)'
    BY <1>1, <1>3, <2>1, <2>2, <2>6 DEF CallOK, Untried, Tried, OnWire, Patient
  <2> QED BY <1>1, <2>4, <2>5, <2>7, CallFrame
<1>4. ASSUME End PROVE IInv'
  <2>1. pc[c] = "sent" /\ answer[c].status \in {"ok", "error", "limited"}
    BY <1>1, <1>4 DEF Return, Move, Answers, Limited
  <2>2. TypeOK'
    BY <1>1, <1>4, <2>1 DEF TypeOK, Return, Move, Points
  <2>3. Others(c)
    BY <1>1, <1>4 DEF Others, Return, Move, TypeOK
  <2>4. CallOK(c)'
    BY <1>1, <1>4, <2>1
    DEF Return, Move, TypeOK, CallOK, Untried, Tried, OnWire, Patient
  <2> QED BY <1>1, <2>2, <2>3, <2>4, CallFrame
<1> QED BY <1>2, <1>3, <1>4

LEMMA GiveUpInv == ASSUME IInv, NEW c \in Calls, GiveUp(c) PROVE IInv'
<1>1. /\ CallOK(c) /\ TypeOK /\ Nothing \in Answers /\ Nothing.status = "none"
      /\ pc[c] = "sent" /\ now' = now
  BY DEF IInv, GiveUp, Return, Move, Answers, Nothing
<1>2. TypeOK'
  BY <1>1 DEF GiveUp, Return, Move, TypeOK, Points
<1>3. Others(c)
  BY <1>1 DEF GiveUp, Return, Move, Others, TypeOK
<1>4. wire'[c] \in {wire[c], "none"}
  BY <1>1 DEF GiveUp, TypeOK
<1>5. CallOK(c)'
  BY <1>1, <1>4 DEF GiveUp, Return, Move, TypeOK, CallOK, Untried, Tried, OnWire, Patient
<1> QED BY <1>1, <1>2, <1>3, <1>5, CallFrame

LEMMA WakeInv == ASSUME IInv, NEW c \in Calls, Wake(c) PROVE IInv'
<1>1. /\ CallOK(c) /\ TypeOK /\ pc[c] = "pause" /\ wake[c] <= now /\ now' = now
      /\ now \in Int /\ wake[c] \in Int /\ asked[c] \in Int
  BY CallTypes DEF IInv, Wake, Move
<1>2. TypeOK'
  BY <1>1 DEF Wake, Move, TypeOK, Points
<1>3. Others(c)
  BY <1>1 DEF Wake, Move, Others, TypeOK
<1>4. CallOK(c)'
  BY <1>1 DEF Wake, Move, TypeOK, CallOK, Untried, Tried, OnWire, Patient
<1> QED BY <1>1, <1>2, <1>3, <1>4, CallFrame

LEMMA CancelInv == ASSUME IInv, NEW c \in Calls, Cancel(c) PROVE IInv'
<1>1. TypeOK'
  BY DEF Cancel, local, IInv, TypeOK
<1>2. \A d \in Calls : CallOK(d)'
  BY DEF Cancel, local, IInv, CallOK, Untried, Tried, OnWire, Patient
<1> QED BY <1>1, <1>2 DEF IInv

\* Time that passes only brings the next attempt closer.
LEMMA TickInv == ASSUME IInv, Tick PROVE IInv'
<1>1. TypeOK'
  BY DEF Tick, local, IInv, TypeOK
<1>2. ASSUME NEW c \in Calls PROVE CallOK(c)'
  <2>1. /\ UNCHANGED <<pc, attempt, wire, answer, wake, asked, applied, outcome>>
        /\ now' = now + 1 /\ CallOK(c) /\ TypeOK
    BY DEF Tick, local, IInv
  <2>2. now \in Nat /\ asked[c] \in Int
    BY <2>1, CallTypes
  <2>3. (Untried(c) /\ Tried(c) /\ OnWire(c))'
    BY <2>1 DEF CallOK, Untried, Tried, OnWire
  <2>4. ASSUME pc[c] = "sent", answer[c].status = "limited"
        PROVE  LET h == answer[c].after IN
               /\ h.kind = "secs" => asked[c] <= now + 1 + h.n
               /\ h.kind = "date" => asked[c] = h.n
               /\ h.kind = "other" => asked[c] <= now + 1
    BY <2>1, <2>2, <2>4, LimitedAnswer, HeaderTypes DEF CallOK, Patient
  <2>5. Patient(c)'
    BY <2>1, <2>2, <2>4 DEF CallOK, Patient
  <2> QED BY <2>3, <2>5 DEF CallOK
<1> QED BY <1>1, <1>2 DEF IInv

LEMMA StepInv == ASSUME IInv, [Next]_vars PROVE IInv'
<1>1. CASE UNCHANGED vars
  BY <1>1 DEF vars, IInv, TypeOK, CallOK, Untried, Tried, OnWire, Patient
<1>2. CASE Next
  BY <1>2, StartInv, AttemptInv, HandleInv, ReceiveInv, GiveUpInv, WakeInv,
     CancelInv, TickInv DEF Next, Proceed
<1> QED BY <1>1, <1>2

LEMMA Invariant == Spec => []IInv
  BY InitInv, StepInv, PTL DEF Spec

-----------------------------------------------------------------------------
\* The state of a call is always one the code can name: in particular the loop
\* counter of Do stays below MaxRetries.
THEOREM RetryTypeCorrect == Spec => []TypeOK
  BY Invariant, PTL DEF IInv

\* What a step of Do, of the network or of oCIS does to what the caller sees:
\* oCIS acts, the call ends, or nothing.
LEMMA ActStep ==
  ASSUME IInv, NEW c \in Calls, Handle(c)
  PROVE  Promise!Apply(c) \/ UNCHANGED Promise!callVars
<1>1. /\ TypeOK /\ outcome' = outcome /\ wire[c] = "whole" /\ applied[c] = <<>>
      /\ outcome[c] \in {"open", "failed"}
  BY DEF Handle, IInv, CallOK, OnWire, Tried
<1>2. CASE applied' = [applied EXCEPT ![c] = Append(@, wire[c])]
  <2>1. Append(applied[c], wire[c]) = <<"whole">>
    BY <1>1
  <2> QED BY <1>1, <1>2, <2>1 DEF Promise!Apply
<1>3. CASE applied' = applied
  BY <1>1, <1>3 DEF Promise!callVars
<1> QED BY <1>2, <1>3 DEF Handle

LEMMA EndStep ==
  ASSUME IInv, NEW c \in Calls, Proceed(c)
  PROVE  \/ \E how \in Promise!Outcomes \ {"open"} : Promise!End(c, how)
         \/ UNCHANGED Promise!callVars
<1>1. CallOK(c) /\ TypeOK /\ answer[c] \in Answers
  BY CallTypes DEF IInv
<1>2. CASE Attempt(c)
  <2>1. outcome' = outcome \/ Return(c, "prepare", "failed")
    BY <1>2, Zenon DEF Attempt
  <2>2. applied' = applied
    BY <1>2 DEF Attempt
  <2>3. CASE Return(c, "prepare", "failed")
    BY <1>1, <2>2, <2>3 DEF Return, Move, CallOK, Untried, Promise!End, Promise!Outcomes
  <2> QED BY <2>1, <2>2, <2>3 DEF Promise!callVars
<1>3. CASE Receive(c)
  <2>1. outcome' = outcome \/ Return(c, "sent", answer[c].status)
    BY <1>3, Zenon DEF Receive
  <2>2. applied' = applied /\ answer[c] # Nothing
    BY <1>3 DEF Receive
  <2>3. answer[c].status \in {"ok", "error", "limited"}
    BY <1>1, <2>2 DEF Answers, Limited
  <2>4. CASE Return(c, "sent", answer[c].status)
    BY <1>1, <2>2, <2>3, <2>4
    DEF Return, Move, CallOK, Tried, Promise!End, Promise!Outcomes
  <2> QED BY <2>1, <2>2, <2>4 DEF Promise!callVars
<1>4. CASE GiveUp(c)
  BY <1>1, <1>4 DEF GiveUp, Return, Move, CallOK, Tried, Promise!End, Promise!Outcomes
<1>5. CASE Wake(c)
  BY <1>5 DEF Wake, Promise!callVars
<1> QED BY <1>2, <1>3, <1>4, <1>5 DEF Proceed

LEMMA PromiseStep == ASSUME IInv, [Next]_vars PROVE [Promise!Next]_(Promise!callVars)
<1>1. CASE UNCHANGED vars
  BY <1>1 DEF vars, Promise!callVars
<1>2. ASSUME NEW c \in Calls, Start(c) \/ Cancel(c)
      PROVE  UNCHANGED Promise!callVars
  BY <1>2 DEF Start, Cancel, Promise!callVars
<1>3. CASE Tick
  BY <1>3 DEF Tick, Promise!callVars
<1>4. ASSUME NEW c \in Calls, Handle(c) \/ Proceed(c)
      PROVE  [Promise!Next]_(Promise!callVars)
  BY <1>4, ActStep, EndStep DEF Promise!Next
<1> QED BY <1>1, <1>2, <1>3, <1>4 DEF Next

\* However calls, refusals, lost connections and cancellations are interleaved,
\* oCIS acts at most once for a call of Do, on the body the caller gave, and the
\* call does not say "rate limited" of a request oCIS acted on or "ok" of one it
\* did not: Do implements OcisCall.
THEOREM RetryKeepsPromise == Spec => KeepsPromise
<1>1. Init => Promise!Init
  BY DEF Init, Promise!Init
<1>2. IInv /\ [Next]_vars => [Promise!Next]_(Promise!callVars)
  BY PromiseStep
<1> QED BY <1>1, <1>2, Invariant, PTL DEF Spec, KeepsPromise, Promise!Spec

\* Only Attempt sends, and by then the pause is over.
LEMMA PatientStep ==
  ASSUME IInv, Next, NEW c \in Calls, pc[c] = "prepare", pc'[c] = "sent"
  PROVE  attempt[c] = 0 \/ now >= asked[c]
<1>1. Patient(c) /\ now \in Nat /\ asked[c] \in Int
  BY CallTypes DEF IInv, CallOK
<1> QED BY <1>1 DEF Patient

\* Do never comes back before the time oCIS asked for in Retry-After, be it a
\* number of seconds or a date (parseRetryAfter).
THEOREM RetryNotTooEarly == Spec => HonoursRetryAfter
<1>1. IInv /\ [Next]_vars =>
        [\A c \in Calls : pc[c] = "prepare" /\ pc'[c] = "sent" =>
           attempt[c] = 0 \/ now >= asked[c]]_vars
  BY PatientStep
<1> QED BY <1>1, Invariant, PTL DEF Spec, HonoursRetryAfter
=============================================================================
