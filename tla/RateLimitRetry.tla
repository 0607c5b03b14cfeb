--------------------------- MODULE RateLimitRetry ---------------------------
(***************************************************************************)
(* Client.Do, through which every request of a tool to oCIS goes: up to    *)
(* MaxRetries attempts, each a fresh copy of the request, with a pause     *)
(* after each 429.  Calls of several tools run at the same time and may be *)
(* cancelled by their MCP client at any point; the pause (time.Sleep) does *)
(* not notice.  A request whose caller gave up may still reach oCIS.       *)
(*                                                                         *)
(* oCIS, the network and net/http are external.  Statuses are classed as   *)
(* "ok" (below 400), "limited" (429) and "error"; what DoJSON and the      *)
(* WebDAV functions make of a response is in ToolRequests.  The calls      *)
(* modelled are of methods that change something (not GET, PROPFIND and    *)
(* REPORT): the ones for which it matters how often oCIS acts.             *)
(***************************************************************************)
EXTENDS Integers, Sequences

CONSTANTS
  Calls,
  Headers,     \* values of Retry-After oCIS may send, see Header
  Faults,      \* "lost": connection error, or no answer within HTTPTimeout
  MaxTime      \* bound: the clock goes on after it only for a pause to end

MaxRetries == 3
DefaultDelay == 2

\* A number of seconds, a date, or a value that is neither (or no header).
Header == [kind : {"secs", "date"}, n : Int] \cup [kind : {"other"}]

ASSUME RetryAssumption ==
  /\ Headers \subseteq Header
  /\ Faults \subseteq {"lost"}
  /\ MaxTime \in Nat

VARIABLES
  now,
  pc, attempt,       \* program point and loop counter of each call
  body,              \* what the caller gave as the body
  alive,             \* the request's context is not cancelled
  wire, answer,      \* the attempt on its way to oCIS, oCIS's answer to it
  wake,              \* when the pause ends
  asked,             \* when oCIS wants to be asked again (history)
  applied, outcome   \* as in OcisCall

local == <<pc, attempt, body, wake>>
vars == <<now, pc, attempt, body, alive, wire, answer, wake, asked, applied,
          outcome>>

\* No body, one that http.NewRequest can rewind (GetBody), any other reader.
Bodies == {"none", "replayable", "oneshot"}
Points == {"idle", "prepare", "sent", "pause", "done"}
Nothing == [status |-> "none"]
Limited(h) == [status |-> "limited", after |-> h]
Answers == {Nothing, [status |-> "ok"], [status |-> "error"]}
             \cup {Limited(h) : h \in Headers}

TypeOK ==
  /\ now \in Nat
  /\ pc \in [Calls -> Points]
  /\ attempt \in [Calls -> 0..(MaxRetries - 1)]
  /\ body \in [Calls -> Bodies]
  /\ alive \in [Calls -> BOOLEAN]
  /\ wire \in [Calls -> {"none", "whole", "empty"}]
  /\ answer \in [Calls -> Answers]
  /\ wake \in [Calls -> Int] /\ asked \in [Calls -> Int]
  /\ applied \in [Calls -> Seq({"whole", "empty"})]
  /\ outcome \in [Calls -> {"open", "ok", "error", "limited", "failed"}]

Init ==
  /\ now = 0
  /\ pc = [c \in Calls |-> "idle"]
  /\ attempt = [c \in Calls |-> 0]
  /\ body = [c \in Calls |-> "none"]
  /\ alive = [c \in Calls |-> TRUE]
  /\ wire = [c \in Calls |-> "none"]
  /\ answer = [c \in Calls |-> Nothing]
  /\ wake = [c \in Calls |-> 0] /\ asked = [c \in Calls |-> 0]
  /\ applied = [c \in Calls |-> <<>>]
  /\ outcome = [c \in Calls |-> "open"]

Move(c, from, to) == pc[c] = from /\ pc' = [pc EXCEPT ![c] = to]
Return(c, from, how) ==
  Move(c, from, "done") /\ outcome' = [outcome EXCEPT ![c] = how]

SecondsOnly(h) ==        \* mutation: a date is taken for a missing header
  IF h.kind = "secs" THEN h.n ELSE DefaultDelay
\* parseRetryAfter.  A negative number of seconds is a pause that ends at once.
Delay(h) ==
  CASE h.kind = "secs" -> h.n
    [] h.kind = "date" -> IF h.n > now THEN h.n - now ELSE DefaultDelay
    [] OTHER -> DefaultDelay

-----------------------------------------------------------------------------
Start(c) ==
  /\ Move(c, "idle", "prepare")
  /\ \E b \in Bodies : body' = [body EXCEPT ![c] = b]
  /\ UNCHANGED <<now, attempt, alive, wire, answer, wake, asked, applied,
                 outcome>>

SharedBody(c) ==         \* mutation: Clone without GetBody, the body is used up
  IF attempt[c] = 0 \/ body[c] = "none" THEN "whole" ELSE "empty"
Payload(c) == "whole"

InTime(c) == alive[c]

\* cloneRequestForAttempt, then http.Client.Do up to the request being sent; a
\* cancelled context is noticed there.
Attempt(c) ==
  /\ IF body[c] # "oneshot" /\ InTime(c)
     THEN /\ Move(c, "prepare", "sent")
          /\ wire' = [wire EXCEPT ![c] = Payload(c)]
          /\ UNCHANGED outcome
     ELSE Return(c, "prepare", "failed") /\ UNCHANGED wire
  /\ UNCHANGED <<now, attempt, body, alive, answer, wake, asked, applied>>

Answer(c, a) ==
  /\ answer' = [answer EXCEPT ![c] = IF pc[c] = "sent" THEN a ELSE @]
  /\ wire' = [wire EXCEPT ![c] = "none"]

\* oCIS acts on a request or refuses it; a limiter refuses before acting.  An
\* error may come from a proxy in front of an oCIS that acts.
Handle(c) ==
  /\ wire[c] # "none"
  /\ \/ /\ applied' = [applied EXCEPT ![c] = Append(@, wire[c])]
        /\ \E s \in {"ok", "error"} : Answer(c, [status |-> s])
        /\ UNCHANGED asked
     \/ Answer(c, [status |-> "error"]) /\ UNCHANGED <<applied, asked>>
     \/ \E h \in Headers :
          /\ Answer(c, Limited(h))
          /\ asked' = [asked EXCEPT ![c] = CASE h.kind = "secs" -> now + h.n
                                             [] h.kind = "date" -> h.n
                                             [] OTHER -> now]
          /\ UNCHANGED applied
  /\ UNCHANGED <<now, local, alive, outcome>>

OneMore(c) == attempt[c] = MaxRetries   \* mutation: off by one
LastAttempt(c) == attempt[c] = MaxRetries - 1

\* The response to an attempt: a 429 is followed by a pause, the last one by an
\* APIError; any other response is returned.
Receive(c) ==
  LET status == answer[c].status IN
  /\ answer[c] # Nothing
  /\ answer' = [answer EXCEPT ![c] = Nothing]
  /\ IF status = "limited" /\ ~LastAttempt(c)
     THEN /\ Move(c, "sent", "pause")
          /\ attempt' = [attempt EXCEPT ![c] = @ + 1]
          /\ wake' = [wake EXCEPT ![c] = now + Delay(answer[c].after)]
          /\ UNCHANGED outcome
     ELSE Return(c, "sent", status) /\ UNCHANGED <<attempt, wake>>
  /\ UNCHANGED <<now, body, alive, wire, asked, applied>>

NoTimeout(c) == ~alive[c]    \* mutation: http.Client without Timeout
Broken(c) == "lost" \in Faults \/ ~alive[c]

\* http.Client.Do fails: no answer in time, connection lost, or cancelled.  What
\* was written may have reached oCIS or not.
GiveUp(c) ==
  /\ Broken(c)
  /\ Return(c, "sent", "failed")
  /\ answer' = [answer EXCEPT ![c] = Nothing]
  /\ wire' \in {wire, [wire EXCEPT ![c] = "none"]}
  /\ UNCHANGED <<now, attempt, body, alive, wake, asked, applied>>

Wake(c) ==
  /\ now >= wake[c]
  /\ Move(c, "pause", "prepare")
  /\ UNCHANGED <<now, attempt, body, alive, wire, answer, wake, asked, applied,
                 outcome>>

\* The MCP client disconnects or cancels the tool call.
Cancel(c) ==
  /\ pc[c] # "done" /\ alive[c]
  /\ alive' = [alive EXCEPT ![c] = FALSE]
  /\ UNCHANGED <<now, local, wire, answer, asked, applied, outcome>>

Tick ==
  /\ now < MaxTime \/ \E c \in Calls : pc[c] = "pause" /\ now < wake[c]
  /\ now' = now + 1
  /\ UNCHANGED <<local, alive, wire, answer, asked, applied, outcome>>

Proceed(c) == Attempt(c) \/ Receive(c) \/ GiveUp(c) \/ Wake(c)

Next ==
  \/ \E c \in Calls : \/ Start(c) \/ Proceed(c)
                      \/ Handle(c) \/ Cancel(c)
  \/ Tick

\* A goroutine that can go on does; time passes.  That a request which oCIS
\* never answers is given up is HTTPTimeout, 30 s unless it is configured as 0.
Fairness == /\ \A c \in Calls : WF_vars(Proceed(c))
            /\ WF_vars(Tick)

Spec == Init /\ [][Next]_vars
FairSpec == Spec /\ Fairness

-----------------------------------------------------------------------------
\* However the calls, oCIS's answers, lost connections and cancellations are
\* interleaved, Do keeps the promise of OcisCall: retrying never makes oCIS act
\* twice, never sends it a body that an earlier attempt used up, and "rate
\* limited" is never said of a request oCIS acted on.
Promise == INSTANCE OcisCall
KeepsPromise == Promise!Spec

\* No attempt is made before the time oCIS asked for,
\* whether it gave seconds or a date (parseRetryAfter).
HonoursRetryAfter ==
  [][\A c \in Calls : pc[c] = "prepare" /\ pc'[c] = "sent" =>
       attempt[c] = 0 \/ now >= asked[c]]_vars

\* Every call returns, whatever oCIS answers or fails to answer.
Returns == \A c \in Calls : pc[c] = "prepare" ~> pc[c] = "done"
=============================================================================
