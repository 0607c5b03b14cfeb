------------------------------ MODULE OcisCall ------------------------------
(***************************************************************************)
(* What a caller of Client.Do gets: one request to oCIS.  oCIS acts on it  *)
(* at most once and on the body the caller gave; the caller is told how    *)
(* the request ended.  Only two of the endings say what oCIS did: "ok" (a  *)
(* status below 400) that it acted, "limited" (429) that it did not.       *)
(* After the others oCIS may have acted, or may still.                     *)
(***************************************************************************)
CONSTANT Calls

VARIABLES
  applied,   \* the bodies oCIS acted on, in order
  outcome    \* how the call ended, "open" before

callVars == <<applied, outcome>>

Outcomes == {"open", "ok", "error", "limited", "failed"}

Init ==
  /\ applied = [c \in Calls |-> <<>>]
  /\ outcome = [c \in Calls |-> "open"]

Apply(c) ==
  /\ applied[c] = <<>>
  /\ outcome[c] \in {"open", "error", "failed"}
  /\ applied' = [applied EXCEPT ![c] = <<"whole">>]
  /\ UNCHANGED outcome

End(c, how) ==
  /\ outcome[c] = "open"
  /\ how = "ok" => applied[c] # <<>>
  /\ how = "limited" => applied[c] = <<>>
  /\ outcome' = [outcome EXCEPT ![c] = how]
  /\ UNCHANGED applied

Next == \E c \in Calls :
  Apply(c) \/ \E how \in Outcomes \ {"open"} : End(c, how)

Spec == Init /\ [][Next]_callVars
=============================================================================
