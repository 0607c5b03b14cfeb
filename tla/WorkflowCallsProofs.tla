------------------------ MODULE WorkflowCallsProofs ------------------------
(***************************************************************************)
(* What the replies of the composite tools are worth, for any calls of any *)
(* number, any faults and any interference of other users.                 *)
(*                                                                         *)
(* RepliesAreTrue speaks of told and done, which no step relates directly: *)
(* what links them is known, the handler's view of its own requests.       *)
(***************************************************************************)
EXTENDS WorkflowCalls, TLAPS

Requests == Changes \cup Reads

\* A handler believes of its changes only what oCIS did, and tells only what it
\* believes.
Truthful == \A c \in Calls :
  /\ known[c] \cap Changes \subseteq done[c]
  /\ told[c] \subseteq known[c] \cup {"ok", "error"}

\* A reply is the last thing a handler does, and leaves no change out.
Complete == \A c \in Calls :
  told[c] # {} => pc[c] = "end" /\ known[c] \cap Changes \subseteq told[c]

\* An upload beyond its first request has written an item and found one; where
\* the two differ the one written is no longer at the path, and it never comes
\* back there.
Own(g, w, i) == g # None => w # None /\ (g = w \/ w # i)

Uploaded == \A c \in Uploads :
  /\ pc[c] \in {"idle", "put", "found"} => got[c] = None
  /\ pc[c] \notin {"idle", "put", "end"} => wrote[c] # None
  /\ "invite" \in done[c] => got[c] # None
  /\ Own(got[c], wrote[c], item)

IInv == TypeOK /\ Truthful /\ Complete /\ Uploaded

-----------------------------------------------------------------------------
\* The points a call can reach are those of Points.
LEMMA FirstType == ASSUME NEW c \in Calls PROVE First(c) \in Points \ {"idle", "end", "invite"}
  BY DEF First, Points, Changes, Reads, Calls

\* The next request exists; it is an invitation only after a lookup.
LEMMA NextPoint ==
  ASSUME NEW c \in Calls, NEW p \in Requests
  PROVE  /\ AfterSuccess(c, p) \in Points \ {"idle", "put"}
         /\ AfterSuccess(c, p) = "invite" => p = "found"
         /\ AfterSuccess(c, p) = "found" => p = "put"
         /\ AfterError(c, p) \in {"perms", "end"}
         /\ AfterError(c, p) = "perms" => p = "root"
  BY DEF AfterSuccess, AfterError, Requests, Points, Changes, Reads

\* How the path may change: what was there stays, goes, or something new comes.
Moves == /\ items' \in 0..MaxItems /\ item' \in 0..items' /\ items <= items'
         /\ item' \in {item, None} \/ item' > items

LEMMA PutMoves ==
  ASSUME TypeOK, PutItem
  PROVE  Moves /\ item' # None
BY WorkflowsAssumption DEF PutItem, TypeOK, Moves, None

\* An item that is not at the path is not there after any such change.
LEMMA NeverBack ==
  ASSUME TypeOK, Moves, NEW w \in 0..items, w # None
  PROVE  w \in 0..items' /\ (w # item => w # item')
BY DEF TypeOK, Moves, None

\* What oCIS does for one call leaves what it did for the others, and adds at
\* most the change that was asked for.
LEMMA ActEffect ==
  ASSUME TypeOK, NEW c \in Calls, NEW p \in Requests, Act(c, p)
  PROVE  /\ done' = [done EXCEPT ![c] = @ \cup ({p} \cap Changes)]
         /\ done' \in [Calls -> SUBSET Changes]
         /\ Moves
         /\ wrote' = [wrote EXCEPT ![c] = IF p = "put" THEN item' ELSE @]
         /\ wrote' \in [Calls -> 0..items']
         /\ UNCHANGED strict
         /\ p = "put" => item' # None
         /\ p # "put" => item' = item
         /\ p \in {"found", "content"} => item # None
         /\ p = "invite" => got[c] = item
<1>0. done' = [done EXCEPT ![c] = @ \cup ({p} \cap Changes)]
  BY DEF Act
<1>1. done' \in [Calls -> SUBSET Changes]
  BY <1>0 DEF TypeOK
<1>2. CASE p = "put"
  <2>1. PutItem /\ wrote' = [wrote EXCEPT ![c] = item']
    BY <1>2 DEF Act
  <2>2. Moves /\ item' # None
    BY <2>1, PutMoves
  <2>3. wrote' \in [Calls -> 0..items']
    <3>1. wrote \in [Calls -> 0..items']
      BY <2>2 DEF TypeOK, Moves
    <3> QED BY <2>1, <2>2, <3>1 DEF Moves
  <2> QED BY <1>0, <1>1, <1>2, <2>1, <2>2, <2>3 DEF Act
<1>3. CASE p # "put"
  <2>1. item' = item /\ items' = items /\ wrote' = wrote
    BY <1>3 DEF Act
  <2>2. Moves
    BY <2>1 DEF TypeOK, Moves
  <2>3. wrote' = [wrote EXCEPT ![c] = IF p = "put" THEN item' ELSE @]
    BY <1>3, <2>1 DEF TypeOK
  <2> QED BY <1>0, <1>1, <1>3, <2>1, <2>2, <2>3 DEF Act, TypeOK
<1> QED BY <1>2, <1>3

\* Own survives whatever happens to the path.
LEMMA OwnStays ==
  ASSUME TypeOK, Moves, NEW c \in Calls, Own(got[c], wrote[c], item)
  PROVE  Own(got[c], wrote[c], item')
<1>1. wrote[c] \in 0..items
  BY DEF TypeOK
<1>2. wrote[c] # None => (wrote[c] # item => wrote[c] # item')
  BY <1>1, NeverBack
<1> QED BY <1>2 DEF Own

-----------------------------------------------------------------------------
LEMMA InitIInv == Init => IInv
  BY WorkflowsAssumption
  DEF Init, IInv, TypeOK, Truthful, Complete, Uploaded, Own, Points, Calls, None

LEMMA StartPreserves == ASSUME IInv, NEW c \in Calls, Start(c) PROVE IInv'
<1>1. First(c) \in Points \ {"idle", "end", "invite"} BY FirstType
<1>2. c \in Uploads => First(c) = "put"
  BY WorkflowsAssumption DEF First
<1>3. TypeOK'
  BY <1>1 DEF IInv, Start, TypeOK, ocis
<1>4. Truthful'
  BY DEF IInv, Start, Truthful, ocis
<1>5. Complete'
  BY DEF IInv, Start, Complete, TypeOK, ocis
<1>6. Uploaded'
  BY <1>2 DEF IInv, Start, Uploaded, TypeOK, ocis, Calls
<1> QED BY <1>3, <1>4, <1>5, <1>6 DEF IInv

LEMMA SucceedPreserves == ASSUME IInv, NEW c \in Calls, Succeed(c) PROVE IInv'
<1> DEFINE p == pc[c]
           k == known[c] \cup {p}
           q == AfterSuccess(c, p)
<1>1. p \in Requests
  BY DEF IInv, TypeOK, Succeed, Points, Requests
<1>2. /\ done' = [done EXCEPT ![c] = @ \cup ({p} \cap Changes)]
      /\ done' \in [Calls -> SUBSET Changes]
      /\ Moves
      /\ wrote' = [wrote EXCEPT ![c] = IF p = "put" THEN item' ELSE @]
      /\ wrote' \in [Calls -> 0..items']
      /\ UNCHANGED strict
      /\ p = "put" => item' # None
      /\ p # "put" => item' = item
      /\ p \in {"found", "content"} => item # None
      /\ p = "invite" => got[c] = item
  BY <1>1, ActEffect DEF IInv, Succeed
<1>3. /\ q \in Points \ {"idle", "put"}
      /\ q = "invite" => p = "found"
      /\ q = "found" => p = "put"
  BY <1>1, NextPoint
<1>4. /\ known' = [known EXCEPT ![c] = k]
      /\ pc' = [pc EXCEPT ![c] = q]
      /\ got' = [got EXCEPT ![c] = IF p = "found" THEN item ELSE @]
      /\ \/ q # "end" /\ told' = told
         \/ q = "end" /\ told' = [told EXCEPT ![c] = k \cup {"ok"}]
  BY DEF Succeed, Reply, Said
<1>5. told[c] = {}
  BY <1>1 DEF IInv, Complete, Requests, Changes, Reads
<1>6. TypeOK'
  <2>1. known' \in [Calls -> SUBSET (Changes \cup Reads)]
    BY <1>1, <1>4 DEF IInv, TypeOK, Requests
  <2>2. pc' \in [Calls -> Points]
    BY <1>3, <1>4 DEF IInv, TypeOK
  <2>3. got' \in [Calls -> 0..MaxItems]
    <3>1. item \in 0..MaxItems BY WorkflowsAssumption DEF IInv, TypeOK
    <3> QED BY <1>4, <3>1 DEF IInv, TypeOK
  <2>4. told' \in [Calls -> SUBSET (Changes \cup Reads \cup {"error", "ok"})]
    BY <1>1, <1>4 DEF IInv, TypeOK, Requests
  <2>5. ASSUME NEW d \in Calls, pc'[d] = "invite" PROVE got'[d] # 0
    <3>1. CASE d = c
      BY <3>1, <2>5, <1>2, <1>3, <1>4 DEF IInv, TypeOK, None
    <3>2. CASE d # c
      BY <3>2, <2>5, <1>4 DEF IInv, TypeOK
    <3> QED BY <3>1, <3>2
  <2> QED BY <1>2, <2>1, <2>2, <2>3, <2>4, <2>5 DEF IInv, TypeOK, Moves
<1>7. Truthful'
  BY <1>1, <1>2, <1>4 DEF IInv, TypeOK, Truthful
<1>8. Complete'
  BY <1>1, <1>4, <1>5 DEF IInv, TypeOK, Complete
<1>9. Uploaded'
  <2> SUFFICES ASSUME NEW d \in Uploads
               PROVE  /\ pc'[d] \in {"idle", "put", "found"} => got'[d] = None
                      /\ pc'[d] \notin {"idle", "put", "end"} => wrote'[d] # None
                      /\ "invite" \in done'[d] => got'[d] # None
                      /\ Own(got'[d], wrote'[d], item')
    BY DEF Uploaded
  <2>0. d \in Calls BY DEF Calls
  <2>1. /\ pc[d] \in {"idle", "put", "found"} => got[d] = None
        /\ pc[d] \notin {"idle", "put", "end"} => wrote[d] # None
        /\ "invite" \in done[d] => got[d] # None
        /\ Own(got[d], wrote[d], item)
    BY DEF IInv, Uploaded
  <2>2. Own(got[d], wrote[d], item')
    BY <1>2, <2>0, <2>1, OwnStays DEF IInv
  <2>3. CASE d # c
    <3>1. /\ pc'[d] = pc[d] /\ got'[d] = got[d]
          /\ wrote'[d] = wrote[d] /\ done'[d] = done[d]
      BY <2>0, <2>3, <1>2, <1>4 DEF IInv, TypeOK
    <3> QED BY <3>1, <2>1, <2>2
  <2>4. CASE d = c
    <3>1. /\ pc'[d] = q /\ done'[d] = done[d] \cup ({p} \cap Changes)
          /\ got'[d] = (IF p = "found" THEN item ELSE got[d])
          /\ wrote'[d] = (IF p = "put" THEN item' ELSE wrote[d])
      BY <2>0, <2>4, <1>2, <1>4 DEF IInv, TypeOK
    <3>2. CASE p = "put"
      <4>1. got'[d] = None /\ wrote'[d] # None /\ "invite" \notin done'[d]
        BY <2>1, <2>4, <3>1, <3>2, <1>2
      <4> QED BY <4>1 DEF Own
    <3>3. CASE p = "found"
      <4>1. /\ wrote'[d] = wrote[d] /\ wrote[d] # None
            /\ got'[d] = item /\ item # None /\ item' = item
        BY <2>1, <2>4, <3>1, <3>3, <1>2
      <4>2. q \notin {"idle", "put", "found"}
        BY <3>3, <1>3
      <4> QED BY <3>1, <4>1, <4>2 DEF Own
    <3>4. CASE p \notin {"put", "found"}
      <4>1. got'[d] = got[d] /\ wrote'[d] = wrote[d] /\ wrote[d] # None
        BY <1>1, <2>1, <2>4, <3>1, <3>4 DEF Requests, Changes, Reads
      <4>2. q \notin {"idle", "put", "found"}
        BY <3>4, <1>3
      <4>3. p = "invite" => got[d] # None
        BY <2>4 DEF IInv, TypeOK, None
      <4> QED BY <2>1, <2>2, <3>1, <4>1, <4>2, <4>3
    <3> QED BY <3>2, <3>3, <3>4
  <2> QED BY <2>3, <2>4
<1> QED BY <1>6, <1>7, <1>8, <1>9 DEF IInv

LEMMA FailPreserves == ASSUME IInv, NEW c \in Calls, Fail(c) PROVE IInv'
<1> DEFINE p == pc[c]
           q == AfterError(c, p)
<1>1. p \in Requests
  BY DEF IInv, TypeOK, Fail, Points, Requests
<1>2. UNCHANGED ocis \/ Act(c, p)
  BY DEF Fail
<1>3. /\ done' = done \/ done' = [done EXCEPT ![c] = @ \cup ({p} \cap Changes)]
      /\ done' \in [Calls -> SUBSET Changes]
      /\ Moves
      /\ wrote' \in [Calls -> 0..items']
      /\ \/ wrote' = wrote
         \/ p = "put" /\ wrote' = [wrote EXCEPT ![c] = item'] /\ item' # None
  <2>1. CASE UNCHANGED ocis
    BY <2>1 DEF IInv, TypeOK, ocis, Moves
  <2>2. CASE Act(c, p)
    <3>1. /\ done' = [done EXCEPT ![c] = @ \cup ({p} \cap Changes)]
          /\ done' \in [Calls -> SUBSET Changes]
          /\ Moves /\ wrote' \in [Calls -> 0..items']
          /\ wrote' = [wrote EXCEPT ![c] = IF p = "put" THEN item' ELSE @]
          /\ p = "put" => item' # None
      BY <1>1, <2>2, ActEffect DEF IInv
    <3>2. p # "put" => wrote' = wrote
      BY <3>1 DEF IInv, TypeOK
    <3> QED BY <3>1, <3>2
  <2> QED BY <1>2, <2>1, <2>2
<1>4. /\ q \in {"perms", "end"}
      /\ q = "perms" => p = "root"
  BY <1>1, NextPoint
<1>5. /\ pc' = [pc EXCEPT ![c] = q]
      /\ UNCHANGED <<strict, known, got>>
      /\ \/ q # "end" /\ told' = told
         \/ \E v \in {"ok", "error"} :
              q = "end" /\ told' = [told EXCEPT ![c] = known[c] \cup {v}]
  BY DEF Fail, Reply, Said
<1>6. told[c] = {}
  BY <1>1 DEF IInv, Complete, Requests, Changes, Reads
<1>7. TypeOK'
  BY <1>3, <1>4, <1>5 DEF IInv, TypeOK, Points, Changes, Reads, Moves
<1>8. Truthful'
  BY <1>3, <1>5 DEF IInv, TypeOK, Truthful
<1>9. Complete'
  BY <1>5, <1>6 DEF IInv, TypeOK, Complete
<1>10. Uploaded'
  <2> SUFFICES ASSUME NEW d \in Uploads
               PROVE  /\ pc'[d] \in {"idle", "put", "found"} => got'[d] = None
                      /\ pc'[d] \notin {"idle", "put", "end"} => wrote'[d] # None
                      /\ "invite" \in done'[d] => got'[d] # None
                      /\ Own(got'[d], wrote'[d], item')
    BY DEF Uploaded
  <2>0. d \in Calls BY DEF Calls
  <2>1. /\ pc[d] \in {"idle", "put", "found"} => got[d] = None
        /\ pc[d] \notin {"idle", "put", "end"} => wrote[d] # None
        /\ "invite" \in done[d] => got[d] # None
        /\ Own(got[d], wrote[d], item)
    BY DEF IInv, Uploaded
  <2>2. Own(got[d], wrote[d], item') /\ got'[d] = got[d]
    BY <1>3, <1>5, <2>0, <2>1, OwnStays DEF IInv
  <2>3. CASE d # c
    <3>1. pc'[d] = pc[d] /\ wrote'[d] = wrote[d] /\ done'[d] = done[d]
      BY <2>0, <2>3, <1>3, <1>5 DEF IInv, TypeOK
    <3> QED BY <3>1, <2>1, <2>2
  <2>4. CASE d = c
    <3>1. pc'[d] = q /\ done'[d] \subseteq done[d] \cup {p}
      BY <2>0, <2>4, <1>3, <1>5 DEF IInv, TypeOK
    <3>2. q \notin {"idle", "put", "found"}
      BY <1>4
    <3>3. p = "invite" => got[d] # None
      BY <2>4 DEF IInv, TypeOK, None
    <3>4. CASE wrote' = wrote
      <4>1. q # "end" => wrote[d] # None
        BY <1>4, <2>1, <2>4
      <4> QED BY <2>1, <2>2, <3>1, <3>2, <3>3, <3>4, <4>1
    <3>5. CASE p = "put" /\ wrote' = [wrote EXCEPT ![c] = item'] /\ item' # None
      <4>1. got[d] = None /\ q = "end"
        BY <1>4, <2>1, <2>4, <3>5
      <4> QED BY <2>1, <2>2, <3>1, <3>5, <4>1 DEF Own
    <3> QED BY <1>3, <3>4, <3>5
  <2> QED BY <2>3, <2>4
<1> QED BY <1>7, <1>8, <1>9, <1>10 DEF IInv

LEMMA OtherUserPreserves == ASSUME IInv, OtherUser PROVE IInv'
<1>0. UNCHANGED <<strict, done, pc, known, got, told, wrote>>
  BY DEF OtherUser
<1>1. Moves
  <2>1. CASE PutItem
    BY <2>1, PutMoves DEF IInv
  <2>2. CASE item' = None /\ UNCHANGED items
    BY <2>2 DEF IInv, TypeOK, Moves, None
  <2> QED BY <2>1, <2>2 DEF OtherUser
<1>2. wrote' \in [Calls -> 0..items']
  BY <1>0, <1>1 DEF IInv, TypeOK, Moves
<1>3. TypeOK'
  BY <1>0, <1>1, <1>2 DEF IInv, TypeOK, Moves
<1>4. \A c \in Uploads : Own(got[c], wrote[c], item')
  <2> SUFFICES ASSUME NEW c \in Uploads
               PROVE  Own(got[c], wrote[c], item')
    OBVIOUS
  <2>1. c \in Calls /\ Own(got[c], wrote[c], item)
    BY DEF IInv, Uploaded, Calls
  <2> QED BY <1>1, <2>1, OwnStays DEF IInv
<1>5. Uploaded'
  BY <1>0, <1>4 DEF IInv, Uploaded
<1> QED BY <1>0, <1>3, <1>5 DEF IInv, Truthful, Complete

\* The strengthening holds: told, known and done of every call are kept in step
\* by every request, failure and interference.
THEOREM Invariant == Spec => []IInv
<1>1. Init => IInv BY InitIInv
<1>2. IInv /\ [Next]_vars => IInv'
  <2> SUFFICES ASSUME IInv, [Next]_vars PROVE IInv' OBVIOUS
  <2>1. CASE OtherUser BY <2>1, OtherUserPreserves
  <2>2. CASE \E c \in Calls : Start(c) BY <2>2, StartPreserves
  <2>3. CASE \E c \in Calls : Succeed(c) BY <2>3, SucceedPreserves
  <2>4. CASE \E c \in Calls : Fail(c) BY <2>4, FailPreserves
  <2>5. CASE UNCHANGED vars
    BY <2>5 DEF vars, ocis, IInv, TypeOK, Truthful, Complete, Uploaded
  <2> QED BY <2>1, <2>2, <2>3, <2>4, <2>5 DEF Next
<1> QED BY <1>1, <1>2, PTL DEF Spec

\* The state of the composite calls is well typed, and no invitation is sent
\* without the ID of an item.
THEOREM WorkflowTypeCorrect == Spec => []TypeOK
  BY Invariant, PTL DEF IInv

\* What a reply of a composite tool says was changed was changed by this call,
\* and it names every change confirmed to it, also when the call stops half-way,
\* answers are lost and other users interfere.
THEOREM RepliesHold == Spec => []RepliesAreTrue
<1>1. IInv => RepliesAreTrue
  BY DEF IInv, Truthful, Complete, RepliesAreTrue, Changes
<1> QED BY <1>1, Invariant, PTL

\* The item upload_and_share invites to is the one its own upload wrote, unless
\* another user deleted that one, for any uploads to one path at once.
THEOREM SharesAreUploads == Spec => []SharedIsUploaded
<1>1. IInv => SharedIsUploaded
  BY DEF IInv, Uploaded, Own, SharedIsUploaded
<1> QED BY <1>1, Invariant, PTL
=============================================================================
