----------------------- MODULE UpstreamRefreshProofs -----------------------
(***************************************************************************)
(* The refresh of a grant's oCIS tokens, for any number of requests, any   *)
(* clock skew and token lifetimes, and any faults.                         *)
(*                                                                         *)
(* No lock serialises the requests that refresh one grant; with a provider *)
(* that rotates refresh tokens the token does: only who holds the current  *)
(* one can exchange it, and nobody else gets hold of the next one before   *)
(* it is in the row.                                                       *)
(***************************************************************************)
EXTENDS UpstreamRefresh, TLAPS

\* The provider accepts at most one refresh token, and every token known
\* anywhere was issued before.
Issued ==
  /\ \A t, u \in idp : t = u
  /\ \A t \in idp : t <= minted
  /\ row.tok.acc <= minted /\ row.tok.ref <= minted
  /\ \A r \in Reqs : loc[r].acc <= minted /\ loc[r].ref <= minted

\* A request on its way to write a token is the only one that has it, and has
\* the newest access token.
Alone == \A r \in Reqs : Holding(r) =>
  /\ loc[r].ref \in idp /\ loc[r].acc = minted
  /\ row.tok.ref \notin idp
  /\ \A q \in Reqs \ {r} : loc[q].ref \notin idp

\* The token is in the row or on its way there ...
Kept == \A t \in idp : \/ row.tok.ref = t
                       \/ \E r \in Reqs : Holding(r) /\ loc[r].ref = t
\* ... or the grant was closed while it was on its way; nobody can refresh it
\* again then.
Dead == /\ row.state # "live"
        /\ \A r \in Reqs :
             /\ ~Holding(r)
             /\ pc[r] \in {"decide", "exchange"} => loc[r].ref \notin idp

IInv == TypeOK /\ Issued /\ Alone /\ (lost \/ Kept \/ Dead)

-----------------------------------------------------------------------------
LEMMA TokenTypes ==
  ASSUME TypeOK
  PROVE  /\ row.tok \in Tokens /\ row.tok.acc \in Nat /\ row.tok.ref \in Nat
         /\ row.state \in {"live", "revoked", "deleted"}
         /\ \A r \in Reqs : /\ loc[r] \in Tokens /\ pc[r] \in Points
                            /\ loc[r].acc \in Nat /\ loc[r].ref \in Nat
         /\ minted \in Nat /\ idp \subseteq Nat \ {0}
  BY ConstantsAssumption DEF TypeOK, Row, Tokens

LEMMA InitType == Init => TypeOK
<1> SUFFICES ASSUME Init PROVE TypeOK OBVIOUS
<1>1. PICK life \in Lifetimes, ref \in {0, 1} :
        row = [state |-> "live", tok |-> [acc |-> 1, ref |-> ref, exp |-> life]]
  BY DEF Init
<1>2. [acc |-> 1, ref |-> ref, exp |-> life] \in Tokens
  BY ConstantsAssumption DEF Tokens
<1>3. row \in Row /\ row.tok.ref = ref
  BY <1>1, <1>2 DEF Row
<1>4. NoTokens \in Tokens
  BY ConstantsAssumption DEF NoTokens, Tokens
<1>5. now \in Nat /\ minted \in 1..MaxMinted /\ lost \in BOOLEAN
  <2>1. 1 \in 1..MaxMinted
    BY ConstantsAssumption
  <2>2. now = 0 /\ minted = 1 /\ lost = FALSE
    BY DEF Init
  <2> QED BY <2>1, <2>2
<1>6. idp \subseteq 1..MaxMinted
  BY <1>3, ConstantsAssumption DEF Init
<1>7. pc \in [Reqs -> Points] /\ loc \in [Reqs -> Tokens]
  BY <1>4 DEF Init, Points
<1> QED BY <1>3, <1>5, <1>6, <1>7 DEF TypeOK

\* Every step of one request keeps the types.
LEMMA StepType == ASSUME TypeOK, [Next]_vars PROVE TypeOK'
<1>1. ASSUME NEW r \in Reqs, Arrive(r) \/ Decide(r) PROVE TypeOK'
  BY <1>1 DEF Arrive, Decide, Move, TypeOK, Points
<1>2. ASSUME NEW r \in Reqs, GetGrant(r) PROVE TypeOK'
  BY <1>2, TokenTypes DEF GetGrant, Move, Keep, TypeOK, Points
<1>3. ASSUME NEW r \in Reqs, Exchange(r) PROVE TypeOK'
  <2> DEFINE new == IF Rotating THEN minted + 1 ELSE 0
  <2>1. CASE UNCHANGED <<now, row, idp, minted, loc, lost>> /\ Move(r, "exchange", AfterFailure)
    BY <2>1 DEF Move, AfterFailure, TypeOK, Points
  <2>2. CASE /\ loc[r].ref \in idp /\ minted < MaxMinted
             /\ minted' = minted + 1
             /\ idp' = IF Rotating THEN (idp \ {loc[r].ref}) \cup {new} ELSE idp
             /\ UNCHANGED <<now, row>>
             /\ \E p \in {"reread", AfterFailure} : Move(r, "exchange", p)
             /\ \/ UNCHANGED loc
                \/ \E life \in Lifetimes :
                     Keep(r, [acc |-> minted + 1, ref |-> NewRefresh(loc[r], new),
                              exp |-> Expiry(life)])
             /\ lost' \in BOOLEAN
    <3>1. minted' \in 1..MaxMinted /\ idp' \subseteq 1..MaxMinted /\ new \in 0..MaxMinted
      <4>1. minted \in 1..MaxMinted /\ minted < MaxMinted /\ minted' = minted + 1
        BY <2>2 DEF TypeOK
      <4>2. minted + 1 \in 1..MaxMinted /\ 0 \in 0..MaxMinted
        BY <4>1, ConstantsAssumption
      <4>3. new \in 0..MaxMinted
        BY <4>2, ConstantsAssumption
      <4>4. Rotating => new \in 1..MaxMinted
        BY <4>2
      <4>5. idp' \subseteq 1..MaxMinted
        <5> HIDE DEF new
        <5> QED BY <2>2, <4>4 DEF TypeOK
      <4> QED BY <4>1, <4>2, <4>3, <4>5
    <3>2. pc' \in [Reqs -> Points]
      BY <2>2 DEF Move, AfterFailure, TypeOK, Points
    <3>3. loc' \in [Reqs -> Tokens]
      <4>1. NewRefresh(loc[r], new) \in 0..MaxMinted
        BY <3>1, TokenTypes DEF NewRefresh, Tokens
      <4>2. \A life \in Lifetimes : [acc |-> minted + 1, ref |-> NewRefresh(loc[r], new),
                                     exp |-> Expiry(life)] \in Tokens
        BY <2>2, <4>1, ConstantsAssumption DEF Tokens, Expiry, TypeOK
      <4> QED BY <2>2, <4>2 DEF Keep, TypeOK
    <3> QED BY <2>2, <3>1, <3>2, <3>3 DEF TypeOK
  <2> QED BY <1>3, <2>1, <2>2 DEF Exchange, TypeOK
<1>4. ASSUME NEW r \in Reqs, Reread(r) PROVE TypeOK'
  BY <1>4 DEF Reread, Move, TypeOK, Points
<1>5. ASSUME NEW r \in Reqs, Rewrite(r) PROVE TypeOK'
  <2>1. [state |-> "live", tok |-> loc[r]] \in Row
    BY TokenTypes DEF Row
  <2> QED BY <1>5, <2>1 DEF Rewrite, Move, TypeOK, Points
<1>6. NoTokens \in Tokens
  BY ConstantsAssumption DEF NoTokens, Tokens
<1>7. ASSUME NEW r \in Reqs, Serve(r) PROVE TypeOK'
  BY <1>6, <1>7 DEF Serve, Move, Keep, TypeOK, Points
<1>8. CASE RevokeGrant \/ DeleteGrant
  BY <1>8 DEF RevokeGrant, DeleteGrant, TypeOK, Row
<1>9. CASE Restart
  BY <1>6, <1>9 DEF Restart, TypeOK, Points
<1>10. CASE Tick
  BY <1>10 DEF Tick, TypeOK
<1>11. CASE UNCHANGED vars
  BY <1>11 DEF vars, TypeOK
<1> QED BY <1>1, <1>2, <1>3, <1>4, <1>5, <1>7, <1>8, <1>9, <1>10, <1>11 DEF Next

\* Tokens, states and times are well typed, whatever the provider does.
THEOREM RefreshTypeCorrect == Spec => []TypeOK
  BY InitType, StepType, PTL DEF Spec

-----------------------------------------------------------------------------
\* No new request gets past GetGrant on a closed grant, and none is left there.
\* A revoked or deleted grant on which no request is under way stays closed.
THEOREM ClosedGrantsStayClosed == Spec => ClosedStaysClosed
<1>1. TypeOK /\ [Next]_vars => (Closed => Closed')
  <2> SUFFICES ASSUME TypeOK, [Next]_vars, Closed PROVE Closed' OBVIOUS
  <2>1. \A r \in Reqs : ~Decide(r) /\ ~Exchange(r) /\ ~Reread(r) /\ ~Rewrite(r) /\ ~Serve(r)
    BY DEF Closed, Decide, Exchange, Reread, Rewrite, Serve, Move
  <2>2. ASSUME NEW r \in Reqs, Arrive(r) \/ GetGrant(r) PROVE Closed'
    <3>1. UNCHANGED row /\ \E p \in {"idle", "get"} : pc' = [pc EXCEPT ![r] = p]
      BY <2>2 DEF Arrive, GetGrant, Move, Readable, Found, Closed
    <3> QED BY <3>1 DEF Closed, TypeOK
  <2>3. CASE RevokeGrant \/ DeleteGrant
    BY <2>3, TokenTypes DEF RevokeGrant, DeleteGrant, Closed, TypeOK, Row
  <2>4. CASE Restart
    BY <2>4 DEF Restart, Closed
  <2>5. CASE Tick \/ UNCHANGED vars
    BY <2>5 DEF Tick, vars, Closed
  <2> QED BY <2>1, <2>2, <2>3, <2>4, <2>5 DEF Next
<1> QED BY <1>1, RefreshTypeCorrect, PTL DEF Spec, ClosedStaysClosed

-----------------------------------------------------------------------------
LEMMA InitInv == Init => IInv
<1> SUFFICES ASSUME Init PROVE IInv OBVIOUS
<1>1. TypeOK
  BY InitType
<1>2. row.tok.acc = 1 /\ row.tok.ref \in {0, 1}
  BY DEF Init
<1>3. Issued
  BY <1>2 DEF Init, Issued, NoTokens
<1>4. Alone /\ Kept
  BY DEF Init, Alone, Kept, Holding
<1> QED BY <1>1, <1>3, <1>4 DEF IInv

\* Of all requests only one can be on its way to write a token.
LEMMA OneHolder ==
  ASSUME IInv, NEW r \in Reqs, Holding(r)
  PROVE  idp = {loc[r].ref} /\ \A q \in Reqs : Holding(q) => q = r
  BY DEF IInv, Issued, Alone

\* Under a provider that rotates, an exchange that succeeds finds no holder, and
\* leaves exactly one token that nobody else has.
LEMMA ExchangeInv ==
  ASSUME Rotating, IInv, TypeOK', NEW r \in Reqs, Exchange(r)
  PROVE  IInv'
<1> USE TokenTypes DEF IInv
<1>1. CASE UNCHANGED <<now, row, idp, minted, loc, lost>> /\ Move(r, "exchange", AfterFailure)
  <2>1. \A q \in Reqs : Holding(q)' = Holding(q)
    BY <1>1 DEF Move, AfterFailure, Holding, TypeOK
  <2>2. \A q \in Reqs : pc'[q] \in {"decide", "exchange"} => pc[q] \in {"decide", "exchange"}
    BY <1>1 DEF Move, AfterFailure, TypeOK
  <2>3. Issued' /\ Alone'
    BY <1>1, <2>1 DEF Issued, Alone
  <2>4. Kept => Kept'
    BY <1>1, <2>1 DEF Kept
  <2>5. Dead => Dead'
    BY <1>1, <2>1, <2>2 DEF Dead
  <2> QED BY <1>1, <2>3, <2>4, <2>5
<1>2. CASE /\ loc[r].ref \in idp /\ minted' = minted + 1
           /\ idp' = (idp \ {loc[r].ref}) \cup {minted + 1}
           /\ UNCHANGED row
  <2>1. idp = {loc[r].ref} /\ idp' = {minted + 1}
    BY <1>2 DEF Issued
  <2>2. pc[r] = "exchange" /\ \A q \in Reqs : ~Holding(q)
    BY <1>2 DEF Exchange, Move, Alone, Holding
  <2>3. \A q \in Reqs \ {r} : loc'[q] = loc[q] /\ pc'[q] = pc[q]
    BY DEF Exchange, Move, Keep, TypeOK
  <2>4. CASE /\ pc'[r] = "reread" /\ loc'[r].acc = minted + 1 /\ loc'[r].ref = minted + 1
             /\ UNCHANGED lost
    <3>1. \A q \in Reqs \ {r} : loc'[q].ref \notin idp' /\ ~Holding(q)'
      BY <2>1, <2>2, <2>3 DEF Issued, Holding
    <3>2. row'.tok.ref \notin idp'
      BY <1>2, <2>1 DEF Issued
    <3>3. Issued'
      BY <1>2, <2>1, <2>3, <2>4 DEF Issued
    <3>4. Alone'
      BY <1>2, <2>1, <2>4, <3>1, <3>2 DEF Alone
    <3>5. Kept'
      BY <2>1, <2>4 DEF Kept, Holding
    <3> QED BY <3>3, <3>4, <3>5
  <2>5. CASE pc'[r] = "serve" /\ lost' = TRUE /\ UNCHANGED loc
    <3>1. Issued'
      BY <1>2, <2>1, <2>5 DEF Issued
    <3>2. Alone'
      BY <2>2, <2>3, <2>5 DEF Alone, Holding
    <3> QED BY <2>5, <3>1, <3>2
  <2>6. NewRefresh(loc[r], minted + 1) = minted + 1
    BY DEF NewRefresh
  <2>7. CASE \E life \in Lifetimes :
               /\ Keep(r, [acc |-> minted + 1, ref |-> NewRefresh(loc[r], minted + 1),
                           exp |-> Expiry(life)])
               /\ Move(r, "exchange", "reread") /\ UNCHANGED lost
    BY <2>4, <2>6, <2>7 DEF Keep, Move, TypeOK
  <2>8. CASE lost' = TRUE /\ Move(r, "exchange", AfterFailure) /\ UNCHANGED loc
    BY <2>5, <2>8 DEF Move, AfterFailure, TypeOK
  <2>9. \E new \in {IF Rotating THEN minted + 1 ELSE 0} :
          \/ \E life \in Lifetimes :
               /\ Keep(r, [acc |-> minted + 1, ref |-> NewRefresh(loc[r], new),
                           exp |-> Expiry(life)])
               /\ Move(r, "exchange", "reread") /\ UNCHANGED lost
          \/ lost' = TRUE /\ Move(r, "exchange", AfterFailure) /\ UNCHANGED loc
    <3>1. minted' # minted
      BY <1>2 DEF TypeOK
    <3> QED BY <3>1, Zenon DEF Exchange
  <2> QED BY <2>7, <2>8, <2>9
<1>3. \/ UNCHANGED <<now, row, idp, minted, loc, lost>> /\ Move(r, "exchange", AfterFailure)
      \/ /\ loc[r].ref \in idp /\ minted' = minted + 1 /\ UNCHANGED row
         /\ idp' = (idp \ {loc[r].ref}) \cup {IF Rotating THEN minted + 1 ELSE 0}
  BY Zenon DEF Exchange
<1> QED BY <1>1, <1>2, <1>3

LEMMA StepInv == ASSUME Rotating, IInv, [Next]_vars PROVE IInv'
<1> USE TokenTypes DEF IInv
<1>0. TypeOK'
  BY StepType
<1>1. ASSUME NEW r \in Reqs, Arrive(r) \/ Decide(r) PROVE IInv'
  <2>1. UNCHANGED <<row, idp, minted, loc, lost>>
    BY <1>1 DEF Arrive, Decide
  <2>2. \A q \in Reqs : /\ Holding(q)' = Holding(q)
                        /\ pc'[q] \in {"decide", "exchange"} => pc[q] \in {"decide", "exchange"}
    BY <1>1 DEF Arrive, Decide, Move, Holding, TypeOK
  <2>3. Issued' /\ Alone'
    BY <2>1, <2>2 DEF Issued, Alone
  <2>4. (Kept => Kept') /\ (Dead => Dead')
    BY <2>1, <2>2 DEF Kept, Dead
  <2> QED BY <1>0, <2>1, <2>3, <2>4
<1>2. ASSUME NEW r \in Reqs, GetGrant(r) PROVE IInv'
  <2>1. UNCHANGED <<row, idp, minted, lost>>
    BY <1>2 DEF GetGrant
  <2>2. \A q \in Reqs : Holding(q)' = Holding(q) /\ (q # r => loc'[q] = loc[q] /\ pc'[q] = pc[q])
    BY <1>2 DEF GetGrant, Move, Keep, Holding, TypeOK
  <2>3. ~Holding(r) /\ (loc'[r] = loc[r] \/ loc'[r] = row.tok)
    BY <1>2 DEF GetGrant, Move, Keep, Holding, TypeOK
  <2>4. Issued' /\ Alone'
    BY <2>1, <2>2, <2>3 DEF Issued, Alone
  <2>5. Kept => Kept'
    BY <2>1, <2>2, <2>3 DEF Kept
  <2>6. Dead => Dead'
    <3>1. Dead => pc'[r] = "idle"
      BY <1>2 DEF GetGrant, Move, Dead, Readable, Found, TypeOK
    <3> QED BY <2>1, <2>2, <2>3, <3>1 DEF Dead
  <2> QED BY <1>0, <2>1, <2>4, <2>5, <2>6
<1>3. ASSUME NEW r \in Reqs, Exchange(r) PROVE IInv'
  BY <1>0, <1>3, ExchangeInv
<1>4. ASSUME NEW r \in Reqs, Reread(r) PROVE IInv'
  <2>1. UNCHANGED <<row, idp, minted, loc>> /\ Holding(r)
    BY <1>4 DEF Reread, Move, Holding
  <2>2. \A q \in Reqs : q # r => pc'[q] = pc[q]
    BY <1>4 DEF Reread, Move, TypeOK
  <2>3. \A q \in Reqs : Holding(q)' => Holding(q)
    BY <2>1, <2>2 DEF Holding
  <2>4. Issued' /\ Alone'
    BY <2>1, <2>3 DEF Issued, Alone
  <2>5. CASE pc'[r] = "rewrite" /\ UNCHANGED lost
    <3>1. \A q \in Reqs : Holding(q)' = Holding(q)
      BY <2>1, <2>2, <2>5 DEF Holding
    <3> QED BY <1>0, <2>1, <2>4, <2>5, <3>1 DEF Kept, Dead
  <2>6. CASE ~Readable /\ pc'[r] = "serve" /\ UNCHANGED lost
    <3>1. \A q \in Reqs : ~Holding(q)'
      BY <2>1, <2>3, <2>6, OneHolder DEF Holding
    <3>2. Dead'
      BY <2>1, <2>2, <2>6, <3>1 DEF Dead, Alone, Readable, Found
    <3> QED BY <1>0, <2>4, <3>2
  <2>7. CASE lost' = TRUE
    BY <1>0, <2>4, <2>7
  <2> QED BY <1>4, <2>5, <2>6, <2>7 DEF Reread, Move, TypeOK
<1>5. ASSUME NEW r \in Reqs, Rewrite(r) PROVE IInv'
  <2>1. UNCHANGED <<idp, minted, loc>> /\ Holding(r) /\ pc'[r] = "serve"
    BY <1>5 DEF Rewrite, Move, Holding, TypeOK
  <2>2. \A q \in Reqs : ~Holding(q)'
    BY <1>5, <2>1, OneHolder DEF Rewrite, Move, Holding, TypeOK
  <2>3. Alone'
    BY <2>2 DEF Alone
  <2>4. CASE row' = [state |-> "live", tok |-> loc[r]] /\ UNCHANGED lost
    <3>1. row'.tok = loc[r]
      BY <2>4
    <3>2. Issued' /\ Kept'
      BY <2>1, <3>1, OneHolder DEF Issued, Kept
    <3> QED BY <1>0, <2>3, <3>2
  <2>5. CASE UNCHANGED row /\ lost' = TRUE
    BY <1>0, <2>1, <2>3, <2>5 DEF Issued
  <2> QED BY <1>5, <2>4, <2>5 DEF Rewrite
<1>6. ASSUME NEW r \in Reqs, Serve(r) PROVE IInv'
  <2>1. UNCHANGED <<row, idp, minted, lost>> /\ pc'[r] = "idle" /\ ~Holding(r)
    BY <1>6 DEF Serve, Move, Holding, TypeOK
  <2>2. loc'[r].acc = 0 /\ loc'[r].ref = 0
    BY <1>6 DEF Serve, Keep, NoTokens, TypeOK
  <2>3. \A q \in Reqs : q # r => pc'[q] = pc[q] /\ loc'[q] = loc[q]
    BY <1>6 DEF Serve, Move, Keep, TypeOK
  <2>4. \A q \in Reqs : Holding(q)' = Holding(q)
    BY <2>1, <2>3 DEF Holding
  <2>5. Issued' /\ Alone'
    BY <2>1, <2>2, <2>3, <2>4 DEF Issued, Alone
  <2>6. (Kept => Kept') /\ (Dead => Dead')
    BY <2>1, <2>2, <2>3, <2>4 DEF Kept, Dead
  <2> QED BY <1>0, <2>1, <2>5, <2>6
<1>7. CASE RevokeGrant \/ DeleteGrant
  <2>1. row'.tok = row.tok /\ row'.state # "live" /\ UNCHANGED <<idp, minted, pc, loc, lost>>
    BY <1>7 DEF RevokeGrant, DeleteGrant, TypeOK, Row
  <2> QED BY <1>0, <2>1 DEF Issued, Alone, Kept, Dead, Holding
<1>8. CASE Restart
  <2>1. UNCHANGED <<row, idp, minted>> /\ lost' = (lost \/ \E r \in Reqs : Holding(r))
    BY <1>8 DEF Restart
  <2>2. \A r \in Reqs : pc'[r] = "idle" /\ loc'[r].acc = 0 /\ loc'[r].ref = 0
    BY <1>8 DEF Restart, NoTokens
  <2>3. Issued' /\ Alone'
    BY <2>1, <2>2 DEF Issued, Alone, Holding
  <2> QED BY <1>0, <2>1, <2>2, <2>3 DEF Kept, Dead, Holding
<1>9. CASE Tick \/ UNCHANGED vars
  <2>1. UNCHANGED <<row, idp, minted, pc, loc, lost>>
    BY <1>9 DEF Tick, vars
  <2> QED BY <1>0, <2>1 DEF Issued, Alone, Kept, Dead, Holding
<1> QED BY <1>1, <1>2, <1>3, <1>4, <1>5, <1>6, <1>7, <1>8, <1>9 DEF Next

\* With a provider that rotates, concurrent requests never lose the refresh
\* token of a live grant: only faults do.
THEOREM RefreshTokensAreKept == ASSUME Rotating PROVE Spec => []RefreshTokenKept
<1>1. IInv /\ [Next]_vars => IInv'
  BY StepInv
<1>2. IInv => RefreshTokenKept
  BY DEF IInv, Kept, Dead, RefreshTokenKept
<1> QED BY InitInv, <1>1, <1>2, PTL DEF Spec

\* With a provider that rotates, the tokens stored for a grant are never
\* replaced by older ones, although nothing but the rotation orders the writes.
THEOREM StoredTokensAreNeverOlder == ASSUME Rotating PROVE Spec => StoredTokensAdvance
<1>1. IInv /\ [Next]_vars => IInv'
  BY StepInv
<1>2. IInv /\ [Next]_vars => [row'.tok.acc >= row.tok.acc]_vars
  <2> SUFFICES ASSUME IInv, [Next]_vars PROVE row'.tok.acc >= row.tok.acc OBVIOUS
  <2> USE TokenTypes DEF IInv
  <2>1. ASSUME NEW r \in Reqs, Rewrite(r) PROVE row'.tok.acc >= row.tok.acc
    BY <2>1 DEF Rewrite, Move, Holding, Alone, Issued
  <2>2. CASE RevokeGrant \/ DeleteGrant
    BY <2>2 DEF RevokeGrant, DeleteGrant, TypeOK, Row
  <2>3. CASE UNCHANGED row
    BY <2>3
  <2> QED BY <2>1, <2>2, <2>3 DEF Next, Arrive, GetGrant, Decide, Exchange, Reread, Serve,
                                 Restart, Tick, vars
<1> QED BY InitInv, <1>1, <1>2, PTL DEF Spec, StoredTokensAdvance
=============================================================================
