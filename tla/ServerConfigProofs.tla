------------------------- MODULE ServerConfigProofs -------------------------
(***************************************************************************)
(* What callers and restarts can do, for any grants, any environments and  *)
(* any number of starts.                                                   *)
(***************************************************************************)
EXTENDS ServerConfig, TLAPS

\* What runs was validated, in the mode Load fixed; only what runs has served.
Running ==
  /\ pc \in {"loaded", "up"} => Valid(env) /\ mode = SelectAuthMode(env)
  /\ pc # "up" => reply = Quiet

\* A grant with a refresh token, at the client or in the hands of a handler, is
\* sealed under the key it was given with; a handler has it only while the process
\* runs, and has read the grant only under that key.
SealedAsBorn ==
  /\ refresh \subseteq Grants
  /\ sealed = [g \in Grants |-> sealed[g]] /\ born = [g \in Grants |-> born[g]]
  /\ turn = [g \in Grants |-> turn[g]]
  /\ \A g \in refresh \cup InTurn : sealed[g] = <<"HKDF", born[g]>>
  /\ InTurn # {} => pc = "up"
  /\ \A g \in Grants : turn[g] = "read" => Opens(g)

\* An access token is signed under the key its grant is sealed with.
SignedAsSealed ==
  \A t \in access : t.grant \in Grants /\ t.key = sealed[t.grant] /\ t.key # NoKey

IInv == Running /\ SealedAsBorn /\ SignedAsSealed /\ CallersAreKnown

-----------------------------------------------------------------------------
\* A call that is not answered may have any bearer.
LEMMA QuietIsSafe == reply = Quiet => CallersAreKnown
  BY DEF Quiet, CallersAreKnown, Served

LEMMA KeyIsSome == DerivedKey(env) # NoKey
  BY DEF DerivedKey, NoKey

LEMMA InitInv == Init => IInv
<1> SUFFICES ASSUME Init PROVE IInv OBVIOUS
<1>1. Running
  BY DEF Init, Running
<1>2. SealedAsBorn
  BY DEF Init, SealedAsBorn, InTurn
<1>3. SignedAsSealed /\ CallersAreKnown
  BY QuietIsSafe DEF Init, SignedAsSealed
<1> QED BY <1>1, <1>2, <1>3 DEF IInv

\* A new request: the mode that runs is the one validate asked a guard for.
LEMMA RequestKnown ==
  ASSUME Running, NEW b, Request(b) PROVE CallersAreKnown'
<1> SUFFICES ASSUME Served', env.transport = "http", ~IsLoopback(env), env.mode # "OAuth"
             PROVE  b \in {Secret} \cup access
  BY DEF Request, CallersAreKnown, IsLoopback
<1>1. pc = "up" /\ Upstream(b) # "refused" /\ Valid(env) /\ mode = SelectAuthMode(env)
  BY DEF Request, Served, Running
<1>2. CASE ServesOAuth
  BY <1>1, <1>2 DEF Upstream
<1>3. CASE ~ServesOAuth
  <2>1. env.mode # "oauth"
    BY <1>1, <1>3 DEF ServesOAuth, SelectAuthMode
  <2>2. env.secret
    BY <1>1, <2>1 DEF Valid, Guarded, Defaulted, IsOAuth
  <2>3. PassesSecret(b)
    BY <1>1, <1>3 DEF Upstream
  <2> QED BY <2>2, <2>3 DEF PassesSecret
<1> QED BY <1>2, <1>3

\* A step that leaves the guarded state alone, and adds tokens at most.
Unguarded == UNCHANGED <<env, mode, pc, reply>> /\ access \subseteq access'

LEMMA GuardStays == Running /\ CallersAreKnown /\ Unguarded => Running' /\ CallersAreKnown'
  BY DEF Unguarded, Running, CallersAreKnown, Served

\* A step that does not touch the grants and their tokens.
LEMMA GrantsStay ==
  ASSUME SealedAsBorn, SignedAsSealed, UNCHANGED <<sealed, access, refresh, born, turn>>,
         \/ env' = env /\ pc' = pc
         \/ InTurn = {}
  PROVE  SealedAsBorn' /\ SignedAsSealed'
  BY DEF SealedAsBorn, SignedAsSealed, InTurn, Opens, DerivedKey

LEMMA StepInv == ASSUME IInv, [Next]_vars PROVE IInv'
<1> USE DEF IInv
<1>0. pc # "up" => InTurn = {}
  BY DEF SealedAsBorn
<1>1. CASE Load
  <2>1. Running' /\ reply' = Quiet
    BY <1>1 DEF Load, Running
  <2>2. SealedAsBorn' /\ SignedAsSealed'
    BY <1>0, <1>1, GrantsStay DEF Load
  <2>3. CallersAreKnown'
    BY <2>1 DEF Quiet, CallersAreKnown, Served
  <2> QED BY <2>1, <2>2, <2>3
<1>2. CASE Serve
  <2>1. Running'
    BY <1>2 DEF Serve, Running
  <2>2. SealedAsBorn' /\ SignedAsSealed'
    BY <1>0, <1>2, GrantsStay DEF Serve
  <2> QED BY <1>2, <2>1, <2>2 DEF Serve, CallersAreKnown, Served, IsLoopback
<1>3. CASE Stop
  <2>1. Running' /\ reply' = Quiet
    BY <1>3 DEF Stop, Running
  <2>2. CallersAreKnown'
    BY <2>1 DEF Quiet, CallersAreKnown, Served
  <2>3. /\ UNCHANGED <<sealed, access, refresh, born>>
        /\ turn' = [g \in Grants |-> IF g \in InTurn THEN "killed" ELSE turn[g]]
    BY <1>3 DEF Stop
  <2>4. \A g \in Grants : turn'[g] \notin {"spent", "read"}
    BY <2>3 DEF InTurn
  <2>5. SealedAsBorn'
    BY <2>3, <2>4 DEF SealedAsBorn, InTurn
  <2>6. SignedAsSealed'
    BY <2>3 DEF SignedAsSealed
  <2> QED BY <2>1, <2>2, <2>5, <2>6
<1>4. ASSUME NEW g \in Grants, Login(g) PROVE IInv'
  <2>1. Running' /\ CallersAreKnown'
    <3>1. Unguarded
      BY <1>4 DEF Login, Unguarded
    <3> QED BY <3>1, GuardStays
  <2>2. /\ sealed' = [sealed EXCEPT ![g] = DerivedKey(env)]
        /\ born' = [born EXCEPT ![g] = env.key] /\ refresh' = refresh \cup {g}
        /\ access' = access \cup {SignedFor(g)} /\ sealed[g] = NoKey
        /\ turn' = turn /\ pc' = pc /\ env' = env
    BY <1>4 DEF Login
  <2>3. \A h \in Grants : sealed'[h] = (IF h = g THEN DerivedKey(env) ELSE sealed[h])
    BY <2>2 DEF SealedAsBorn
  <2>4. \A h \in Grants : born'[h] = (IF h = g THEN env.key ELSE born[h])
    BY <2>2 DEF SealedAsBorn
  <2>5. SealedAsBorn'
    <3>1. \A h \in Grants : turn'[h] = "read" => Opens(h)'
      BY <2>2, <2>3 DEF SealedAsBorn, Opens, DerivedKey
    <3>2. \A h \in refresh' \cup InTurn' : sealed'[h] = <<"HKDF", born'[h]>>
      BY <2>2, <2>3, <2>4 DEF SealedAsBorn, InTurn, DerivedKey
    <3> QED BY <2>2, <3>1, <3>2 DEF SealedAsBorn, InTurn
  <2>6. SignedAsSealed'
    <3> SUFFICES ASSUME NEW t \in access'
                 PROVE  t.grant \in Grants /\ t.key = sealed'[t.grant] /\ t.key # NoKey
      BY DEF SignedAsSealed
    <3>1. CASE t \in access
      BY <2>2, <2>3, <3>1 DEF SignedAsSealed
    <3>2. CASE t = SignedFor(g)
      BY <2>3, <3>2, KeyIsSome DEF SignedFor
    <3> QED BY <2>2, <3>1, <3>2
  <2> QED BY <2>1, <2>5, <2>6
<1>5. ASSUME NEW g \in Grants, ConsumeRefresh(g) PROVE IInv'
  <2>1. Running' /\ CallersAreKnown'
    <3>1. Unguarded
      BY <1>5 DEF ConsumeRefresh, Unguarded
    <3> QED BY <3>1, GuardStays
  <2>2. /\ refresh' = refresh \ {g} /\ turn' = [turn EXCEPT ![g] = "spent"]
        /\ UNCHANGED <<env, pc, sealed, access, born>> /\ g \in refresh
        /\ pc = "up"
    BY <1>5 DEF ConsumeRefresh, ServesOAuth
  <2>3. refresh' \cup InTurn' \subseteq refresh \cup InTurn
    BY <2>2 DEF SealedAsBorn, InTurn
  <2>4. \A h \in Grants : turn'[h] = "read" => turn[h] = "read"
    BY <2>2 DEF SealedAsBorn
  <2>5. SealedAsBorn'
    BY <2>2, <2>3, <2>4 DEF SealedAsBorn, Opens, DerivedKey
  <2> QED BY <2>1, <2>2, <2>5 DEF SignedAsSealed
<1>6. ASSUME NEW g \in Grants, GetGrant(g) PROVE IInv'
  <2>1. Running' /\ CallersAreKnown'
    <3>1. Unguarded
      BY <1>6 DEF GetGrant, Unguarded
    <3> QED BY <3>1, GuardStays
  <2>2. /\ UNCHANGED <<env, pc, sealed, access, born, refresh>> /\ turn[g] = "spent"
        /\ \E l \in {"read", "rest", "failed"} :
             turn' = [turn EXCEPT ![g] = l] /\ (l = "read" => Opens(g))
    BY <1>6 DEF GetGrant, Issuable
  <2>3. PICK l \in {"read", "rest", "failed"} :
          turn' = [turn EXCEPT ![g] = l] /\ (l = "read" => Opens(g))
    BY <2>2
  <2>4. refresh' \cup InTurn' \subseteq refresh \cup InTurn
    BY <2>2, <2>3 DEF SealedAsBorn, InTurn
  <2>5. \A h \in Grants : turn'[h] = "read" => Opens(h)
    BY <2>3 DEF SealedAsBorn
  <2>6. pc = "up"
    BY <2>2 DEF SealedAsBorn, InTurn
  <2>7. SealedAsBorn'
    <3>1. \A h \in refresh' \cup InTurn' : sealed'[h] = <<"HKDF", born'[h]>>
      BY <2>2, <2>4 DEF SealedAsBorn
    <3>2. \A h \in Grants : turn'[h] = "read" => Opens(h)'
      BY <2>2, <2>5 DEF Opens, DerivedKey
    <3>3. turn' = [h \in Grants |-> turn'[h]]
      BY <2>3 DEF SealedAsBorn
    <3> QED BY <2>2, <2>6, <3>1, <3>2, <3>3 DEF SealedAsBorn
  <2> QED BY <2>1, <2>2, <2>7 DEF SignedAsSealed
<1>7. ASSUME NEW g \in Grants, PutRefresh(g) PROVE IInv'
  <2>1. Running' /\ CallersAreKnown'
    <3>1. Unguarded
      BY <1>7 DEF PutRefresh, Unguarded
    <3> QED BY <3>1, GuardStays
  <2>2. /\ UNCHANGED <<env, pc, sealed, born>> /\ turn[g] = "read"
        /\ refresh' \subseteq refresh \cup {g} /\ access' \subseteq access \cup {SignedFor(g)}
    BY <1>7 DEF PutRefresh
  <2>3. PICK l \in {"rest", "failed"} : turn' = [turn EXCEPT ![g] = l]
    BY <1>7 DEF PutRefresh
  <2>4. refresh' \cup InTurn' \subseteq refresh \cup InTurn
    BY <2>2, <2>3 DEF SealedAsBorn, InTurn
  <2>5. \A h \in Grants : turn'[h] = "read" => turn[h] = "read"
    BY <2>3 DEF SealedAsBorn
  <2>6. SealedAsBorn'
    <3>1. refresh' \subseteq Grants
      BY <2>2 DEF SealedAsBorn
    <3>2. \A h \in refresh' \cup InTurn' : sealed'[h] = <<"HKDF", born'[h]>>
      BY <2>2, <2>4 DEF SealedAsBorn
    <3>3. \A h \in Grants : turn'[h] = "read" => Opens(h)'
      BY <2>2, <2>5 DEF SealedAsBorn, Opens, DerivedKey
    <3>4. turn' = [h \in Grants |-> turn'[h]]
      BY <2>3 DEF SealedAsBorn
    <3>5. pc' = "up"
      BY <2>2 DEF SealedAsBorn, InTurn
    <3> QED BY <2>2, <3>1, <3>2, <3>3, <3>4, <3>5 DEF SealedAsBorn
  <2>7. SignedAsSealed'
    <3> SUFFICES ASSUME NEW t \in access'
                 PROVE  t.grant \in Grants /\ t.key = sealed'[t.grant] /\ t.key # NoKey
      BY DEF SignedAsSealed
    <3>1. CASE t \in access
      BY <2>2, <3>1 DEF SignedAsSealed
    <3>2. CASE t = SignedFor(g)
      BY <2>2, <3>2, KeyIsSome DEF SignedFor, SealedAsBorn, Opens
    <3> QED BY <2>2, <3>1, <3>2
  <2> QED BY <2>1, <2>6, <2>7
<1>8. ASSUME NEW b, Request(b) PROVE IInv'
  <2>1. Running'
    BY <1>8 DEF Request, Running
  <2>2. SealedAsBorn' /\ SignedAsSealed'
    BY <1>8, GrantsStay DEF Request
  <2> QED BY <1>8, <2>1, <2>2, RequestKnown
<1>9. CASE UNCHANGED vars
  BY <1>9, GuardStays, GrantsStay DEF vars, Unguarded
<1> QED BY <1>1, <1>2, <1>3, <1>4, <1>5, <1>6, <1>7, <1>8, <1>9 DEF Next

LEMMA Invariant == Spec => []IInv
<1>1. IInv /\ [Next]_vars => IInv'
  BY StepInv
<1> QED BY InitInv, <1>1, PTL DEF Spec

-----------------------------------------------------------------------------
\* Whatever the environment says and whatever follows what at restarts, a tool
\* call from another machine gets through with the secret or a user's token only.
THEOREM NobodyAnonymous == Spec => []CallersAreKnown
<1>1. IInv => CallersAreKnown
  BY DEF IInv
<1> QED BY <1>1, Invariant, PTL

\* Whatever the keys, URLs and modes of the starts, no start accepts an access
\* token of a grant whose columns it cannot open: sessions and grants end with
\* the same key, and no refresh carries a session from one key to another.
THEOREM AcceptedAreReadable == Spec => []AcceptedIsReadable
<1>1. IInv => AcceptedIsReadable
  BY DEF IInv, SignedAsSealed, AcceptedIsReadable, Accepts, Opens
<1> QED BY <1>1, Invariant, PTL

\* A refresh costs a client its refresh token only by a stop or a failed
\* statement between the spending and the answer, unless the grant key is
\* another than when the grant was given.
THEOREM RefreshTokensNotWasted == Spec => RefreshNotWasted
<1> DEFINE Kept == \A g \in Grants : HasToken(g) /\ ~HasToken(g)' =>
                     born[g] # env.key \/ turn'[g] \in {"killed", "failed"}
<1>1. IInv /\ [Next]_vars => [Kept]_vars
  <2> SUFFICES ASSUME IInv, Next, NEW g \in Grants, HasToken(g), ~HasToken(g)'
               PROVE  born[g] # env.key \/ turn'[g] \in {"killed", "failed"}
    OBVIOUS
  <2>0. /\ turn = [h \in Grants |-> turn[h]] /\ refresh \subseteq Grants
        /\ sealed[g] = <<"HKDF", born[g]>>
    BY DEF IInv, SealedAsBorn, HasToken
  <2>1. CASE Load \/ Serve \/ \E b \in {None, Secret, Bearer("other")} \cup access : Request(b)
    BY <2>1 DEF Load, Serve, Request, HasToken, InTurn
  <2>2. CASE Stop
    <3>1. refresh' = refresh /\ turn'[g] = (IF g \in InTurn THEN "killed" ELSE turn[g])
      BY <2>2 DEF Stop
    <3> QED BY <3>1 DEF HasToken
  <2>3. ASSUME NEW h \in Grants, Login(h)
        PROVE  FALSE
    BY <2>3 DEF Login, HasToken, InTurn
  <2>4. ASSUME NEW h \in Grants, ConsumeRefresh(h)
        PROVE  FALSE
    <3>1. refresh' = refresh \ {h} /\ turn' = [turn EXCEPT ![h] = "spent"]
      BY <2>4 DEF ConsumeRefresh
    <3>2. turn'[h] = "spent" /\ \A k \in Grants : k # h => turn'[k] = turn[k]
      BY <2>0, <3>1
    <3> QED BY <3>1, <3>2 DEF HasToken, InTurn
  <2>5. ASSUME NEW h \in Grants, GetGrant(h)
        PROVE  born[g] # env.key \/ turn'[g] \in {"killed", "failed"}
    <3>1. refresh' = refresh /\ \A k \in Grants : k # h => turn'[k] = turn[k]
      BY <2>0, <2>5 DEF GetGrant
    <3>2. h = g
      BY <3>1 DEF HasToken, InTurn
    <3>3. \/ turn'[g] = "read" \/ turn'[g] = "failed"
          \/ ~Opens(g)
      BY <2>0, <2>5, <3>2 DEF GetGrant, Issuable
    <3>4. turn'[g] # "read"
      BY DEF HasToken, InTurn
    <3>5. CASE ~Opens(g)
      BY <2>0, <3>5 DEF Opens, DerivedKey
    <3> QED BY <3>3, <3>4, <3>5
  <2>6. ASSUME NEW h \in Grants, PutRefresh(h)
        PROVE  turn'[g] = "failed"
    <3>1. refresh \subseteq refresh' /\ \A k \in Grants : k # h => turn'[k] = turn[k]
      BY <2>0, <2>6 DEF PutRefresh
    <3>2. h = g
      BY <3>1 DEF HasToken, InTurn
    <3> QED BY <2>0, <2>6, <3>2 DEF PutRefresh, HasToken
  <2> QED BY <2>1, <2>2, <2>3, <2>4, <2>5, <2>6 DEF Next
<1> QED BY Invariant, <1>1, PTL DEF Spec, RefreshNotWasted
=============================================================================
