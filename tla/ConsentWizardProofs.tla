------------------------ MODULE ConsentWizardProofs ------------------------
(***************************************************************************)
(* What a grant of the consent wizard stands for, for any number of tabs,  *)
(* sessions, spaces and accounts, with failing writes and restarts.        *)
(*                                                                         *)
(* A grant is copied from a flow, a flow from a session's row, a row from  *)
(* a flow some other tab edited: the invariant says of every copy, stored  *)
(* or held by a request, that its levels and its wish for administration   *)
(* belong to the account in the same copy.                                 *)
(***************************************************************************)
EXTENDS ConsentWizard, FiniteSetTheorems, TLAPS

\* The parts of a flow belong together, whichever tab wrote it last.
Coherent(f) ==
  /\ \A s \in Spaces : f.level[s] <= f.account.ceiling[s]
  /\ f.wantAdmin /\ ~f.again => f.account.admin
  /\ ~f.login => ~f.wantAdmin /\ ~f.account.admin

CoherentGrant(g) ==
  /\ \A s \in g.spaces : g.account.ceiling[s] > 0 /\ g.level[s] <= g.account.ceiling[s]
  /\ g.admin /\ ~g.again => g.account.admin

SessionsOK ==
  /\ DOMAIN sessions \subseteq started
  /\ sessions \in [DOMAIN sessions -> Session]
  /\ \A sid \in DOMAIN sessions : Coherent(sessions[sid].flow)
RequestsOK ==
  /\ pc \in [Reqs -> Points]
  /\ DOMAIN loc = {r \in Reqs : pc[r] # "idle"}
  /\ loc \in [DOMAIN loc -> Local]
  /\ \A r \in DOMAIN loc : Coherent(loc[r].flow)
  /\ \A r \in Reqs : pc[r] = "putcode" => loc[r].gid \in DOMAIN grants
  /\ \A r \in Reqs : pc[r] # "idle" => loc[r].sid \in started
GrantsOK ==
  /\ DOMAIN grants \subseteq 1..MaxGrants
  /\ grants \in [DOMAIN grants -> Grant]
  /\ \A g \in DOMAIN grants : CoherentGrant(grants[g])
  /\ codes \subseteq DOMAIN grants

IInv == now \in Nat /\ started \subseteq Sids /\ SessionsOK /\ RequestsOK /\ GrantsOK

-----------------------------------------------------------------------------
(* Flows *)

LEMMA AccountType ==
  ASSUME NEW a \in Accounts \cup {Nobody}
  PROVE  a.admin \in BOOLEAN /\ a.ceiling \in [Spaces -> 0..3]
<1>1. CASE a \in Accounts
  <2>1. a \in [admin : BOOLEAN, ceiling : [Spaces -> 0..3]]
    BY <1>1, ConstantsAssumption DEF Account, Levels
  <2> QED BY <2>1
<1>2. CASE a = Nobody
  BY <1>2 DEF Nobody
<1> QED BY <1>1, <1>2

LEMMA NewFlowOK == NewFlow \in Flow /\ Coherent(NewFlow)
<1>1. NewFlow \in Flow
  BY DEF NewFlow, Flow, Levels
<1>2. Coherent(NewFlow)
  BY DEF NewFlow, Coherent, Nobody
<1> QED BY <1>1, <1>2

\* A login starts the levels anew, so they fit whoever logged in.
LEMMA LoggedInOK ==
  ASSUME NEW f \in Flow, Coherent(f), NEW a \in Accounts
  PROVE  LoggedIn(f, a) \in Flow /\ Coherent(LoggedIn(f, a))
<1>1. a.ceiling \in [Spaces -> 0..3]
  BY AccountType
<1>2. /\ LoggedIn(f, a).login = TRUE /\ LoggedIn(f, a).account = a
      /\ LoggedIn(f, a).level = [s \in Spaces |-> 0]
      /\ LoggedIn(f, a).again = f.login /\ LoggedIn(f, a).wantAdmin = f.wantAdmin
  BY DEF LoggedIn, Flow
<1>7. LoggedIn(f, a) \in Flow
  <2> DEFINE none == [s \in Spaces |-> 0]
  <2>1. none \in [Spaces -> Levels] /\ f.login \in BOOLEAN
    BY DEF Levels, Flow
  <2> HIDE DEF none
  <2>2. [f EXCEPT !.login = TRUE, !.account = a, !.level = none,
                  !.again = f.login] \in Flow
    BY <2>1 DEF Flow
  <2> QED BY <2>2 DEF LoggedIn, none
<1>3. \A s \in Spaces : LoggedIn(f, a).level[s] <= LoggedIn(f, a).account.ceiling[s]
  BY <1>1, <1>2
<1>4. f.wantAdmin => f.login
  BY DEF Coherent
<1>5. LoggedIn(f, a).wantAdmin => LoggedIn(f, a).again
  BY <1>2, <1>4, Zenon
<1>6. LoggedIn(f, a).login
  BY <1>2, Zenon
<1> QED BY <1>2, <1>3, <1>5, <1>6, <1>7, Zenon DEF Coherent

\* The spaces form changes nothing that belongs to an account.
LEMMA SelectedOK ==
  ASSUME NEW f \in Flow, Coherent(f), NEW S \in SUBSET Spaces
  PROVE  [f EXCEPT !.selected = S] \in Flow /\ Coherent([f EXCEPT !.selected = S])
  BY DEF Flow, Coherent

\* The levels form clamps to the ceilings stored beside the levels, and the
\* floor of read applies to listed spaces only.
LEMMA LeveledOK ==
  ASSUME NEW f \in Flow, Coherent(f), NEW box \in BOOLEAN,
         NEW edited, edited = f.selected \cap Listed(f),
         NEW want \in [edited -> Levels],
         NEW new, new = [f EXCEPT
            !.level = [s \in Spaces |->
                        IF s \in edited
                        THEN AtLeastRead(ClampLevel(want[s], f.account.ceiling[s]))
                        ELSE @[s]],
            !.wantAdmin = WantAdmin(f.account.admin, box)]
  PROVE  new \in Flow /\ Coherent(new)
<1>1. /\ f.account.ceiling \in [Spaces -> 0..3] /\ f.account.admin \in BOOLEAN
      /\ f.level \in [Spaces -> 0..3]
  BY AccountType DEF Flow, Levels
<1>2. ASSUME NEW s \in Spaces
      PROVE  /\ new.level[s] \in 0..3
             /\ new.level[s] <= f.account.ceiling[s]
  <2>1. f.account.ceiling[s] \in 0..3 /\ f.level[s] \in 0..3
    BY <1>1
  <2>2. CASE s \in edited
    <3>1. want[s] \in 0..3 /\ f.account.ceiling[s] > 0
      BY <2>2 DEF Levels, Listed
    <3>2. new.level[s] = AtLeastRead(ClampLevel(want[s], f.account.ceiling[s]))
      BY <2>2 DEF Flow
    <3> QED BY <2>1, <3>1, <3>2 DEF AtLeastRead, ClampLevel
  <2>3. CASE s \notin edited
    <3>1. new.level[s] = f.level[s]
      BY <2>3 DEF Flow
    <3> QED BY <2>1, <3>1 DEF Coherent
  <2> QED BY <2>2, <2>3
<1>3. /\ new.login = f.login /\ new.account = f.account /\ new.again = f.again
      /\ new.selected = f.selected /\ new.wantAdmin = (f.account.admin /\ box)
      /\ new.level = [s \in Spaces |-> new.level[s]]
      /\ new = [login |-> f.login, account |-> f.account, wantAdmin |-> new.wantAdmin,
                level |-> new.level, selected |-> f.selected, again |-> f.again]
  BY DEF Flow, WantAdmin
<1>4. new.level \in [Spaces -> Levels]
  BY <1>2, <1>3 DEF Levels
<1>5. new \in Flow
  BY <1>1, <1>3, <1>4 DEF Flow
<1>6. Coherent(new)
  BY <1>1, <1>2, <1>3 DEF Coherent
<1> QED BY <1>5, <1>6

\* What ConfirmPOST copies into the grant.
LEMMA GrantedOK ==
  ASSUME NEW f \in Flow, Coherent(f)
  PROVE  Granted(f) \in Grant /\ CoherentGrant(Granted(f))
<1>1. Granted(f) \in Grant
  BY DEF Granted, Grant, Flow, Chosen
<1>2. CoherentGrant(Granted(f))
  BY DEF Granted, CoherentGrant, Coherent, Chosen, Listed, Flow
<1> QED BY <1>1, <1>2

-----------------------------------------------------------------------------
(* Steps *)

\* saveFlow stores a coherent flow beside the other rows, or nothing.
LEMMA SaveOK ==
  ASSUME IInv, NEW sid \in started, NEW f \in Flow, Coherent(f), Save(sid, f),
         UNCHANGED started
  PROVE  SessionsOK'
<1>1. CASE UNCHANGED sessions
  BY <1>1 DEF IInv, SessionsOK
<1>2. CASE sessions' = Insert(sessions, sid, [flow |-> f, exp |-> now + SessionTTL])
  <2> DEFINE row == [flow |-> f, exp |-> now + SessionTTL]
  <2>1. row \in Session /\ row.flow = f
    BY ConstantsAssumption DEF Session, IInv
  <2> HIDE DEF row
  <2>2. sessions' = Insert(sessions, sid, row)
    BY <1>2 DEF row
  <2>3. /\ DOMAIN sessions' = DOMAIN sessions \cup {sid}
        /\ sessions' \in [DOMAIN sessions \cup {sid} -> Session]
        /\ sessions'[sid] = row
        /\ \A x \in DOMAIN sessions : x # sid => sessions'[x] = sessions[x]
    <3>1. sessions \in [DOMAIN sessions -> Session] BY DEF IInv, SessionsOK
    <3> QED BY <2>1, <2>2, <3>1 DEF Insert
  <2> QED BY <2>1, <2>3 DEF IInv, SessionsOK
<1> QED BY <1>1, <1>2 DEF Save

LEMMA DropOK ==
  ASSUME IInv, NEW sid, DropSession(sid), UNCHANGED started
  PROVE  SessionsOK'
<1>1. CASE UNCHANGED sessions
  BY <1>1 DEF IInv, SessionsOK
<1>2. CASE sessions' = Delete(sessions, sid)
  <2>1. sessions \in [DOMAIN sessions -> Session] BY DEF IInv, SessionsOK
  <2>2. /\ DOMAIN sessions' = DOMAIN sessions \ {sid}
        /\ sessions' \in [DOMAIN sessions \ {sid} -> Session]
        /\ \A x \in DOMAIN sessions \ {sid} : sessions'[x] = sessions[x]
    BY <1>2, <2>1 DEF Delete
  <2> QED BY <2>2 DEF IInv, SessionsOK
<1> QED BY <1>1, <1>2 DEF DropSession

\* A request that returns drops its copy and leaves the others their own.
LEMMA ReturnOK ==
  ASSUME IInv, NEW r \in Reqs, pc[r] # "idle", Return(r),
         UNCHANGED <<grants, started>>
  PROVE  RequestsOK'
<1>1. pc' = [pc EXCEPT ![r] = "idle"] /\ pc' \in [Reqs -> Points] /\ pc \in [Reqs -> Points]
  BY DEF Return, Goto, IInv, RequestsOK, Points
<1>2. /\ DOMAIN loc' = DOMAIN loc \ {r}
      /\ \A x \in DOMAIN loc \ {r} : loc'[x] = loc[x]
      /\ loc' \in [DOMAIN loc \ {r} -> Local]
  <2>1. loc \in [DOMAIN loc -> Local] BY DEF IInv, RequestsOK
  <2> QED BY <2>1 DEF Return, Delete
<1> QED BY <1>1, <1>2 DEF IInv, RequestsOK

\* The handlers that end in a write of the session, or in none.
LEMMA ReturningOK ==
  ASSUME IInv, NEW r \in Reqs, pc[r] # "idle", Return(r), SessionsOK',
         UNCHANGED <<now, started, grants, codes>>
  PROVE  IInv'
<1>1. RequestsOK' BY ReturnOK
<1> QED BY <1>1 DEF IInv, GrantsOK

\* The copy a request holds.
LEMMA Held ==
  ASSUME IInv, NEW r \in Reqs, pc[r] # "idle"
  PROVE  /\ r \in DOMAIN loc /\ loc[r] \in Local /\ loc[r].flow \in Flow
         /\ Coherent(loc[r].flow) /\ loc[r].sid \in started
         /\ loc[r].gid \in 0..MaxGrants
<1>1. r \in DOMAIN loc /\ loc[r] \in Local
  BY DEF IInv, RequestsOK
<1> QED BY <1>1 DEF IInv, RequestsOK, Local

LEMMA SaveAndReturnOK ==
  ASSUME IInv, NEW r \in Reqs, pc[r] # "idle", NEW f \in Flow, Coherent(f),
         SaveAndReturn(r, f)
  PROVE  IInv'
<1>1. SessionsOK'
  BY Held, SaveOK DEF SaveAndReturn
<1> QED BY <1>1, ReturningOK DEF SaveAndReturn

LEMMA AuthorizeOK == ASSUME IInv, NEW sid \in Sids, Authorize(sid) PROVE IInv'
<1> DEFINE row == [flow |-> NewFlow, exp |-> now + SessionTTL]
<1>1. row \in Session /\ row.flow = NewFlow
  BY NewFlowOK, ConstantsAssumption DEF Session, IInv
<1>2. SessionsOK'
  <2>1. CASE UNCHANGED sessions
    BY <2>1 DEF Authorize, IInv, SessionsOK
  <2>2. CASE sessions' = Insert(sessions, sid, row)
    <3> HIDE DEF row
    <3>1. /\ DOMAIN sessions' = DOMAIN sessions \cup {sid}
          /\ sessions' \in [DOMAIN sessions \cup {sid} -> Session]
          /\ sessions'[sid] = row
          /\ \A x \in DOMAIN sessions : x # sid => sessions'[x] = sessions[x]
      <4>1. sessions \in [DOMAIN sessions -> Session] BY DEF IInv, SessionsOK
      <4> QED BY <1>1, <2>2, <4>1 DEF Insert
    <3> QED BY <1>1, <3>1, NewFlowOK DEF IInv, SessionsOK, Authorize
  <2> QED BY <2>1, <2>2 DEF Authorize, Save
<1>3. RequestsOK'
  BY DEF Authorize, IInv, RequestsOK
<1> QED BY <1>2, <1>3 DEF Authorize, IInv, GrantsOK

LEMMA LoadOK ==
  ASSUME IInv, NEW r \in Reqs, NEW sid \in Sids,
         NEW point \in {"callback", "spaces", "levels", "confirm"}, Load(r, sid, point)
  PROVE  IInv'
<1> DEFINE copy == [sid |-> sid, flow |-> sessions[sid].flow, gid |-> 0]
<1>1. /\ sid \in started
      /\ copy \in Local /\ Coherent(copy.flow) /\ copy.sid = sid
  <2>1. /\ sid \in DOMAIN sessions /\ sid \in started
        /\ sessions[sid] \in Session /\ Coherent(sessions[sid].flow)
    BY DEF Load, IInv, SessionsOK
  <2>2. sessions[sid].flow \in Flow /\ 0 \in 0..MaxGrants
    BY <2>1, ConstantsAssumption DEF Session
  <2> QED BY <2>1, <2>2 DEF Local
<1>2. /\ \E q \in {"purge", point} : pc' = [pc EXCEPT ![r] = q]
      /\ loc' = Insert(loc, r, copy)
      /\ UNCHANGED <<now, sessions, started, grants, codes>>
  BY DEF Load, Goto
<1> HIDE DEF copy
<1>3. /\ DOMAIN loc' = DOMAIN loc \cup {r}
      /\ loc' \in [DOMAIN loc \cup {r} -> Local]
      /\ loc'[r] = copy
      /\ \A x \in DOMAIN loc : x # r => loc'[x] = loc[x]
  <2>1. loc \in [DOMAIN loc -> Local] BY DEF IInv, RequestsOK
  <2> QED BY <1>1, <1>2, <2>1 DEF Insert
<1>4. /\ pc' \in [Reqs -> Points] /\ pc'[r] \notin {"idle", "putcode"}
      /\ \A x \in Reqs : x # r => pc'[x] = pc[x]
  BY <1>2 DEF IInv, RequestsOK, Points
<1>5. RequestsOK'
  BY <1>1, <1>2, <1>3, <1>4 DEF IInv, RequestsOK
<1> QED BY <1>2, <1>5 DEF IInv, SessionsOK, GrantsOK

LEMMA FormsOK ==
  ASSUME IInv, NEW r \in Reqs, Callback(r) \/ SpacesPOST(r) \/ LevelsPOST(r)
  PROVE  IInv'
<1> DEFINE f == loc[r].flow
<1>1. pc[r] # "idle"
  BY DEF Callback, SpacesPOST, LevelsPOST
<1>2. f \in Flow /\ Coherent(f)
  BY <1>1, Held
<1>3. CASE Callback(r)
  <2>1. PICK a \in Accounts : SaveAndReturn(r, LoggedIn(f, a))
    BY <1>3 DEF Callback
  <2> QED BY <1>1, <1>2, <2>1, LoggedInOK, SaveAndReturnOK
<1>4. CASE SpacesPOST(r)
  <2>1. PICK ids \in SUBSET Spaces :
          SaveAndReturn(r, [f EXCEPT !.selected = ids \cap Listed(f)])
    BY <1>4 DEF SpacesPOST
  <2>2. ids \cap Listed(f) \in SUBSET Spaces
    OBVIOUS
  <2> QED BY <1>1, <1>2, <2>1, <2>2, SelectedOK, SaveAndReturnOK
<1>5. CASE LevelsPOST(r)
  <2> DEFINE edited == f.selected \cap Listed(f)
             After(want, box) == [f EXCEPT
                !.level = [s \in Spaces |->
                            IF s \in edited
                            THEN AtLeastRead(ClampLevel(want[s], f.account.ceiling[s]))
                            ELSE @[s]],
                !.wantAdmin = WantAdmin(f.account.admin, box)]
  <2>1. PICK want \in [edited -> Levels], box \in BOOLEAN :
          SaveAndReturn(r, After(want, box))
    BY <1>5 DEF LevelsPOST
  <2>2. After(want, box) \in Flow /\ Coherent(After(want, box))
    BY <1>2, LeveledOK
  <2> QED BY <1>1, <2>1, <2>2, SaveAndReturnOK
<1> QED BY <1>3, <1>4, <1>5

LEMMA EndsOK ==
  ASSUME IInv, NEW r \in Reqs, Purge(r) \/ Abandon(r) \/ DeleteSession(r)
  PROVE  IInv'
<1>1. pc[r] # "idle" /\ Return(r) /\ UNCHANGED <<now, started, grants, codes>>
  BY DEF Purge, Abandon, DeleteSession
<1>2. SessionsOK'
  <2>1. CASE DropSession(loc[r].sid) BY <1>1, <2>1, DropOK
  <2>2. CASE UNCHANGED sessions BY <1>1, <2>2 DEF IInv, SessionsOK
  <2> QED BY <2>1, <2>2 DEF Purge, Abandon, DeleteSession
<1> QED BY <1>1, <1>2, ReturningOK

\* The drawn id is within the bound.
LEMMA NextGrantType == ASSUME IInv, NextGrant <= MaxGrants PROVE NextGrant \in 1..MaxGrants
<1>1. IsFiniteSet(1..MaxGrants)
  BY FS_Interval, ConstantsAssumption
<1>2. IsFiniteSet(DOMAIN grants)
  BY <1>1, FS_Subset DEF IInv, GrantsOK
<1>3. Cardinality(DOMAIN grants) \in Nat
  BY <1>2, FS_CardinalityType
<1> QED BY <1>3, ConstantsAssumption DEF NextGrant

LEMMA ConfirmOK == ASSUME IInv, NEW r \in Reqs, ConfirmPOST(r) PROVE IInv'
<1> DEFINE f == loc[r].flow
<1>1. pc[r] = "confirm" /\ UNCHANGED <<now, sessions, started, codes>>
  BY DEF ConfirmPOST
<1>2. r \in DOMAIN loc /\ loc[r] \in Local /\ f \in Flow /\ Coherent(f)
  BY <1>1, Held
<1>3. NextGrant \in 1..MaxGrants
  BY NextGrantType DEF ConfirmPOST
<1>4. CASE /\ grants' = Insert(grants, NextGrant, Granted(f))
           /\ Goto(r, "putcode")
           /\ loc' = [loc EXCEPT ![r].gid = NextGrant]
  <2>1. Granted(f) \in Grant /\ CoherentGrant(Granted(f))
    BY <1>2, GrantedOK
  <2>2. /\ DOMAIN grants' = DOMAIN grants \cup {NextGrant}
        /\ grants' \in [DOMAIN grants \cup {NextGrant} -> Grant]
        /\ grants'[NextGrant] = Granted(f)
        /\ \A x \in DOMAIN grants : x # NextGrant => grants'[x] = grants[x]
    <3>1. grants \in [DOMAIN grants -> Grant] BY DEF IInv, GrantsOK
    <3> QED BY <1>4, <2>1, <3>1 DEF Insert
  <2>3. GrantsOK'
    BY <1>1, <1>3, <2>1, <2>2 DEF IInv, GrantsOK
  <2>4. /\ loc' \in [DOMAIN loc -> Local] /\ DOMAIN loc' = DOMAIN loc
        /\ loc'[r].gid = NextGrant /\ loc'[r].flow = f /\ loc'[r].sid = loc[r].sid
        /\ \A x \in DOMAIN loc : x # r => loc'[x] = loc[x]
    BY <1>2, <1>3, <1>4 DEF IInv, RequestsOK, Local
  <2>5. /\ pc' \in [Reqs -> Points] /\ pc'[r] = "putcode"
        /\ \A x \in Reqs : x # r => pc'[x] = pc[x]
    BY <1>4 DEF Goto, IInv, RequestsOK, Points
  <2>6. RequestsOK'
    BY <1>1, <1>2, <2>2, <2>4, <2>5 DEF IInv, RequestsOK
  <2> QED BY <1>1, <2>3, <2>6 DEF IInv, SessionsOK
<1>5. CASE UNCHANGED grants /\ Return(r)
  BY <1>1, <1>5, ReturningOK DEF IInv, SessionsOK
<1> QED BY <1>4, <1>5 DEF ConfirmPOST, AfterPutGrantError, Return

LEMMA PutAuthCodeOK == ASSUME IInv, NEW r \in Reqs, PutAuthCode(r) PROVE IInv'
<1>1. pc[r] = "putcode" /\ UNCHANGED <<now, sessions, started, grants>>
  BY DEF PutAuthCode
<1>2. CASE codes' = codes \cup {loc[r].gid} /\ Goto(r, "delete") /\ UNCHANGED loc
  <2>1. GrantsOK'
    BY <1>1, <1>2 DEF IInv, GrantsOK, RequestsOK
  <2>2. RequestsOK'
    BY <1>1, <1>2 DEF IInv, RequestsOK, Goto, Points
  <2> QED BY <1>1, <2>1, <2>2 DEF IInv, SessionsOK
<1>3. CASE UNCHANGED codes /\ Return(r)
  BY <1>1, <1>3, ReturningOK DEF IInv, SessionsOK
<1> QED BY <1>2, <1>3 DEF PutAuthCode

LEMMA InitOK == Init => IInv
  BY DEF Init, IInv, SessionsOK, RequestsOK, GrantsOK, Points

LEMMA StepOK == ASSUME IInv, [Next]_vars PROVE IInv'
<1>1. CASE \E sid \in Sids : Authorize(sid) BY <1>1, AuthorizeOK
<1>2. CASE \E r \in Reqs : LoadFlow(r) BY <1>2, LoadOK DEF LoadFlow
<1>3. CASE \E r \in Reqs : Purge(r) \/ Abandon(r) \/ DeleteSession(r) BY <1>3, EndsOK
<1>4. CASE \E r \in Reqs : Callback(r) \/ SpacesPOST(r) \/ LevelsPOST(r) BY <1>4, FormsOK
<1>5. CASE \E r \in Reqs : ConfirmPOST(r) BY <1>5, ConfirmOK
<1>6. CASE \E r \in Reqs : PutAuthCode(r) BY <1>6, PutAuthCodeOK
<1>7. CASE Restart
  BY <1>7 DEF Restart, IInv, SessionsOK, RequestsOK, GrantsOK, Points
<1>8. CASE Tick
  BY <1>8 DEF Tick, IInv, SessionsOK, RequestsOK, GrantsOK
<1>9. CASE UNCHANGED vars
  BY <1>9 DEF vars, IInv, SessionsOK, RequestsOK, GrantsOK
<1> QED BY <1>1, <1>2, <1>3, <1>4, <1>5, <1>6, <1>7, <1>8, <1>9 DEF Next

\* Every copy of a flow, stored or in a request, and every grant is coherent.
THEOREM WizardInvariant == Spec => []IInv
  BY InitOK, StepOK, PTL DEF Spec

-----------------------------------------------------------------------------
\* The wizard's tables, and the copies its requests hold, are well typed.
THEOREM WizardTypeCorrect == Spec => []TypeOK
<1>1. IInv => TypeOK
  BY DEF IInv, SessionsOK, RequestsOK, GrantsOK, TypeOK
<1> QED BY <1>1, WizardInvariant, PTL

\* No grant exceeds the login whose oCIS token it carries, whatever logins and
\* forms of whatever number of tabs are interleaved on one session.
THEOREM GrantsFitTheLogin == Spec => []GrantWithinLogin
<1>1. IInv => GrantWithinLogin
  BY DEF IInv, GrantsOK, CoherentGrant, GrantWithinLogin
<1> QED BY <1>1, WizardInvariant, PTL

\* Instance administration is granted to instance administrators only, in every
\* session that logged in once.
THEOREM AdministrationIsOwn == Spec => []AdminOnlyIfAdmin
<1>1. IInv => AdminOnlyIfAdmin
  BY DEF IInv, GrantsOK, CoherentGrant, AdminOnlyIfAdmin
<1> QED BY <1>1, WizardInvariant, PTL

\* Every stored code names a stored grant, at every point between the writes of
\* ConfirmPOST at which one may fail or the process may stop.
THEOREM CodesNameGrants == Spec => []CodeNamesGrant
<1>1. IInv => CodeNamesGrant
  BY DEF IInv, GrantsOK, CodeNamesGrant
<1> QED BY <1>1, WizardInvariant, PTL

-----------------------------------------------------------------------------
\* A request that holds a copy of a flow and is not about to delete the row is
\* not of an ended session.
LEMMA HeldNotEnded ==
  ASSUME IInv, NEW sid, Ended(sid), NEW r \in Reqs, pc[r] \notin {"idle", "purge"}
  PROVE  loc[r].sid # sid
  BY Held DEF Ended

\* What one request does leaves a session ended if it writes the rows of other
\* sessions only, or deletes, and takes no copy.
LEMMA StaysEnded ==
  ASSUME IInv, NEW sid, Ended(sid), UNCHANGED now, started \subseteq started',
         sid \in DOMAIN sessions' => sid \in DOMAIN sessions /\ sessions'[sid] = sessions[sid],
         \A r \in DOMAIN loc' : r \in DOMAIN loc /\ loc'[r].sid = loc[r].sid,
         \A r \in DOMAIN loc' : loc[r].sid = sid => pc'[r] = pc[r]
  PROVE  Ended(sid)'
  BY DEF Ended, Over

LEMMA ReturnStaysEnded ==
  ASSUME IInv, NEW sid, Ended(sid), NEW r \in Reqs, pc[r] # "idle", Return(r),
         UNCHANGED now, UNCHANGED started,
         sid \in DOMAIN sessions' => sid \in DOMAIN sessions /\ sessions'[sid] = sessions[sid]
  PROVE  Ended(sid)'
<1>1. /\ DOMAIN loc' = DOMAIN loc \ {r}
      /\ \A x \in DOMAIN loc' : loc'[x] = loc[x]
  BY DEF Return, Delete
<1>2. \A x \in DOMAIN loc' : pc'[x] = pc[x]
  BY <1>1 DEF Return, Goto, IInv, RequestsOK
<1> QED BY <1>1, <1>2, StaysEnded

LEMMA EndedStep ==
  ASSUME IInv, [Next]_vars, NEW sid \in Sids, Ended(sid)
  PROVE  Ended(sid)'
<1>1. ASSUME NEW x \in Sids, Authorize(x) PROVE Ended(sid)'
  <2>1. x # sid
    BY <1>1 DEF Authorize, Ended, Over
  <2>2. sid \in DOMAIN sessions' => sid \in DOMAIN sessions /\ sessions'[sid] = sessions[sid]
    BY <1>1, <2>1 DEF Authorize, Save, Insert
  <2> QED BY <1>1, <2>2, StaysEnded DEF Authorize
<1>2. ASSUME NEW r \in Reqs, LoadFlow(r) PROVE Ended(sid)'
  <2>1. PICK x \in Sids, point \in {"callback", "spaces", "levels", "confirm"} :
          Load(r, x, point)
    BY <1>2 DEF LoadFlow
  <2>2. /\ DOMAIN loc' = DOMAIN loc \cup {r} /\ loc'[r].sid = x
        /\ \A y \in DOMAIN loc : y # r => loc'[y] = loc[y]
        /\ UNCHANGED <<now, sessions, started>> /\ x \in DOMAIN sessions
    BY <2>1 DEF Load, Insert
  <2>3. /\ \A y \in Reqs : y # r => pc'[y] = pc[y]
        /\ pc'[r] = IF Expired(sessions[x]) THEN "purge" ELSE point
    BY <2>1 DEF Load, Goto, IInv, RequestsOK
  <2>4. x = sid => Expired(sessions[x])
    BY <2>2 DEF Ended, Over, Expired
  <2>5. DOMAIN loc \subseteq Reqs
    BY DEF IInv, RequestsOK
  <2> QED BY <2>2, <2>3, <2>4, <2>5 DEF Ended, Over
<1>3. ASSUME NEW r \in Reqs, Purge(r) \/ Abandon(r) \/ DeleteSession(r) PROVE Ended(sid)'
  <2>1. sid \in DOMAIN sessions' => sid \in DOMAIN sessions /\ sessions'[sid] = sessions[sid]
    BY <1>3 DEF Purge, Abandon, DeleteSession, DropSession, Delete
  <2>2. pc[r] # "idle" /\ Return(r) /\ UNCHANGED <<now, started>>
    BY <1>3 DEF Purge, Abandon, DeleteSession
  <2> QED BY <2>1, <2>2, ReturnStaysEnded
<1>4. ASSUME NEW r \in Reqs, Callback(r) \/ SpacesPOST(r) \/ LevelsPOST(r) PROVE Ended(sid)'
  <2>1. PICK f : SaveAndReturn(r, f)
    BY <1>4 DEF Callback, SpacesPOST, LevelsPOST
  <2>2. pc[r] \notin {"idle", "purge"}
    BY <1>4 DEF Callback, SpacesPOST, LevelsPOST
  <2>3. loc[r].sid # sid
    BY <2>2, HeldNotEnded
  <2>4. sid \in DOMAIN sessions' => sid \in DOMAIN sessions /\ sessions'[sid] = sessions[sid]
    BY <2>1, <2>3 DEF SaveAndReturn, Save, Insert
  <2> QED BY <2>1, <2>2, <2>4, ReturnStaysEnded DEF SaveAndReturn
<1>5. ASSUME NEW r \in Reqs, ConfirmPOST(r) PROVE Ended(sid)'
  <2>1. pc[r] = "confirm" /\ UNCHANGED <<now, sessions, started>>
    BY <1>5 DEF ConfirmPOST
  <2>2. loc[r].sid # sid /\ r \in DOMAIN loc /\ loc[r] \in Local
    BY <2>1, HeldNotEnded, Held
  <2>3. CASE Return(r)
    BY <2>1, <2>3, ReturnStaysEnded
  <2>4. CASE Goto(r, "putcode") /\ loc' = [loc EXCEPT ![r].gid = NextGrant]
    <3>1. DOMAIN loc' = DOMAIN loc /\ \A y \in DOMAIN loc : loc'[y].sid = loc[y].sid
      BY <2>2, <2>4 DEF Local
    <3>2. \A y \in DOMAIN loc : y # r => pc'[y] = pc[y]
      BY <2>4 DEF Goto, IInv, RequestsOK
    <3> QED BY <2>1, <2>2, <3>1, <3>2, StaysEnded
  <2> QED BY <1>5, <2>3, <2>4 DEF ConfirmPOST, AfterPutGrantError, Return
<1>6. ASSUME NEW r \in Reqs, PutAuthCode(r) PROVE Ended(sid)'
  <2>1. pc[r] = "putcode" /\ UNCHANGED <<now, sessions, started>>
    BY <1>6 DEF PutAuthCode
  <2>2. CASE Return(r)
    BY <2>1, <2>2, ReturnStaysEnded
  <2>3. CASE Goto(r, "delete") /\ UNCHANGED loc
    <3>1. loc[r].sid # sid
      BY <2>1, HeldNotEnded
    <3>2. \A y \in DOMAIN loc : y # r => pc'[y] = pc[y]
      BY <2>3 DEF Goto, IInv, RequestsOK
    <3> QED BY <2>1, <2>3, <3>1, <3>2, StaysEnded
  <2> QED BY <1>6, <2>2, <2>3 DEF PutAuthCode
<1>7. CASE Restart
  BY <1>7 DEF Restart, Ended, Over
<1>8. CASE Tick
  <2>1. sid \in DOMAIN sessions => sessions[sid].exp \in Nat
    BY DEF IInv, SessionsOK, Session
  <2> QED BY <1>8, <2>1 DEF Tick, Ended, Over, IInv
<1>9. CASE UNCHANGED vars
  BY <1>9 DEF vars, Ended, Over
<1> QED BY <1>1, <1>2, <1>3, <1>4, <1>5, <1>6, <1>7, <1>8, <1>9 DEF Next

\* A step that writes no row of a session leaves it over.
LEMMA StaysOver ==
  ASSUME IInv, NEW sid, Over(sid), UNCHANGED now, started \subseteq started',
         sid \in DOMAIN sessions' => sid \in DOMAIN sessions /\ sessions'[sid] = sessions[sid]
  PROVE  Over(sid)'
  BY DEF Over

\* The three handlers that save a flow are the only steps that write the row of a
\* session that is over.
LEMMA OverStep ==
  ASSUME IInv, [Next]_vars, NEW sid \in Sids, Over(sid)
  PROVE  \/ Over(sid)'
         \/ \E r \in DOMAIN loc : /\ loc[r].sid = sid
                                  /\ pc[r] \in {"callback", "spaces", "levels"}
                                  /\ pc'[r] = "idle"
<1>1. ASSUME NEW x \in Sids, Authorize(x) PROVE Over(sid)'
  <2>1. x # sid
    BY <1>1 DEF Authorize, Over
  <2>2. sid \in DOMAIN sessions' => sid \in DOMAIN sessions /\ sessions'[sid] = sessions[sid]
    BY <1>1, <2>1 DEF Authorize, Save, Insert
  <2> QED BY <1>1, <2>2, StaysOver DEF Authorize
<1>2. ASSUME NEW r \in Reqs, LoadFlow(r) PROVE Over(sid)'
  BY <1>2, StaysOver DEF LoadFlow, Load
<1>3. ASSUME NEW r \in Reqs, Purge(r) \/ Abandon(r) \/ DeleteSession(r) PROVE Over(sid)'
  <2>1. sid \in DOMAIN sessions' => sid \in DOMAIN sessions /\ sessions'[sid] = sessions[sid]
    BY <1>3 DEF Purge, Abandon, DeleteSession, DropSession, Delete
  <2> QED BY <1>3, <2>1, StaysOver DEF Purge, Abandon, DeleteSession
<1>4. ASSUME NEW r \in Reqs, Callback(r) \/ SpacesPOST(r) \/ LevelsPOST(r)
      PROVE  \/ Over(sid)'
             \/ \E q \in DOMAIN loc : /\ loc[q].sid = sid
                                      /\ pc[q] \in {"callback", "spaces", "levels"}
                                      /\ pc'[q] = "idle"
  <2>1. PICK f : SaveAndReturn(r, f)
    BY <1>4 DEF Callback, SpacesPOST, LevelsPOST
  <2>2. pc[r] \in {"callback", "spaces", "levels"}
    BY <1>4 DEF Callback, SpacesPOST, LevelsPOST
  <2>3. r \in DOMAIN loc /\ pc'[r] = "idle"
    BY <2>1, <2>2, Held DEF SaveAndReturn, Return, Goto, IInv, RequestsOK
  <2>4. CASE loc[r].sid = sid
    BY <2>2, <2>3, <2>4
  <2>5. CASE loc[r].sid # sid
    <3>1. sid \in DOMAIN sessions' => sid \in DOMAIN sessions /\ sessions'[sid] = sessions[sid]
      BY <2>1, <2>5 DEF SaveAndReturn, Save, Insert
    <3> QED BY <2>1, <3>1, StaysOver DEF SaveAndReturn
  <2> QED BY <2>4, <2>5
<1>5. ASSUME NEW r \in Reqs, ConfirmPOST(r) \/ PutAuthCode(r) PROVE Over(sid)'
  BY <1>5, StaysOver DEF ConfirmPOST, PutAuthCode
<1>6. CASE Restart
  BY <1>6 DEF Restart, Over
<1>7. CASE Tick
  <2>1. sid \in DOMAIN sessions => sessions[sid].exp \in Nat
    BY DEF IInv, SessionsOK, Session
  <2> QED BY <1>7, <2>1 DEF Tick, Over, IInv
<1>8. CASE UNCHANGED vars
  BY <1>8 DEF vars, Over
<1> QED BY <1>1, <1>2, <1>3, <1>4, <1>5, <1>6, <1>7, <1>8 DEF Next

\* A session whose row is deleted, expired or was never saved comes back only by
\* the save of a form that loaded it before; when no request holds such a copy
\* it never does, whatever is sent with its cookie.
THEOREM EndedSessionsStayEnded == Spec => EndedStaysEnded
<1> DEFINE Kept(sid) ==
      /\ Ended(sid) => Ended(sid)'
      /\ Over(sid) => \/ Over(sid)'
                      \/ \E r \in DOMAIN loc : /\ loc[r].sid = sid
                                               /\ pc[r] \in {"callback", "spaces", "levels"}
                                               /\ pc'[r] = "idle"
<1>1. IInv /\ [Next]_vars => \A sid \in Sids : Kept(sid)
  BY EndedStep, OverStep
<1> HIDE DEF Kept
<1>2. Spec => [][\A sid \in Sids : Kept(sid)]_vars
  BY <1>1, WizardInvariant, PTL DEF Spec
<1> QED BY <1>2 DEF EndedStaysEnded, Kept
=============================================================================
