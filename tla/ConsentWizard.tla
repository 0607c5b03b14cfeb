--------------------------- MODULE ConsentWizard ---------------------------
(***************************************************************************)
(* The consent wizard, internal/consent/handler.go: /authorize opens a     *)
(* session, /oauth/callback fills it with the login, the three forms of    *)
(* /consent edit it, and the last one turns it into a grant and a code.    *)
(*                                                                         *)
(* The whole flow is one encrypted row of the sessions table.  Every       *)
(* handler loads it, changes its copy and saves it (saveFlow replaces the  *)
(* row and renews its expiry); nothing serialises two tabs of one browser, *)
(* a double click or a reload.  A request is at the point named after its  *)
(* handler when it has loaded the flow and not saved it yet.               *)
(***************************************************************************)
EXTENDS Integers, FiniteSets

CONSTANTS
  Reqs, Sids, Spaces,
  Accounts,    \* what a login may return: [admin, ceiling of each space];
               \* ceiling 0: the space is not listed for the account
  SessionTTL,
  Faults,      \* database writes that may fail: "session", "put"
  MaxTime, MaxGrants   \* bounds

Levels == 0..3    \* LevelNone, LevelRead, LevelWrite, LevelAdmin
Account == [admin : BOOLEAN, ceiling : [Spaces -> Levels]]

ASSUME ConstantsAssumption ==
  /\ Accounts \subseteq Account
  /\ SessionTTL \in Nat /\ MaxTime \in Nat /\ MaxGrants \in Nat
  /\ Faults \subseteq {"session", "put"}

VARIABLES
  now,
  sessions,  \* sid -> [flow, exp]
  started,   \* session ids drawn by RandomID
  grants,    \* grant id -> what the grant row says
  codes,     \* grant ids named by the stored authorization codes
  pc, loc    \* program point, and loaded flow or drawn grant id

vars == <<now, sessions, started, grants, codes, pc, loc>>

\* account: the identity, tokens and space list of the last login; the flag
\* adminOK and the ceilings are what the same login returned.
\* again: history, the browser came back to /oauth/callback of a session that
\* had logged in before.
Nobody == [admin |-> FALSE, ceiling |-> [s \in Spaces |-> 0]]
Flow == [login : BOOLEAN, account : Accounts \cup {Nobody},
         wantAdmin : BOOLEAN, level : [Spaces -> Levels],
         selected : SUBSET Spaces, again : BOOLEAN]
NewFlow == [login |-> FALSE, account |-> Nobody, wantAdmin |-> FALSE,
            level |-> [s \in Spaces |-> 0], selected |-> {}, again |-> FALSE]

Session == [flow : Flow, exp : Nat]
Grant == [account : Accounts \cup {Nobody}, admin : BOOLEAN,
          level : [Spaces -> Levels], spaces : SUBSET Spaces,
          again : BOOLEAN]
Points == {"idle", "purge", "callback", "spaces", "levels", "confirm", "putcode",
           "delete"}
Local == [sid : Sids, flow : Flow, gid : 0..MaxGrants]

TypeOK ==
  /\ now \in Nat
  /\ DOMAIN sessions \subseteq started
  /\ sessions \in [DOMAIN sessions -> Session]
  /\ started \subseteq Sids
  /\ DOMAIN grants \subseteq 1..MaxGrants
  /\ grants \in [DOMAIN grants -> Grant]
  /\ codes \subseteq 1..MaxGrants
  /\ pc \in [Reqs -> Points]
  /\ DOMAIN loc = {r \in Reqs : pc[r] # "idle"}
  /\ loc \in [DOMAIN loc -> Local]

Init ==
  /\ now = 0
  /\ sessions = [s \in {} |-> NewFlow]
  /\ started = {}
  /\ grants = [g \in {} |-> NewFlow]
  /\ codes = {}
  /\ pc = [r \in Reqs |-> "idle"]
  /\ loc = [r \in {} |-> NewFlow]

-----------------------------------------------------------------------------
Insert(table, key, row) ==
  [k \in DOMAIN table \cup {key} |-> IF k = key THEN row ELSE table[k]]
Delete(table, key) == [k \in DOMAIN table \ {key} |-> table[k]]

Goto(r, point) == pc' = [pc EXCEPT ![r] = point]
Return(r) == Goto(r, "idle") /\ loc' = Delete(loc, r)

NeverExpired(row) == FALSE                        \* mutation
Expired(row) == now > row.exp

\* saveFlow.  All its callers but Authorize and Callback discard the error.
Save(sid, flow) ==
  \/ sessions' = Insert(sessions, sid, [flow |-> flow, exp |-> now + SessionTTL])
  \/ "session" \in Faults /\ UNCHANGED sessions

-----------------------------------------------------------------------------
\* /authorize, for a registered client and redirect
Authorize(sid) ==
  /\ sid \notin started
  /\ started' = started \cup {sid}
  /\ Save(sid, NewFlow)
  /\ UNCHANGED <<now, grants, codes, pc, loc>>

\* loadFlow; GetSession goes on to delete a row it found expired
Load(r, sid, point) ==
  LET row == sessions[sid]
  IN /\ pc[r] = "idle"
     /\ sid \in DOMAIN sessions
     /\ Goto(r, IF Expired(row) THEN "purge" ELSE point)
     /\ loc' = Insert(loc, r, [sid |-> sid, flow |-> row.flow, gid |-> 0])
     /\ UNCHANGED <<now, sessions, started, grants, codes>>

\* The DELETE of GetSession or of DeleteSession, whose error is discarded
DropSession(sid) ==
  \/ sessions' = Delete(sessions, sid)
  \/ "session" \in Faults /\ UNCHANGED sessions

Purge(r) ==
  /\ pc[r] = "purge"
  /\ DropSession(loc[r].sid)
  /\ Return(r)
  /\ UNCHANGED <<now, started, grants, codes>>

\* GET pages load and show the flow; the forms and the login return load it
\* first as well.
LoadFlow(r) ==
  \E sid \in Sids, point \in {"callback", "spaces", "levels", "confirm"} :
    Load(r, sid, point)

\* A GET is done; so is a POST with a bad form or csrf, a login that fails
\* or one that lists no space.
Abandon(r) ==
  /\ pc[r] \in {"callback", "spaces", "levels", "confirm"}
  /\ Return(r)
  /\ UNCHANGED <<now, sessions, started, grants, codes>>

SaveAndReturn(r, flow) ==
  /\ Save(loc[r].sid, flow)
  /\ Return(r)
  /\ UNCHANGED <<now, started, grants, codes>>

KeepLevels(flow, a) == [flow EXCEPT !.login = TRUE, !.account = a,  \* mutation
                                    !.again = flow.login]
\* Callback replaces the space list, whose levels start at LevelNone, and
\* keeps Selected and WantInstanceAdm of an earlier pass.
LoggedIn(flow, a) == [flow EXCEPT !.login = TRUE, !.account = a,
                                  !.level = [s \in Spaces |-> 0],
                                  !.again = flow.login]

Callback(r) ==
  /\ pc[r] = "callback"
  /\ \E a \in Accounts :
       /\ \E s \in Spaces : a.ceiling[s] > 0
       /\ SaveAndReturn(r, LoggedIn(loc[r].flow, a))

Listed(flow) == {s \in Spaces : flow.account.ceiling[s] > 0}

SpacesPOST(r) ==
  /\ pc[r] = "spaces"
  /\ \E ids \in SUBSET Spaces :
       /\ ids \cap Listed(loc[r].flow) # {}
       /\ SaveAndReturn(r, [loc[r].flow EXCEPT
                              !.selected = ids \cap Listed(loc[r].flow)])

ClampLevel(want, ceiling) == IF want > ceiling THEN ceiling ELSE want
OneMore(l) == l + 1                               \* mutation
AtLeastRead(l) == IF l = 0 THEN 1 ELSE l

WantOnly(adminOK, box) == box                     \* mutation
WantAdmin(adminOK, box) == adminOK /\ box

LevelsPOST(r) ==
  LET flow == loc[r].flow
      edited == flow.selected \cap Listed(flow)
  IN /\ pc[r] = "levels"
     /\ \E want \in [edited -> Levels], box \in BOOLEAN :
          SaveAndReturn(r, [flow EXCEPT
            !.level = [s \in Spaces |->
                        IF s \in edited
                        THEN AtLeastRead(ClampLevel(want[s],
                                                    flow.account.ceiling[s]))
                        ELSE @[s]],
            !.wantAdmin = WantAdmin(flow.account.admin, box)])

-----------------------------------------------------------------------------
(* ConfirmPOST: PutGrant, PutAuthCode, DeleteSession                       *)

GoOn == "putcode"                                 \* mutation: error ignored
AfterPutGrantError == "idle"

NextGrant == Cardinality(DOMAIN grants) + 1

\* selectedSpaces
Chosen(flow) == flow.selected \cap Listed(flow)

Granted(flow) == [account |-> flow.account, admin |-> flow.wantAdmin,
                  level |-> flow.level, spaces |-> Chosen(flow), again |-> flow.again]

ConfirmPOST(r) ==
  LET flow == loc[r].flow
  IN /\ pc[r] = "confirm"
     /\ NextGrant <= MaxGrants
     /\ \/ /\ grants' = Insert(grants, NextGrant, Granted(flow))
           /\ Goto(r, "putcode")
           /\ loc' = [loc EXCEPT ![r].gid = NextGrant]
        \/ /\ "put" \in Faults
           /\ UNCHANGED grants
           /\ Goto(r, AfterPutGrantError)
           /\ loc' = IF AfterPutGrantError = "idle" THEN Delete(loc, r)
                     ELSE [loc EXCEPT ![r].gid = NextGrant]
     /\ UNCHANGED <<now, sessions, started, codes>>

PutAuthCode(r) ==
  /\ pc[r] = "putcode"
  /\ \/ codes' = codes \cup {loc[r].gid} /\ Goto(r, "delete") /\ UNCHANGED loc
     \/ "put" \in Faults /\ UNCHANGED codes /\ Return(r)
  /\ UNCHANGED <<now, sessions, started, grants>>

\* then the redirect with the code
DeleteSession(r) ==
  /\ pc[r] = "delete"
  /\ DropSession(loc[r].sid)
  /\ Return(r)
  /\ UNCHANGED <<now, started, grants, codes>>

Restart ==
  /\ pc' = [r \in Reqs |-> "idle"]
  /\ loc' = [r \in {} |-> NewFlow]
  /\ UNCHANGED <<now, sessions, started, grants, codes>>

Tick == /\ now < MaxTime /\ now' = now + 1
        /\ UNCHANGED <<sessions, started, grants, codes, pc, loc>>

Next ==
  \/ \E sid \in Sids : Authorize(sid)
  \/ \E r \in Reqs : \/ LoadFlow(r) \/ Purge(r) \/ Abandon(r) \/ Callback(r)
                     \/ SpacesPOST(r) \/ LevelsPOST(r) \/ ConfirmPOST(r)
                     \/ PutAuthCode(r) \/ DeleteSession(r)
  \/ Restart
  \/ Tick

Spec == Init /\ [][Next]_vars

-----------------------------------------------------------------------------
\* A grant never exceeds the login whose oCIS token it carries: each space was
\* listed for that account, with a level up to its role there, however the
\* forms and logins of several tabs were interleaved (ClampLevel is applied to
\* the ceilings of one login and stored beside the token of the same login).
GrantWithinLogin ==
  \A g \in DOMAIN grants : \A s \in grants[g].spaces :
    /\ grants[g].account.ceiling[s] > 0
    /\ grants[g].level[s] <= grants[g].account.ceiling[s]

\* Instance administration is granted only to an account that is an instance
\* administrator ("shown only if Graph GET /users?$top=1 succeeds").  Not so
\* for a session that logs in a second time, as somebody else: Callback keeps
\* WantInstanceAdm, and a grant of the second account may carry the first
\* account's wish.
AdminOnlyIfAdmin ==
  \A g \in DOMAIN grants :
    grants[g].admin /\ ~grants[g].again => grants[g].account.admin

\* A code that was stored names a stored grant, also when a write failed or
\* the process stopped in the middle of ConfirmPOST.
CodeNamesGrant == codes \subseteq DOMAIN grants

\* A session is over when its row is deleted, expired or was never saved, and
\* has ended when besides no running request holds a copy of its flow.
Over(sid) == sid \in started /\ (sid \in DOMAIN sessions => now > sessions[sid].exp)
Ended(sid) == Over(sid) /\ \A r \in DOMAIN loc : loc[r].sid = sid => pc[r] = "purge"

\* Only a form that was loaded while its session lived can bring back a session
\* that is over: saveFlow writes the row again, also after another tab was
\* granted (handler.go:169, 221, 275 against 323) or after it expired.  An ended
\* session stays ended: its cookie alone, however often it is sent, loads nothing.
EndedStaysEnded ==
  [][\A sid \in Sids :
       /\ Ended(sid) => Ended(sid)'
       /\ Over(sid) => \/ Over(sid)'
                       \/ \E r \in DOMAIN loc : /\ loc[r].sid = sid
                                                /\ pc[r] \in {"callback", "spaces", "levels"}
                                                /\ pc'[r] = "idle"]_vars
=============================================================================
