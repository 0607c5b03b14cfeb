--------------------------- MODULE ConsentAsShown ---------------------------
(***************************************************************************)
(* The consent wizard seen by the user: what the confirmation page listed  *)
(* when "Allow access" was pressed.  Each request of ConsentWizard is a    *)
(* browser tab, which has one request in flight at a time; page[r] is the  *)
(* summary tab r displays, if it displays the confirmation page.  ConfirmGET *)
(* renders the flow it loaded; ConfirmPOST is sent from a displayed page   *)
(* but grants the flow it loads itself, which another tab may have edited. *)
(***************************************************************************)
EXTENDS ConsentWizard

VARIABLES page,     \* tab -> the summary it displays, or NoPage
          allowed   \* grant id -> the summary its ConfirmPOST was sent from
allVars == <<vars, page, allowed>>

Summary(of) == [listed |-> TRUE, spaces |-> of.spaces, admin |-> of.admin,
                level |-> [s \in of.spaces |-> of.level[s]]]
NoPage == [listed |-> FALSE, spaces |-> {}, admin |-> FALSE, level |-> <<>>]

InitShown == /\ Init
             /\ page = [r \in Reqs |-> NoPage]
             /\ allowed = [g \in {} |-> NoPage]

(* The selected spaces with their levels, and the administration flag *)
ConfirmPage(flow) == Summary([spaces |-> Chosen(flow), admin |-> flow.wantAdmin,
                              level |-> flow.level])

ConfirmGET(r) ==
    /\ pc[r] = "confirm"
    /\ page' = [page EXCEPT ![r] = ConfirmPage(loc[r].flow)]
    /\ Return(r)
    /\ UNCHANGED <<now, sessions, started, grants, codes, allowed>>

AllowAccess(r) ==
    /\ page[r] # NoPage
    /\ ConfirmPOST(r)
    /\ allowed' = IF DOMAIN grants' = DOMAIN grants THEN allowed
                  ELSE Insert(allowed, NextGrant, page[r])
    /\ UNCHANGED page

(* Any other page leaves the confirmation page of that tab *)
Leave(r) == page' = [page EXCEPT ![r] = NoPage] /\ UNCHANGED allowed

OtherPage(r) ==
    \/ pc[r] # "confirm" /\ (Abandon(r) \/ Purge(r)) /\ Leave(r)
    \/ (Callback(r) \/ SpacesPOST(r) \/ LevelsPOST(r)) /\ Leave(r)
    \/ (PutAuthCode(r) \/ DeleteSession(r)) /\ Leave(r)

NextShown ==
    \/ \E r \in Reqs : ConfirmGET(r) \/ AllowAccess(r) \/ OtherPage(r)
    \/ /\ \/ \E sid \in Sids : Authorize(sid)
          \/ \E r \in Reqs : LoadFlow(r)
          \/ Restart
          \/ Tick
       /\ UNCHANGED <<page, allowed>>

SpecShown == InitShown /\ [][NextShown]_allVars
-----------------------------------------------------------------------------
(* The grant is what the confirmation page listed: the client "will be      *)
(* allowed to act as you, limited to the following" (html.go 130), also     *)
(* when a save of the flow failed and its error was dropped                 *)
(* (handler.go 221, 275).                                                   *)
GrantedAsShown == \A g \in DOMAIN allowed : Summary(grants[g]) = allowed[g]
=============================================================================
