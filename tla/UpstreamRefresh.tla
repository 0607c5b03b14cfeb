-------------------------- MODULE UpstreamRefresh --------------------------
(***************************************************************************)
(* A request to /mcp with a valid access token: mcpBearer reads the grant, *)
(* maybeRefresh renews the oCIS token the grant holds and writes it back   *)
(* with Store.UpdateOcisTokens, then the request is served.  No lock spans *)
(* these steps: requests on one grant interleave, and an operator may      *)
(* revoke or delete the grant row between any two of them.                 *)
(*                                                                         *)
(* One grant is modelled: no statement touches two rows of the table.  Its *)
(* columns that never change (user, client, spaces) are left out.  The     *)
(* identity provider is external; it accepts the refresh tokens in idp,    *)
(* and a rotating one invalidates the token it is given.                   *)
(***************************************************************************)
EXTENDS Integers

CONSTANTS
  Reqs,
  Rotating,     \* the provider returns a new refresh token each time
  Lifetimes,    \* access token lifetimes it may choose
  Skew,         \* the 60 s of maybeRefresh
  Faults,       \* "select", "put": database; "idp": discovery or exchange
                \* fails; "lost": it succeeds but its answer is lost;
                \* "restart"
  MaxTime, MaxMinted   \* bounds: clock, tokens the provider issues

ASSUME ConstantsAssumption ==
  /\ Rotating \in BOOLEAN
  /\ Lifetimes \subseteq Nat /\ Skew \in Nat
  /\ MaxTime \in Nat /\ MaxMinted \in Nat \ {0}
  /\ Faults \subseteq {"select", "put", "idp", "lost", "restart"}

VARIABLES
  now,
  row,      \* the grant's row; state "deleted" when there is none
  idp,      \* refresh tokens the provider accepts
  minted,   \* serial number of the last access token it issued
  pc, loc,  \* program point and local *grant.Grant of each request
  lost      \* history: an issued token got lost to a fault

vars == <<now, row, idp, minted, pc, loc, lost>>

\* Tokens are serial numbers; ref = 0 is the empty refresh token of a login
\* that was not given offline access.
Tokens == [acc : 0..MaxMinted, ref : 0..MaxMinted, exp : Nat]
NoTokens == [acc |-> 0, ref |-> 0, exp |-> 0]
Row == [state : {"live", "revoked", "deleted"}, tok : Tokens]
Points == {"idle", "get", "decide", "exchange", "reread", "rewrite", "serve"}

TypeOK ==
  /\ now \in Nat
  /\ row \in Row
  /\ idp \subseteq 1..MaxMinted
  /\ minted \in 1..MaxMinted
  /\ pc \in [Reqs -> Points]
  /\ loc \in [Reqs -> Tokens]
  /\ lost \in BOOLEAN

\* The row as ConfirmPOST stored it after the login.
Init ==
  /\ now = 0
  /\ minted = 1
  /\ \E life \in Lifetimes, ref \in {0, 1} :
       row = [state |-> "live",
              tok |-> [acc |-> 1, ref |-> ref, exp |-> life]]
  /\ idp = {row.tok.ref} \ {0}
  /\ pc = [r \in Reqs |-> "idle"]
  /\ loc = [r \in Reqs |-> NoTokens]
  /\ lost = FALSE

AnyRow(state) == state # "deleted"      \* mutation: revoked_at not read
Found(state) == state = "live"
Readable == Found(row.state)

Move(r, from, to) == pc[r] = from /\ pc' = [pc EXCEPT ![r] = to]
Keep(r, tok) == loc' = [loc EXCEPT ![r] = tok]

-----------------------------------------------------------------------------
\* A request whose bearer token ParseAccess accepts
Arrive(r) == Move(r, "idle", "get") /\ UNCHANGED <<now, row, idp, minted, loc, lost>>

\* mcpBearer: GetGrant, or 401
GetGrant(r) ==
  /\ \/ Readable /\ Move(r, "get", "decide") /\ Keep(r, row.tok)
     \/ /\ ~Readable \/ "select" \in Faults
        /\ Move(r, "get", "idle") /\ UNCHANGED loc
  /\ UNCHANGED <<now, row, idp, minted, lost>>

Due(tok) == tok.exp # 0 /\ now >= tok.exp - Skew /\ tok.ref # 0

\* maybeRefresh up to the discovery
Decide(r) ==
  /\ Move(r, "decide", IF Due(loc[r]) THEN "exchange" ELSE "serve")
  /\ UNCHANGED <<now, row, idp, minted, loc, lost>>

SkewedExpiry(life) == now + life - Skew \* mutation: the skew taken off twice
\* TokenExpiryUnix
Expiry(life) == now + life

KeepOldRefresh(tok, ref) == tok.ref             \* mutation: token not taken over
\* "if tok.RefreshToken != """
NewRefresh(tok, ref) == IF ref # 0 THEN ref ELSE tok.ref

PersistAnyway == "reread"     \* mutation: no return after a failed exchange
AfterFailure == "serve"

\* Discovery and src.Token(): on an error the old tokens are served.
Exchange(r) ==
  LET tok == loc[r]
      new == IF Rotating THEN minted + 1 ELSE 0
  IN \/ /\ tok.ref \in idp /\ minted < MaxMinted
        /\ minted' = minted + 1
        /\ idp' = IF Rotating THEN (idp \ {tok.ref}) \cup {new} ELSE idp
        /\ \/ \E life \in Lifetimes :
                Keep(r, [acc |-> minted + 1, ref |-> NewRefresh(tok, new),
                         exp |-> Expiry(life)])
              /\ Move(r, "exchange", "reread") /\ UNCHANGED lost
           \/ /\ "lost" \in Faults /\ lost' = TRUE
              /\ Move(r, "exchange", AfterFailure) /\ UNCHANGED loc
        /\ UNCHANGED <<now, row>>
     \/ /\ tok.ref \notin idp \/ minted = MaxMinted \/ "idp" \in Faults
        /\ Move(r, "exchange", AfterFailure)
        /\ UNCHANGED <<now, row, idp, minted, loc, lost>>

\* UpdateOcisTokens: GetGrant again; its error is only logged
Reread(r) ==
  /\ \/ Readable /\ Move(r, "reread", "rewrite") /\ UNCHANGED lost
     \/ ~Readable /\ Move(r, "reread", "serve") /\ UNCHANGED lost
     \/ "select" \in Faults /\ Move(r, "reread", "serve") /\ lost' = TRUE
  /\ UNCHANGED <<now, row, idp, minted, loc>>

\* ... then PutGrant, an INSERT OR REPLACE that does not name revoked_at, so
\* that the row comes out live whatever it was
Rewrite(r) ==
  /\ Move(r, "rewrite", "serve")
  /\ \/ row' = [state |-> "live", tok |-> loc[r]] /\ UNCHANGED lost
     \/ "put" \in Faults /\ UNCHANGED row /\ lost' = TRUE
  /\ UNCHANGED <<now, idp, minted, loc>>

\* next.ServeHTTP with the access token of the local grant
Serve(r) == /\ Move(r, "serve", "idle") /\ Keep(r, NoTokens)
            /\ UNCHANGED <<now, row, idp, minted, lost>>

\* Store.RevokeGrant, or the operator deletes the row (ConfirmPage tells the
\* user about it)
RevokeGrant == /\ row.state = "live" /\ row' = [row EXCEPT !.state = "revoked"]
               /\ UNCHANGED <<now, idp, minted, pc, loc, lost>>
DeleteGrant == /\ row.state # "deleted" /\ row' = [row EXCEPT !.state = "deleted"]
               /\ UNCHANGED <<now, idp, minted, pc, loc, lost>>

Holding(r) == pc[r] \in {"reread", "rewrite"}

Restart == /\ "restart" \in Faults
           /\ lost' = (lost \/ \E r \in Reqs : Holding(r))
           /\ pc' = [r \in Reqs |-> "idle"] /\ loc' = [r \in Reqs |-> NoTokens]
           /\ UNCHANGED <<now, row, idp, minted>>

Tick == now < MaxTime /\ now' = now + 1 /\ UNCHANGED <<row, idp, minted, pc, loc, lost>>

Next ==
  \/ \E r \in Reqs : \/ Arrive(r) \/ GetGrant(r) \/ Decide(r) \/ Exchange(r)
                     \/ Reread(r) \/ Rewrite(r) \/ Serve(r)
  \/ RevokeGrant \/ DeleteGrant \/ Restart \/ Tick

Spec == Init /\ [][Next]_vars

-----------------------------------------------------------------------------
\* The refresh token of a live grant is never lost to concurrency: unless a
\* fault lost it, every token the provider accepts is in the row, or in the
\* hands of a request on its way to write it there.  Otherwise the user has to
\* log in again although nothing failed (maybeRefresh against a rotating
\* provider).
RefreshTokenKept ==
  row.state = "live" /\ ~lost =>
    \A t \in idp : \/ row.tok.ref = t
                   \/ \E r \in Reqs : Holding(r) /\ loc[r].ref = t

\* Requests that race to refresh never store tokens older than those already
\* stored, even when writes fail, answers are lost or the process restarts:
\* the rotation serialises them although no lock does.
StoredTokensAdvance == [][row'.tok.acc >= row.tok.acc]_vars

\* Once a grant is revoked or deleted and the requests that had read it before
\* are over, it stays so and nothing is served on it again, whatever access
\* tokens are still valid ("we can revoke without waiting for the JWT to
\* expire").  The requests in flight are why this needs the second conjunct.
Closed == row.state # "live" /\ \A r \in Reqs : pc[r] \in {"idle", "get"}
ClosedStaysClosed == [][Closed => Closed']_vars

\* The same without waiting for the requests in flight.
RevokedStaysRevoked == [][row.state # "live" => row'.state # "live"]_vars
=============================================================================
