---------------------------- MODULE OAuthTokens ----------------------------
(***************************************************************************)
(* The token endpoint of the authorization server and the two SQLite       *)
(* tables behind it: internal/oauth/server.go (Token, Revoke) over         *)
(* internal/store/store.go (auth_codes, refresh_tokens, and the part of    *)
(* grants that issue() reads).                                             *)
(*                                                                         *)
(* Each net/http handler goroutine is a request r \in Reqs that moves      *)
(* through the program points of its handler; a step is one statement that *)
(* touches shared state.  Store.mu is taken by ConsumeAuthCode and         *)
(* ConsumeRefresh only, so a consume is two steps under the mutex (SELECT, *)
(* then UPDATE and unlock), and everything else interleaves freely.        *)
(*                                                                         *)
(* A table is a function whose domain is the set of primary keys stored.   *)
(* Keys are the SHA-256 of a 256-bit random value; they are represented by *)
(* the value itself, a fresh one for each call of RandomToken.             *)
(***************************************************************************)
EXTENDS Integers, FiniteSets

CONSTANTS
  Reqs,         \* handler goroutines that may be running at once
  Grants,       \* grant ids, one per ConfirmPOST
  Codes,        \* raw authorization codes
  Refreshes,    \* raw refresh tokens
  Clients, Redirects, Verifiers,
  None,         \* a credential no table holds; also "no value yet"
  CodeTTL, RefreshTTL,
  MaxTime,      \* bound of the clock
  Faults        \* database calls that may fail: "select", "mark", "put"

ASSUME ConstantsAssumption ==
  /\ CodeTTL \in Nat /\ RefreshTTL \in Nat /\ MaxTime \in Nat
  /\ Faults \subseteq {"select", "mark", "put"}
  /\ Codes \cap Refreshes = {}
  /\ None \notin Reqs \cup Grants \cup Codes \cup Refreshes \cup Clients
                       \cup Redirects \cup Verifiers

VARIABLES
  now,       \* time.Now().Unix()
  grants,    \* grants table: id -> "live" | "revoked"
  codes,     \* auth_codes table
  refresh,   \* refresh_tokens table
  mu,        \* holder of Store.mu, or None
  pc,        \* program point of each request
  loc,       \* form values and locals of each request
  known,     \* refresh tokens that reached a client
  uses,      \* history: successful returns of a consume, per credential
  redeemer   \* history: the form that redeemed the code of a grant

vars == <<now, grants, codes, refresh, mu, pc, loc, known, uses, redeemer>>

(***************************************************************************)
(* VerifyS256: BASE64URL(SHA256(verifier)) compared with the challenge.    *)
(***************************************************************************)
S256(v) == [sha256 |-> v]
Challenges == {S256(v) : v \in Verifiers}

AnyVerifier(verifier, challenge) == TRUE    \* mutation: PKCE not enforced
VerifyS256(verifier, challenge) == S256(verifier) = challenge

CodeRow == [grant : Grants, client : Clients, redirect : Redirects,
            challenge : Challenges, exp : Nat, used : BOOLEAN]
RefreshRow == [grant : Grants, client : Clients, exp : Nat,
               revoked : BOOLEAN]

Form == [client : Clients \cup {None}, redirect : Redirects \cup {None},
         verifier : Verifiers \cup {None}]
NoForm == [client |-> None, redirect |-> None, verifier |-> None]

Kinds == {"none", "code", "refresh", "revoke", "confirm"}
Points == {"idle", "select", "mark", "check", "grant", "put", "reply",
           "putgrant", "putcode"}

\* item: credential presented, or minted once the point is "reply";
\* grant, client: the arguments of issue().
Local == [kind : Kinds, item : Codes \cup Refreshes \cup {None},
          form : Form, grant : Grants \cup {None},
          client : Clients \cup {None}]
Blank == [kind |-> "none", item |-> None, form |-> NoForm,
          grant |-> None, client |-> None]

TypeOK ==
  /\ now \in Nat
  /\ DOMAIN grants \subseteq Grants
  /\ grants \in [DOMAIN grants -> {"live", "revoked"}]
  /\ DOMAIN codes \subseteq Codes
  /\ codes \in [DOMAIN codes -> CodeRow]
  /\ DOMAIN refresh \subseteq Refreshes
  /\ refresh \in [DOMAIN refresh -> RefreshRow]
  /\ mu \in Reqs \cup {None}
  /\ pc \in [Reqs -> Points]
  /\ loc \in [Reqs -> Local]
  /\ known \subseteq Refreshes
  /\ uses \in [Codes \cup Refreshes -> Nat]
  /\ redeemer \in [Grants -> Form]

Init ==
  /\ now = 0
  /\ grants = [g \in {} |-> "live"]
  /\ codes = [c \in {} |-> None]
  /\ refresh = [t \in {} |-> None]
  /\ mu = None
  /\ pc = [r \in Reqs |-> "idle"]
  /\ loc = [r \in Reqs |-> Blank]
  /\ known = {}
  /\ uses = [x \in Codes \cup Refreshes |-> 0]
  /\ redeemer = [g \in Grants |-> NoForm]

-----------------------------------------------------------------------------
\* INSERT of a row under a key
Insert(table, key, row) ==
  [k \in DOMAIN table \cup {key} |-> IF k = key THEN row ELSE table[k]]

Goto(r, point) == pc' = [pc EXCEPT ![r] = point]

\* The handler returns: its locals are gone.
Return(r) == /\ Goto(r, "idle")
             /\ loc' = [loc EXCEPT ![r] = Blank]

RevokedUnread(row) == now <= row.exp        \* mutation: revoked not checked
ExpiryUnread(row) == ~row.revoked           \* mutation: expiry not checked

\* What ConsumeRefresh and ConsumeAuthCode accept: the second of the expiry
\* itself is still in time.
Live(row) == ~row.revoked /\ now <= row.exp
Redeemable(row) == ~row.used /\ now <= row.exp

NoMutex == TRUE                             \* mutation: mu not taken
Unlocked == mu = None

KeepLock == UNCHANGED mu                    \* mutation: no deferred unlock
Unlock == mu' = None

-----------------------------------------------------------------------------
(* Requests arrive.  MintingRoom bounds the model: a request that may call *)
(* RandomToken starts only while an unused refresh token is left for it.   *)

Minting == {r \in Reqs : pc[r] # "idle" /\ loc[r].kind \in {"code", "refresh"}}
MintingRoom == Cardinality(DOMAIN refresh) + Cardinality(Minting)
                 < Cardinality(Refreshes)

Arrive(r, kind, item, form) ==
  /\ pc[r] = "idle"
  /\ Goto(r, "select")
  /\ loc' = [loc EXCEPT ![r] = [Blank EXCEPT !.kind = kind, !.item = item,
                                             !.form = form]]
  /\ UNCHANGED <<now, grants, codes, refresh, mu, known, uses, redeemer>>

\* POST /token, grant_type=authorization_code
TokenCode(r) ==
  /\ MintingRoom
  /\ \E c \in DOMAIN codes \cup {None}, k \in Clients, u \in Redirects,
        v \in Verifiers :
       Arrive(r, "code", c, [client |-> k, redirect |-> u, verifier |-> v])

\* POST /token, grant_type=refresh_token
TokenRefresh(r) ==
  /\ MintingRoom
  /\ \E t \in known \cup {None} : Arrive(r, "refresh", t, NoForm)

\* POST /revoke
Revoke(r) == \E t \in known \cup {None} : Arrive(r, "revoke", t, NoForm)

-----------------------------------------------------------------------------
(* ConsumeAuthCode and ConsumeRefresh.                                     *)

ScannedGrantOnly(l, row) == [l EXCEPT !.grant = row.grant]  \* mutation

\* Scan into the locals grantID and clientID
Scanned(l, row) == [l EXCEPT !.grant = row.grant, !.client = row.client]

\* mu.Lock, SELECT, the checks; on failure the deferred unlock and the
\* error reply (200 for /revoke) are part of the same step.
Select(r, table, found) ==
  /\ pc[r] = "select"
  /\ Unlocked
  /\ \/ /\ found
        /\ mu' = r
        /\ Goto(r, "mark")
        /\ loc' = [loc EXCEPT ![r] = Scanned(@, table[loc[r].item])]
     \/ /\ ~found \/ "select" \in Faults
        /\ UNCHANGED mu
        /\ Return(r)
  /\ UNCHANGED <<now, grants, codes, refresh, known, uses, redeemer>>

SelectCode(r) ==
  LET c == loc[r].item
  IN loc[r].kind = "code"
       /\ Select(r, codes, c \in DOMAIN codes /\ Redeemable(codes[c]))
SelectRefresh(r) ==
  LET t == loc[r].item
  IN loc[r].kind \in {"refresh", "revoke"}
       /\ Select(r, refresh, t \in DOMAIN refresh /\ Live(refresh[t]))

MarkForgotten(table, marked) == {table}     \* mutation: no UPDATE

\* What an UPDATE whose error is discarded may leave in the table.
Marked(table, marked) == {marked} \cup (IF "mark" \in Faults THEN {table} ELSE {})

Count(item) == uses' = [uses EXCEPT ![item] = @ + 1]

\* UPDATE auth_codes SET used=1, unlock, return success
MarkCode(r) ==
  /\ pc[r] = "mark"
  /\ loc[r].kind = "code"
  /\ codes' \in Marked(codes, [codes EXCEPT ![loc[r].item].used = TRUE])
  /\ Unlock
  /\ Count(loc[r].item)
  /\ redeemer' = [redeemer EXCEPT ![loc[r].grant] = loc[r].form]
  /\ Goto(r, "check")
  /\ UNCHANGED <<now, grants, refresh, loc, known>>

\* UPDATE refresh_tokens SET revoked=1, unlock, return success.  Revoke
\* answers 200 and ends here; tokenRefresh goes on to issue.
MarkRefresh(r) ==
  /\ pc[r] = "mark"
  /\ loc[r].kind \in {"refresh", "revoke"}
  /\ refresh' \in Marked(refresh, [refresh EXCEPT ![loc[r].item].revoked = TRUE])
  /\ Unlock
  /\ Count(loc[r].item)
  /\ IF loc[r].kind = "revoke" THEN Return(r)
                               ELSE Goto(r, "grant") /\ UNCHANGED loc
  /\ UNCHANGED <<now, grants, codes, known, redeemer>>

\* tokenCode after the consume: client and redirect, then PKCE.  The columns
\* compared never change, so they are read from the row.
CheckCode(r) ==
  LET row == codes[loc[r].item]
      form == loc[r].form
  IN /\ pc[r] = "check"
     /\ IF /\ row.client = form.client
           /\ row.redirect = form.redirect
           /\ VerifyS256(form.verifier, row.challenge)
        THEN /\ Goto(r, "grant")
             /\ loc' = [loc EXCEPT ![r].client = form.client]
        ELSE Return(r)
     /\ UNCHANGED <<now, grants, codes, refresh, mu, known, uses, redeemer>>

-----------------------------------------------------------------------------
(* issue: GetGrant, PutRefresh, the reply.  The access token is a signed   *)
(* value without server state; nothing here depends on it.                 *)

Readable(g) == g \in DOMAIN grants /\ grants[g] = "live"

ReadGrant(r) ==
  /\ pc[r] = "grant"
  /\ \/ /\ Readable(loc[r].grant)
        /\ Goto(r, "put")
        /\ UNCHANGED loc
     \/ /\ ~Readable(loc[r].grant) \/ "select" \in Faults
        /\ Return(r)
  /\ UNCHANGED <<now, grants, codes, refresh, mu, known, uses, redeemer>>

PutRefresh(r) ==
  /\ pc[r] = "put"
  /\ \/ \E t \in Refreshes \ DOMAIN refresh :
          /\ refresh' = Insert(refresh, t,
                          [grant |-> loc[r].grant, client |-> loc[r].client,
                           exp |-> now + RefreshTTL, revoked |-> FALSE])
          /\ Goto(r, "reply")
          /\ loc' = [loc EXCEPT ![r].item = t]
     \/ /\ "put" \in Faults
        /\ UNCHANGED refresh
        /\ Return(r)
  /\ UNCHANGED <<now, grants, codes, mu, known, uses, redeemer>>

\* writeJSON: the client gets the pair, or the connection is gone
Reply(r) ==
  /\ pc[r] = "reply"
  /\ known' \in {known, known \cup {loc[r].item}}
  /\ Return(r)
  /\ UNCHANGED <<now, grants, codes, refresh, mu, uses, redeemer>>

-----------------------------------------------------------------------------
(* The calls of the other components.                                      *)

\* ConfirmPOST of the consent wizard draws a grant id and stores the grant ...
Confirm(r) ==
  /\ pc[r] = "idle"
  /\ \E g \in Grants \ DOMAIN grants :
       /\ \A q \in Reqs : pc[q] = "putgrant" => loc[q].grant # g
       /\ loc' = [loc EXCEPT ![r] = [Blank EXCEPT !.kind = "confirm",
                                                  !.grant = g]]
  /\ Goto(r, "putgrant")
  /\ UNCHANGED <<now, grants, codes, refresh, mu, known, uses, redeemer>>

PutGrant(r) ==
  /\ pc[r] = "putgrant"
  /\ \/ /\ grants' = Insert(grants, loc[r].grant, "live")
        /\ Goto(r, "putcode")
        /\ UNCHANGED loc
     \/ /\ "put" \in Faults
        /\ UNCHANGED grants
        /\ Return(r)
  /\ UNCHANGED <<now, codes, refresh, mu, known, uses, redeemer>>

\* ... then the code, bound to the client, redirect and challenge of the flow
PutAuthCode(r) ==
  /\ pc[r] = "putcode"
  /\ \/ \E c \in Codes \ DOMAIN codes, k \in Clients, u \in Redirects,
           h \in Challenges :
          codes' = Insert(codes, c,
                     [grant |-> loc[r].grant, client |-> k, redirect |-> u,
                      challenge |-> h, exp |-> now + CodeTTL, used |-> FALSE])
     \/ /\ "put" \in Faults
        /\ UNCHANGED codes
  /\ Return(r)
  /\ UNCHANGED <<now, grants, refresh, mu, known, uses, redeemer>>

\* Store.RevokeGrant, and the opposite: UpdateOcisTokens rewrites the whole
\* row without revoked_at.  UpstreamRefresh models when each happens.
RevokeGrant(g) ==
  /\ Readable(g)
  /\ grants' = [grants EXCEPT ![g] = "revoked"]
  /\ UNCHANGED <<now, codes, refresh, mu, pc, loc, known, uses, redeemer>>

RewriteGrant(g) ==
  /\ g \in DOMAIN grants /\ grants[g] = "revoked"
  /\ grants' = [grants EXCEPT ![g] = "live"]
  /\ UNCHANGED <<now, codes, refresh, mu, pc, loc, known, uses, redeemer>>

\* The process stops and starts again on the same database file.
Restart ==
  /\ \E r \in Reqs : pc[r] # "idle"
  /\ mu' = None
  /\ pc' = [r \in Reqs |-> "idle"]
  /\ loc' = [r \in Reqs |-> Blank]
  /\ UNCHANGED <<now, grants, codes, refresh, known, uses, redeemer>>

Tick ==
  /\ now < MaxTime
  /\ now' = now + 1
  /\ UNCHANGED <<grants, codes, refresh, mu, pc, loc, known, uses, redeemer>>

-----------------------------------------------------------------------------
Consume(r) == SelectCode(r) \/ SelectRefresh(r)
Proceed(r) == \/ MarkCode(r) \/ MarkRefresh(r) \/ CheckCode(r)
              \/ ReadGrant(r) \/ PutRefresh(r) \/ Reply(r)
              \/ PutGrant(r) \/ PutAuthCode(r)

Next ==
  \/ \E r \in Reqs : \/ TokenCode(r) \/ TokenRefresh(r) \/ Revoke(r)
                     \/ Confirm(r) \/ Consume(r) \/ Proceed(r)
  \/ \E g \in Grants : RevokeGrant(g) \/ RewriteGrant(g)
  \/ Restart
  \/ Tick

\* A goroutine that can run does run; sync.Mutex hands the lock to the oldest
\* waiter once it has waited 1 ms, so a waiter is not overtaken for ever.
Fairness == \A r \in Reqs : SF_vars(Consume(r)) /\ WF_vars(Proceed(r))

Spec == Init /\ [][Next]_vars /\ Fairness

-----------------------------------------------------------------------------
(* Properties.                                                             *)

\* "They are single-use": a consume returns success at most once for an
\* authorization code or a refresh token, whatever requests race for it and
\* wherever the process restarts (ConsumeAuthCode, ConsumeRefresh).
SingleUse == \A x \in Codes \cup Refreshes : uses[x] <= 1

\* Where the right to obtain the next token of a grant is.
InCode(c, g) == c \in DOMAIN codes /\ codes[c].grant = g /\ ~codes[c].used
InToken(t, g) == t \in DOMAIN refresh /\ refresh[t].grant = g
                   /\ ~refresh[t].revoked
InFlight(r, g) == pc[r] \in {"check", "grant", "put"} /\ loc[r].grant = g

\* Token rotation never forks: a grant has at most one live credential, its
\* unredeemed code, one unrotated refresh token, or one request between the
\* consume and the PutRefresh of issue.  Two would let two parties go on
\* refreshing one consent without noticing each other.
OneLiveCredential ==
  \A g \in Grants :
    /\ \A c, d \in Codes : InCode(c, g) /\ InCode(d, g) => c = d
    /\ \A t, s \in Refreshes : InToken(t, g) /\ InToken(s, g) => t = s
    /\ \A q, r \in Reqs : InFlight(q, g) /\ InFlight(r, g) => q = r
    /\ \A c \in Codes, t \in Refreshes : ~(InCode(c, g) /\ InToken(t, g))
    /\ \A c \in Codes, r \in Reqs : ~(InCode(c, g) /\ InFlight(r, g))
    /\ \A t \in Refreshes, r \in Reqs : ~(InToken(t, g) /\ InFlight(r, g))

\* Every refresh token, however many rotations from the code, belongs to the
\* grant and client of one redeemed code, and that code was redeemed with
\* the client, redirect and PKCE verifier it was bound to (tokenCode, issue).
LineageBound ==
  \A t \in DOMAIN refresh : \E c \in DOMAIN codes :
    LET by == redeemer[refresh[t].grant]
    IN /\ codes[c].grant = refresh[t].grant
       /\ codes[c].client = refresh[t].client /\ by.client = codes[c].client
       /\ by.redirect = codes[c].redirect
       /\ S256(by.verifier) = codes[c].challenge
       /\ uses[c] >= 1

\* A stored grant from which nothing can be issued any more: every code and
\* token of it is consumed or past its expiry, and no request that could still
\* mint is under way.
Spent(g) ==
  /\ g \in DOMAIN grants
  /\ \A c \in DOMAIN codes : codes[c].grant = g =>
       codes[c].used \/ now > codes[c].exp
  /\ \A t \in DOMAIN refresh : refresh[t].grant = g =>
       refresh[t].revoked \/ now > refresh[t].exp
  /\ \A r \in Reqs :
       loc[r].grant = g => \/ pc[r] \in {"idle", "reply"}
                           \/ pc[r] = "mark" /\ loc[r].kind = "revoke"

\* Revocation, expiry, a failed issue and a restart in the middle of one are
\* final: once nothing of a grant is left, nothing of it ever appears again and
\* the client has to go through consent.  The revocation endpoint relies on
\* this when it only consumes the token it is given.
SpentStaysSpent == [][\A g \in Grants : Spent(g) => Spent(g)']_vars

\* Every request that arrived is answered: the mutex is released on every
\* path and no handler waits for another one that waits for it.
Answered == \A r \in Reqs : pc[r] # "idle" ~> pc[r] = "idle"

-----------------------------------------------------------------------------
(* What the token endpoint promises: GrantCredential, one baton per grant. *)

Held(g) == \/ \E c \in Codes : InCode(c, g)
           \/ \E t \in Refreshes : InToken(t, g)
           \/ \E r \in Reqs : InFlight(r, g)
HasRow(g) == \E c \in DOMAIN codes : codes[c].grant = g

Holder(g) ==
  CASE \E c \in Codes : InCode(c, g) ->
         <<"code", CHOOSE c \in Codes : InCode(c, g)>>
    [] \E t \in Refreshes : InToken(t, g) ->
         <<"token", CHOOSE t \in Refreshes : InToken(t, g)>>
    [] \E r \in Reqs : InFlight(r, g) -> <<"taken", None>>
    [] ~Held(g) /\ HasRow(g) -> <<"gone", None>>
    [] OTHER -> <<"unissued", None>>

Abstract == INSTANCE GrantCredential
              WITH holder <- [g \in Grants |-> Holder(g)],
                   minted <- DOMAIN codes \cup DOMAIN refresh

\* The endpoint implements the abstract specification: every step of a
\* handler is a step of the baton or leaves it alone.
RefinesGrantCredential == Abstract!Spec
=============================================================================
