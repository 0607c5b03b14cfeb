# Verification of ocis-mcp-server

TLA+ models of the MCP server for ownCloud Infinite Scale (oCIS): TLC checks
them on small instances, TLAPS proves theorems about them. `PROJECT.json` says
which source lines each definition models, which run checks which property, and
which hazard each property is for.

Run `tlc -workers 2 -config <run>.cfg <module>.tla` for a run (the module of each
is in section 3) and `tlapm <module>Proofs.tla` for the proofs.

## 1. The system

The server answers MCP tool calls by calling oCIS. In `oauth` mode it is also
an OAuth 2.1 authorization server: a user logs in at the oCIS identity provider
(IdP), chooses spaces and levels, and the MCP client gets tokens that name the
resulting *grant*. Each request is a goroutine of `net/http`. They share one
SQLite database (`internal/store`); there is no other shared mutable state.

| component | state it keeps | operations | what makes it correct |
|---|---|---|---|
| Store (`store/store.go`) | tables `oauth_clients`, `sessions`, `grants`, `auth_codes`, `refresh_tokens`, `audit`; mutex `mu` | Put/Get/Delete/Consume/Revoke of rows | codes and refresh tokens are single-use; a revoked grant is not readable |
| Token endpoint (`oauth/server.go`, `pkce.go`) | `auth_codes`, `refresh_tokens` | `/token` (code, refresh), `/revoke`, `/register` | rotation never forks; tokens bound to client, redirect and PKCE; loss is final; every request answered |
| Access tokens (`oauth/jwt.go`) | none (signed value) | sign, parse | a token names its grant |
| Consent wizard (`consent/handler.go`, `session.go`) | one encrypted row of `sessions` per flow, cookie | `/authorize`, `/oauth/callback`, three forms | a grant stays within the login that made it, whatever the tabs do |
| Upstream refresh (`httpapi/server.go` `mcpBearer`, `maybeRefresh`) | oCIS tokens in the `grants` row | per `/mcp` request: read grant, refresh, write back | no refresh token lost to a race, no older token over a newer one, revocation sticks |
| Tool gate (`httpapi` `grantMiddleware`, `grant/catalog.go`, `level.go`, `roles.go`) | none | `Allow`, `VisibleTools` | a call is allowed only within the grant; what is listed can be called |
| Login and discovery (`oidc/`) | none | `Discover`, `AccessibleSpaces`, `IsInstanceAdmin` | ceilings are the user's roles |
| oCIS client (`client/`) | none shared | `Do` with retry on 429, JSON and WebDAV calls | bounded retries, errors reported |
| Tools and workflows (`tools/`) | none | about 80 handlers, five of several steps | partial failure reported, listings complete |
| Configuration (`config/`) | `Config`, immutable after `Load` | load, validate, select mode | the mode served is the one validated |
| Entry point, middleware, encryption | none, or in the database under a derived key | choose the transport, check the bearer, seal and open | what one start wrote another reads only under the same key |
| Theme | none | | |

Interactions: the wizard's last form writes a grant, then a code (two
statements); the token endpoint consumes the code and puts refresh tokens; its
access tokens let a request into `/mcp`, where the grant row is read,
refreshed through the IdP and written back; the tool gate decides on that copy;
a tool calls oCIS with the copy's access token. A revocation touches the grant
row (`RevokeGrant`) or a refresh token (`/revoke`).

What is hard here: only the two `Consume*` functions take the mutex, everything
else is several statements without a transaction (`ConfirmPOST`, `issue`,
`UpdateOcisTokens`, the read-modify-write of the wizard's session row); several
errors are discarded; an external provider may rotate tokens. The hazards are
listed with their lines in `PROJECT.json`.

## 2. Modules

| module | models | proofs |
|---|---|---|
| `GrantCredential` | abstract: one baton per grant | |
| `OAuthTokens`, `MCOAuthTokens` | `/token`, `/revoke`, tables behind them | `OAuthTokensProofs` |
| `UpstreamRefresh`, `MCUpstreamRefresh` | `mcpBearer`, `maybeRefresh`, `UpdateOcisTokens` | `UpstreamRefreshProofs` |
| `ConsentWizard`, `MCConsentWizard` | `/authorize`, callback and forms, sessions table | `ConsentWizardProofs` |
| `ConsentAsShown`, `MCConsentAsShown` | the wizard and the confirmation page a tab displays | |
| `ServerConfig`, `MCServerConfig` | `config.Load` to the credential of a request, over restarts | `ServerConfigProofs` |
| `ToolCatalog` | tools registered in `internal/tools`, `ToolNeed` | |
| `ToolGate`, `MCToolGate` | `grantMiddleware`, `Allow`, `VisibleTools` | `ToolGateProofs` |
| `OcisCall` | abstract: one request to oCIS, acted on at most once | |
| `RateLimitRetry`, `MCRateLimitRetry` | `Client.Do`, `parseRetryAfter` | `RateLimitRetryProofs` |
| `ToolRequests`, `MCToolRequests` | the handlers of tools and resources, `libregraph.go`, `webdav.go` | `ToolsProofs` |
| `WorkflowCalls` | the five composite tools of `workflows.go` | `WorkflowCallsProofs` |
| `ListPages` | `ValidateLimit`, `ListJSON`, the paged tools | `ToolsProofs` |
| `DavAnswers` | 207 answers: `Propfind`, `SearchReport` and their readers | `ToolsProofs` |
| `FileContents` | `Download`, `download_file`, `find_and_download` | `ToolsProofs` |
| `SpaceCeilings` | `AccessibleSpaces`, roles, the levels form | `ToolsProofs` |
| `Answers`, `MCAnswers` | the four above as one state machine | `ToolsProofs` |

How they fit. `ServerConfig` says when a request reaches `/mcp` at all and takes
the wizard and the token endpoint as one step, `Login`; `ConsentWizard` and
`OAuthTokens` are that step in detail; `UpstreamRefresh` is what happens to the
grant's oCIS token before a call, `ToolGate` decides on the call, `ToolRequests`
and `WorkflowCalls` make its requests, and each request is an `OcisCall`.
`ToolRequests` uses the actions of `OcisCall` through `INSTANCE`, and
`RateLimitRetry` is shown to implement it, so that a handler is checked against
what `Client.Do` really keeps and not against a request that either works or
does nothing. `ToolRequests` and `ToolGate` share `ToolCatalog`: the annotations
that the gate's properties read are the ones the handlers are held to.

A step of a model is one database statement or one call to the outside, with
the local computation up to the next one. A request is at a *program point*
(`pc`) and holds its local variables (`loc`). Where a handler holds `Store.mu`
over two statements the mutex is a variable; a request that waits for it stays
at its point. `Restart` (killing the process between any two steps) drops every
request and keeps the tables. Time is a counter that a `Tick` advances; all
comparisons with it are those of the code, the second of the expiry included.
Raw codes and tokens stand for their hashes; a fresh one is a value in no table,
which for 256 random bits is the truth up to a negligible chance.

The definitions marked `mutation` are plausible bugs: each is a variant of
the definition that follows it, and swapping it in makes a run report the
property named in `PROJECT.json` as violated. Nothing else uses them.

### OAuthTokens

`codes` and `refresh` are the tables as functions from key to row, `grants` says
which grant ids have a row and whether it is revoked. `TokenCode`,
`TokenRefresh`, `Revoke` start a request; `SelectCode`/`SelectRefresh` lock the
mutex and do the SELECT and the checks of a consume; `MarkCode`/`MarkRefresh`
do the UPDATE and unlock; `CheckCode` compares client, redirect and PKCE
verifier *after* the consume, as `tokenCode` does; `ReadGrant`, `PutRefresh`,
`Reply` are `issue`. `Reply` may fail to reach the client (`known` does not
grow). `Confirm`, `PutGrant`, `PutAuthCode` are the part of `ConfirmPOST` that
feeds the endpoint; `RevokeGrant`, `RewriteGrant` are the effect of the other
components on a grant row. `Faults` names the database calls that may fail.
`uses` and `redeemer` are history variables: no guard reads them.
`MintingRoom` and `MaxTime` are bounds of the model and not of the code.

### UpstreamRefresh

One grant row, any number of requests. `GetGrant` copies the row, `Decide` is
the expiry test, `Exchange` the call to the IdP, `Reread`/`Rewrite` the two
statements of `UpdateOcisTokens`, `Serve` the tool call with the local copy. The
provider is external: it accepts the refresh tokens in `idp`, and when
`Rotating` replaces the one it is given. Access and refresh tokens are serial
numbers, so "older" means "smaller". `Rewrite` makes the row live whatever it
was, because `INSERT OR REPLACE` without `revoked_at` resets that column.
`MaxMinted` and `MaxTime` are bounds.

### ConsentWizard

`sessions` maps a session id to the decrypted flow and its expiry. Every handler
is a `Load` (`GetSession`) followed by one step that saves the edited copy and
renews the expiry; nothing prevents two tabs from interleaving these. An
expired row is deleted in a step of its own (`Purge`), as in `GetSession`.
`ConfirmPOST`, `PutAuthCode`, `DeleteSession` are the three writes of the last
form. What a login returns (spaces with their ceilings, whether the account is an
instance administrator) is an input from `Accounts`. An account stands for user,
tokens and space list together: `Callback` replaces all of them at once.
A login of a session that had logged in before marks the flow `again`, a history
field.
The parts of a flow that are fixed at `/authorize` (client, redirect, challenge,
CSRF value) are left out, and a wrong CSRF value or an unusable form is
`Abandon`.

### ConsentAsShown

Adds to the wizard the page each tab displays: `ConfirmGET` renders a summary of
the flow it loaded, and `ConfirmPOST` is sent from a displayed page but grants
the flow it loads itself. It exists for the finding `shown_two_tabs`.

### ServerConfig

`env` is the environment of the process, a record of the settings each in the
forms the code tells apart (missing, malformed, `http` and `https`, loopback or
not). `Load` refuses it or fixes `mode`; `Serve` starts the transport; `Stop` ends
the process and another environment over the same database follows. `validate`
takes the mode without regard to case and `ListenAndServe` compares it exactly,
and the model keeps that difference. `sealed` is the key a grant's columns are
sealed under, `access` the tokens signed so far with their key and issuer;
`Request` computes which credential oCIS would see, by `mcpBearer`, by
`RequireBearer` or by neither. `ConsumeRefresh`, `GetGrant`, `PutRefresh` are the
statements of `tokenRefresh`; each of the last two may fail and `Stop` may fall
between any two. `turn` is where the refresh of a grant stands or how it ended.
`born` is a history variable.

### ToolCatalog and ToolGate

`ToolCatalog` holds the two tables that the code keeps in step by hand: what each
`register*` function of `internal/tools` registers (name, the field of its input
that names a space, the hint of its annotations), and what `ToolNeed` asks for a
name. Names are without their `ocis_` prefix. `ToolGate` is one client session
under one grant: `ToolsList` is the filtered list, `ToolsCall` a call that passed
`Allow`; a refused call changes nothing. `listed` and `call` hold the last of
each, which is what the properties compare: the list against the calls, the calls
against the annotations and the grant. A call names a space in its input, which is
what `Allow` looks at, and its requests go to one: `Reached` is the same space
where the handler builds its paths from the input, and any space for the three
tools of `files.go` that address a resource by its id. The grant is any the wizard
can store, the empty one and levels of none included. A request in `app-token` or
`oidc` mode has no grant and passes the middleware untouched; that path is left
out. An input that names a space in a field its schema does not have is refused by
the SDK before the handler and is not an input of the model.

### OcisCall, RateLimitRetry

`Attempt` clones the request and hands it to `net/http`, `Handle` is oCIS,
`Receive` the loop's test of the status, `Wake` the end of `time.Sleep`. A request
whose caller gave up (`GiveUp`: timeout, lost connection, cancellation) may stay
on the wire and be acted on afterwards. A body is `"replayable"` when the request
has `GetBody`, and `"oneshot"` otherwise. The abstract `OcisCall` keeps two facts a
caller may use: after "ok" oCIS has acted, after "limited" it has not.

### ToolRequests

One row per tool and resource: the inputs it requires, whether it wants
`confirm`, and its requests in order, each with the function of
`internal/client` it goes through and what oCIS does for it (`"read"`, `"set"`,
`"relate"`, `"create"`, `"remove"`). A behaviour is one tool call by a client
that repeats a failed call if the annotations say that it may. `intact` records
whether every answer came whole, `told` what the client was told; both are
compared with `applied`, what oCIS did. Which answers a function needs to read
(`Readers`) is the code's; which requests oCIS answers with content (`Silent`) is
external. `PostJSONRaw` succeeds without reading, `PostJSON` does not.

### WorkflowCalls

Any number of composite calls at once, at one path of one space. `done[c]` is what
oCIS did for call `c`, `known[c]` what its requests reported, `got[c]` the item it
looked up, `told[c]` the reply. A failed request may have had its effect.
`wrote[c]` is the item the call's own PUT wrote (a history variable). Other users
write and delete the item between any two requests; an overwrite keeps the item.
`strict` is whether oCIS insists on a type of recipient, which
`create_project_space` does not send and `upload_and_share` does.

### Answers and its four modules

A behaviour of `Answers` takes one answer of oCIS through the code: `asked` is the
question and what oCIS holds, `reply` what was made of it so far. Where the code or
the client loops, each turn is a step: `BeginReading` and `ReadPage` a client that
asks again from `next_offset`, `TakeDrive` the loop of `AccessibleSpaces`. `ListDav`
and `ShowFile` are one request each; `PostLevels` is the levels form.

`ListPages`: a page is the set of places of its entries; the "spaces" kind is
filtered by the grant, and `lost` remembers that a full page lost an entry to that.
`DavAnswers`: a 207 answer with the properties of each resource grouped by status,
groups in any of three arrangements; an entry is the set of properties a reader
kept. `FileContents`: two cuts of a file at byte positions, with the characters that
straddle them. `SpaceCeilings`: a drive with its roles and permissions to a space
with its ceiling, the list kept in order as it grows (the code sorts it once at the
end with a stable sort, which gives the same list), and the levels the form stores
for the spaces that were ticked. The names of the state machine end in `Answers`
because `ToolsProofs` extends it together with `ToolRequests`.

## 3. Runs

| run | module | instance | shows |
|---|---|---|---|
| `tokens_rotation` | `MCOAuthTokens` | 3 requests, 1 grant, 1 code, 3 refresh tokens, SELECT and INSERT may fail, restarts, fairness | `TypeOK`, `SingleUse`, `OneLiveCredential`, that `OAuthTokens` implements `GrantCredential`, and `Answered` (liveness) |
| `tokens_lineage` | `MCOAuthTokens` | 2 requests, 2 grants, 2 codes, 2 clients, 2 verifiers | `LineageBound`, `SpentStaysSpent` |
| `upstream_faults` | `MCUpstreamRefresh` | 3 requests, 4 tokens, rotating IdP, every fault, skew between the two lifetimes | `TypeOK`, `RefreshTokenKept`, `StoredTokensAdvance`, `ClosedStaysClosed` |
| `upstream_revoke` | `MCUpstreamRefresh` | 1 request and a revocation | **violates** `RevokedStaysRevoked` |
| `consent_tabs` | `MCConsentWizard` | 2 requests on one session, 2 accounts, 1 space, relogin, expiry, every write may fail, restarts | `TypeOK`, `GrantWithinLogin`, `CodeNamesGrant`, `AdminOnlyIfAdmin`, `EndedStaysEnded` |
| `shown_two_tabs` | `MCConsentAsShown` | 2 tabs, 2 spaces | **violates** `GrantedAsShown` |
| `config` | `MCServerConfig` | every combination of 13 settings at the first start, then 2 more starts with other keys, URLs, modes and secrets; 2 grants | `CallersAreKnown`, `AcceptedIsReadable`, `RefreshNotWasted` |
| `gate_calls` | `MCToolGate` | every grant over 2 spaces, all 80 tools, with and without education | `NothingHidden`, `ListedIsCallable`, `ChangesNeedWrite`, `DirectoryNeedsInstanceAdmin`, `InsideConsent` |
| `retry` | `MCRateLimitRetry` | one call of each body, five forms of `Retry-After`, lost answers, cancellation, fairness | `TypeOK`, that `Do` implements `OcisCall` (`KeepsPromise`), `HonoursRetryAfter`, `Returns` (liveness) |
| `requests` | `MCToolRequests` | every tool and resource, every set of blank inputs, 3 tries | `ReadOnlyChangesNothing`, `ConfirmedBeforeRemoved`, `RepeatIsHarmless`, `ReplyIsTrue`, `IDsValidated` |
| `workflows` | `WorkflowCalls` | any 3 of 7 calls at once, 3 items, every fault, other users | `TypeOK`, `RepliesAreTrue`, `SharedIsUploaded` |
| `answers` | `MCAnswers` | listings of up to 7 entries read from four offsets with five limits, answers of up to 2 resources, files of up to 6 bytes, up to 3 drives | `ListingIsRead`, `AnswerIsShown`, `CutIsTold`, `OfferedIsOwn` |

### Why the bounds suffice

The races of the endpoint, the refresh and the wizard are between two requests
(select/select, consume/issue, exchange/rewrite, load/save); a third shows that a
loser cannot disturb a later winner. Three refresh tokens allow the first issue
and two rotations, so a token that was rotated away can be replayed against its
successor's successor. Two grants of two clients are what `LineageBound` needs
to be wrong; two clock values with a life of zero or one show both sides of
`now > exp`. Two accounts, one of which is an administrator with the lower
ceiling, are what `GrantWithinLogin` and `AdminOnlyIfAdmin` need to be wrong. In
the gate a call names one space and the grant has another, or has it at a lower
level: two spaces. `Client.Do` shares nothing between calls but the clock, so one
call is enough. Three tries are two repetitions, the second of which meets an
oCIS that may already have acted twice. Of the composite calls two uploads and a
creation can overlap. Three starts are before, during and after a change of
configuration. Seven entries are three pages of two or two of the largest page
with a remainder; the limits and offsets lie on both sides of every comparison;
`MaxText` and `MaxBody` are two and four bytes, so that both cuts, an exact fit
and a character across either cut occur. Symmetry is used in safety runs only; no
action orders or names the permuted values.

The bounds are `MaxTime`, `MaxMinted`, `MaxGrants`, `MaxStarts`, `MaxTries`,
`MaxRunning`, `MaxItems`, `MaxSize` and the operator `MintingRoom` of
`OAuthTokens`. The configurations that end with a bound, a served call or one
answer set `CHECK_DEADLOCK FALSE`; in the others a deadlock is an error.

### Fairness

`OAuthTokens`: a goroutine that can take its next step eventually does
(`WF(Proceed)`). A consume waits for `Store.mu` and is enabled only between two
holders; `sync.Mutex` switches to FIFO hand-off when a waiter has waited 1 ms, so
it gets the lock, which is `SF(Consume)`. Nothing is assumed about arrivals,
restarts or time.

`RateLimitRetry`: a goroutine proceeds (`WF(Proceed)`) and time passes
(`WF(Tick)`). `Proceed` includes `GiveUp`: oCIS is not assumed to answer, the
client's `HTTPTimeout` ends the wait. It is 30 s by default; configured as 0 there
is no timeout and `Returns` would not hold.

### What the violations mean

* `upstream_revoke`: `UpdateOcisTokens` reads and rewrites the grant without a
  transaction; a `RevokeGrant` in between is undone (store.go:248-255, 212),
  against "we can revoke without waiting for the JWT to expire" (level.go:69).
* `shown_two_tabs`: the confirmation page says what the client "will be allowed
  to" do (html.go:130), but `ConfirmPOST` grants the flow stored when the button
  is pressed (handler.go:300). A second tab of the same browser that edited the
  levels in between changes what is granted.

### Where a property stops

Some passing properties leave a case out, because the code does otherwise in it or
because nothing is promised there:

| property | case left out | in the code |
|---|---|---|
| `SingleUse`, `OneLiveCredential` | the UPDATE of a consume fails (`"mark"`, left out of `Faults`) | its error is discarded and success returned (store.go:284, 308) |
| `RefinesGrantCredential`, `LineageBound` | the same | |
| `ClosedStaysClosed` | a request that read the grant before it was closed | such a request may write the row back live; that is `RevokedStaysRevoked` |
| `EndedStaysEnded` | a request that holds a copy of the flow | `saveFlow` stores the session again, also one that another tab had granted (handler.go:221, 275) |
| `AdminOnlyIfAdmin` | the session logged in twice | `Callback` keeps `WantInstanceAdm` (handler.go:161-168); oCIS still refuses |
| `ListedIsCallable` | `list_shared_by_me`, `list_received_shares` | `ToolNeed` asks for a space their inputs do not have (catalog.go:47): listed, always refused |
| `InsideConsent` | the space reached by `get_file_versions`, `restore_file_version`, `get_resource_by_id` | the first two address `file_id` alone (files.go:415, 445), the third ignores `space_id` when the id is a full one (files.go:466); only the space named is in the consent |
| `InsideConsent`, `ChangesNeedWrite` | the space of a tool not tied to one | `accept_share` and `reject_share` have a `space_id` that `Allow` does not look at (shares.go:336, 356), the other such tools have none that they need |
| `CallersAreKnown` | the mode is spelt `OAuth` | `validate` uses `EqualFold` (config.go:140), `ListenAndServe` `==`: served without a credential if no secret is set |
| `RefreshNotWasted` | the grant key changed; a stop or a failing statement inside `tokenRefresh` | the old token is spent first (server.go:227), before `GetGrant` cannot open the row and before `PutRefresh` stores the next |
| `SharedIsUploaded` | the uploaded item was deleted by another user | `upload_and_share` looks the item up by path: what somebody wrote there since is shared and reported as "file uploaded and shared" (workflows.go:133) |
| `ReplyIsTrue` | PROPPATCH | `Proppatch` takes any 207 for success (webdav.go:371): a tag may be reported as set when it was refused |
| `IDsValidated` | `version_id`; `item_id` of four share tools | not checked for blank |
| `ListingIsRead` | spaces, after a full page of oCIS that lost an entry to the grant's filter | `HasMore` is computed after the filter (spaces.go:286) |
| `AnswerIsShown` | score, space and highlights of a search result | `toSearchResults` lets the last propstat win (search.go:94) |
| `CutIsTold` | text cut inside a character | `find_and_download` replaces each bad byte and sets its flag. `download_file` takes it for binary: text over 1 MiB cut there becomes a binary file of 1048576 bytes, with no flag and no sign of the rest (files.go:335) |
| `OfferedIsOwn` | oCIS lists other members' permissions | `AccessibleSpaces` reads roles and not their holders (spaces.go:59); oCIS still refuses |
| `RepliesAreTrue` | the missing parts of an overview | `get_space_overview` forgives two failed requests (workflows.go:305) |

Three more that no property is about: `Do` says "after 3 retries" when it made three
attempts, that is two retries; the listings of shares never read their limit; and
`create_project_space` sends `{"objectId": m}` (workflows.go:197) where oCIS
8.1.0-rc.1 requires a `@libre.graph.recipient.type`, although CHANGELOG.md:42-48
says of the tools that "omitted the required `@libre.graph.recipient.type`", this one
among them, that "All four request shapes now match oCIS 8.1.0-rc.1's validation".
In `WorkflowCalls` that is `Typed` and `strict`: a strict oCIS refuses each of its
invitations, and `RepliesAreTrue` has the reply say that inviting failed.

## 4. Proofs

`OAuthTokensProofs` proves, for every finite or infinite set of requests,
grants, codes, tokens, clients, redirects and verifiers and every value of the
lifetimes:

* `TypeCorrect`: `Spec => []TypeOK`;
* `SpentIsFinal`: `Spec => SpentStaysSpent`, whatever fails;
* `RotationNeverForks`: `Spec => []OneLiveCredential`, if `"mark" \notin Faults`;
* `CredentialsAreSingleUse`: `Spec => []SingleUse`, under the same assumption;
* `TokensKeepTheirLineage`: `Spec => []LineageBound`, under the same assumption;
* `EndpointImplementsBaton`: `Spec => RefinesGrantCredential`, under the same
  assumption.

The assumptions are `ConstantsAssumption` of `OAuthTokens` (codes and refresh
tokens are distinct, `None` is neither), which TLC evaluates in each run.
`"mark" \notin Faults` is necessary: with `"mark"` in `Faults` TLC finds `SingleUse`
violated.

Neither `OneLiveCredential` nor `SingleUse` is inductive. The inductive invariant
for them is `TypeOK` and

* `MutexOK`: a request is at `mark` exactly if it holds the mutex. So nobody else
  is between the SELECT and the UPDATE of a consume;
* `MarkOK`: the row such a request found is still unused (not revoked). It was
  checked a step earlier, and only the holder of the mutex can change it;
* `UsesOK`: a credential that was never stored, or is stored and unmarked, has
  been accepted no times; a marked one at most once. This is what turns the
  flag in the row into a count of acceptances;
* `GrantsOK`, `ConfirmOK`: a grant whose `ConfirmPOST` is under way has no code
  yet, and no two requests confirm the same one. This makes the code the first
  credential of its grant;
* `OneLiveCredential` itself: the unredeemed code, the unrevoked token and the
  request between consume and `PutRefresh` exclude each other.

`LineageBound` follows a token back to the request that redeemed its code, over
any number of rotations, so the invariant has to say the same of what the requests
carry on the way. `LineageInv` adds to the above

* `OneCode`: a grant has one code;
* `Bound`: the grant and client of every refresh token are those of a code that was
  redeemed with the client, redirect and verifier it was bound to;
* `Carries`: a request that consumed a credential holds the client of its row,
  after `CheckCode` a `Bound` one.

`redeemer` is written again when a grant's code is redeemed; from `UsesOK` that
happens once, which is why this invariant needs the other.

The refinement maps a grant to where its one live credential is (`Holder`: the
unredeemed code, the unrevoked token, the request in between, gone, unissued).
`HoldersRight` derives from `OneLiveCredential` that `Holder` has that value
whichever witness a CHOOSE takes; then each action either moves the baton of one
grant as `GrantCredential` allows, or leaves all of them (`SameBaton`). The attempt
showed an earlier `Holder` to be wrong: a guard of its CASE overlapped with others
(a revoked row next to a live credential), so that its value was whatever branch an
evaluator took first. The guards now exclude each other (`Held`, `HasRow`).

The proof has one lemma per action. `RequestStep`, `TypeReturn` and `QuietStep`
cover the steps that only move a request or touch nothing of a conjunct, so each
action's lemma treats the parts it can disturb. `PTL` combines the initial
condition and the step in the last step of each theorem.

`ToolGateProofs` proves for any set of spaces, finite or not, and any grant over
it (`GateAssumption`: the absent argument is no space; TLC evaluates it in the
gate's runs):

* `GateTypeCorrect`: `Spec => []TypeOK`;
* `ConsentBacksEveryCall`, `ChangesAreConsented`, `DirectoryIsSeparate`,
  `ListIsComplete`: `[]InsideConsent`, `[]ChangesNeedWrite`,
  `[]DirectoryNeedsInstanceAdmin`, `[]NothingHidden`;
* `ListIsHonest`: `[]ListedIsCallable`;
* `AllowIsMonotone`: more spaces, higher levels or the administration box never
  make `Allow` refuse what it admitted.

The invariant behind them is `CallAllowed`, that the last call passed `Allow`
under the grant the session still has, with `TypeOK` for the levels; the rest is
about the tables. `DirectoryUnclassified` and `ChangingNotWeak` go through the
registrations file by file, `DefaultNeed`, `NeedOfChanging`, `NeedOfAnyone`
through the classes of the catalog, and `FieldsFit` compares the two: a tool whose
need is of a space has an input that names one, but for the two share listings. A
tool registered or classified differently makes one of these leaves fail.

`UpstreamRefreshProofs`, for any number of requests, any skew, lifetimes and
faults:

* `RefreshTypeCorrect`: `Spec => []TypeOK`;
* `ClosedGrantsStayClosed`: `Spec => ClosedStaysClosed`;
* `RefreshTokensAreKept`, `StoredTokensAreNeverOlder`: `[]RefreshTokenKept` and
  `StoredTokensAdvance`, under the assumption `Rotating`.

`Rotating` is needed: with a provider that keeps the refresh token two requests
may exchange it at once, and the later write may be the older answer (harmless
for the refresh token, which is the same). The inductive invariant says that the
provider accepts one token at most and none is newer than `minted` (`Issued`);
that a request between the exchange and its write is alone in having it
(`Alone`): neither the row nor another request's copy has it, so nobody can
exchange again; and that the token is in the row or on its way there (`Kept`),
unless a fault lost it or the grant was closed meanwhile (`Dead`). This is why no
lock is needed between the read, the exchange and the write.

`ConsentWizardProofs`, for any tabs, sessions, spaces, accounts and faults:

* `WizardTypeCorrect`, `GrantsFitTheLogin`, `AdministrationIsOwn`,
  `CodesNameGrants`: `[]TypeOK`, `[]GrantWithinLogin`, `[]AdminOnlyIfAdmin`,
  `[]CodeNamesGrant`;
* `EndedSessionsStayEnded`: `Spec => EndedStaysEnded`. It does not say that a
  granted session is gone for good: a form loaded before saves it again. It says
  that nothing else does, and that a cookie alone never does.

A grant is copied from a flow, a flow from a row, a row from a flow that another
tab edited. The invariant `Coherent` says of every copy, stored or held by a
request, that its levels fit the account in the same copy and that its wish for
administration belongs to it unless the session logged in again. A save over
another tab's edit replaces one coherent copy by another.

`WorkflowCallsProofs`, for any calls, faults and other users:

* `WorkflowTypeCorrect`, `RepliesHold`, `SharesAreUploads`: `[]TypeOK`,
  `[]RepliesAreTrue`, `[]SharedIsUploaded`.

No step relates a reply to what oCIS did. `Truthful` links them through the
handler's own view (`known` is contained in `done`, `told` in `known`), `Complete`
says that a reply is the last thing a call does, `Uploaded` that an
upload past its first request wrote an item and that, where it looked up another
(`Own`), its own is not at the path and never comes back (`NeverBack`).

`ServerConfigProofs`, for any environments, grants and number of starts:

* `NobodyAnonymous`, `AcceptedAreReadable`, `RefreshTokensNotWasted`:
  `[]CallersAreKnown`, `[]AcceptedIsReadable`, `RefreshNotWasted`.

`Running` says that what runs was validated and that `mode` is the one `Load`
selected, which ties the check in `config` to the choice in `httpapi`;
`SealedAsBorn` that a grant whose refresh token is at the client or between the
statements of a refresh is sealed under the key it was given with;
`SignedAsSealed` that every access token was signed under the key its grant is
sealed with. `ConfigAssumption`: a grant is none of the names of the static
credentials.

`RateLimitRetryProofs`, for any calls, bodies, values of `Retry-After`, losses and
bound on time:

* `RetryTypeCorrect`: `Spec => []TypeOK`;
* `RetryKeepsPromise`: `Spec => KeepsPromise`, that is, `Do` implements `OcisCall`;
* `RetryNotTooEarly`: `Spec => HonoursRetryAfter`.

The invariant is per call. `Untried`: between attempts nothing is on the wire and
oCIS has not acted; `Tried`: an answer that was received says what oCIS did;
`OnWire`: what is on the wire is the caller's body and the first oCIS would act on,
and outlives its call only if the caller gave up. The three together say that a
retry follows only a refusal. `Patient` carries the time oCIS asked for from the
answer through the pause to the next attempt.

`ToolsProofs`, first half, for any choice of tools, blank inputs and number of tries:

* `ReadOnlyReads`, `RemovalIsConfirmed`, `RepeatingIsHarmless`,
  `IdentifiersAreChecked`, `RepliesAreTrue`: `[]ReadOnlyChangesNothing`,
  `[]ConfirmedBeforeRemoved`, `[]RepeatIsHarmless`, `[]IDsValidated`,
  `[]ReplyIsTrue`.

Two arguments meet. The first goes through the tables: `HintOfRegistered` gives the
annotation of each registered name, and `HandlersSound` goes through the handlers
file by file and shows that each `Fits` its annotation: what removes is confirmed
and destructive, what creates is not annotated as repeatable, what changes anything
is not read-only, no input is used unchecked but two, no function waits for content
where none is sent, and a handler with two requests only reads (`Short`). A handler
or annotation changed in one table and not in the other makes a leaf of these fail.
The second follows a call: the inductive invariant says where it stands (`Placed`),
that whoever got past the checks got past all (`Admitted`), that only what may be
repeated is at a later try (`Repeated`), and `ReplyIsTrue`. `RequestsAssumption`
(the handlers are those of the registered tools) is evaluated by TLC.

Second half, for answers of any length (listings, resources, drives), files of any
size, and any limits that satisfy the assumptions of the modules:

* `ListingsAreRead`, `AnswersAreShown`, `CutsAreTold`, `LevelsAreOwn`:
  `[]ListingIsRead`, `[]AnswerIsShown`, `[]CutIsTold`, `[]OfferedIsOwn`.

Because a loop is a step per turn, the induction over a listing or the drives of an
answer is the induction over a behaviour, and what one turn does is first-order.
`WhichAnswer` gives each question its own actions; then

* `ListingIsRead` needs to know where the reading stands (`Progress`): up to the
  offset everything is seen; while `has_more` is true each call took the client one
  entry further and not beyond the end. The second is where `HasMore` can
  be wrong: `FetchedInterval` says how many entries oCIS returns, and a page as long
  as the limit that lost nothing is the whole of what was fetched
  (`FS_Subset`), so a shorter one has reached the end.
* `OfferedIsOwn` needs that each listed space still is what its drive made it
  (`IsListing`) with places no later than the drives taken. `Place` counts the
  spaces a new one goes after: they are downward closed in an ordered list
  (`BeforeIsClosed`), so they are the first so many of it (`DownwardClosed`), and
  the list stays in order and loses none (`InsertedInOrder`, `InsertedElements`).
  `CeilingIsOwn` and `ChosenIsOffered` are the tables of roles and levels.
* `AnswerIsShown` and `CutIsTold` follow from one step: `ValuesAreGiven` goes through
  the arrangements of the groups, `CutContents` through both lengths.

The attempt changed the model: the reading had been a recursive operator and the
list of spaces a sort, of which nothing could be proved.

TLC checked each of the inductive invariants in the configuration of its run.

Model-checked only: the liveness properties `Answered` and `Returns`, since the
provers do neither fairness nor ENABLED. Every other property of a passing run is
stated by a theorem. The type invariant of `ToolGate` is proved and not in a run.

## 5. Assumptions and what is not modelled

External and assumed: oCIS answers 429 without acting; the properties of
`RateLimitRetry` are about requests that change something, which `net/http` does
not send again by itself once they were written, and oCIS does not answer them
with a redirect. A search takes a negative offset as none. A `Retry-After` in
seconds stays below 2^63 ns. AES-GCM, HKDF, HMAC and the signature of access
tokens are perfect: what was sealed under one key does not open under another.
The MCP SDK refuses inputs a tool's schema does not have, and gives the
middleware the context of the request. The steps of the IdP are those in
`UpstreamRefresh`: it issues a token, or fails, or its answer is lost.

Not modelled:

* `oauth_clients` and `audit`: rows that are inserted once and read, or only
  written. `/register`, `ValidRedirectURI` and the metadata work on one request.
* The expiry of an access token: it ends a client's use of a grant and changes no
  state.
* Prompts (fixed texts), pages and their layout, theme (colours read once), logging,
  routing, headers, CORS, TLS switches, the texts of errors, the fields of
  inputs and outputs that no property is about.
* `Discover` and `IsInstanceAdmin` are one request each; what a login returns is an
  input of the wizard.
* `space_image` and `space_readme` without content, and the decoding of
  downloaded content, have no property.
* Calls without a grant (`app-token`, `oidc`) pass the tool gate untouched; which
  credential they run with is in `ServerConfig`.
