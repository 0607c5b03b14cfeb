---------------------------- MODULE ServerConfig ----------------------------
(***************************************************************************)
(* From the environment to a served request.                               *)
(*                                                                         *)
(* config.Load reads the environment and refuses it or fixes the           *)
(* authentication mode; main starts the transport; the HTTP transport      *)
(* guards /mcp with the user's access token (mode "oauth") or with the     *)
(* shared secret (every other mode); the client picks the credential oCIS  *)
(* sees.  The process may be stopped and started again with another        *)
(* environment over the same database, whose token columns are sealed      *)
(* under a key derived from OCIS_MCP_GRANT_KEY: two packages decide what   *)
(* a mode means, and what one process wrote another must read.             *)
(*                                                                         *)
(* Login stands for the whole consent wizard and the first token exchange  *)
(* (modules ConsentWizard and OAuthTokens).                                *)
(***************************************************************************)
EXTENDS Naturals

CONSTANTS Grants,        \* grants the users may give
          Environments,  \* the environments of the first start
          Later,         \* ... and of the later ones
          MaxStarts      \* bound: starts of the process

ASSUME ConfigAssumption ==
    /\ MaxStarts \in Nat \ {0}
    /\ Grants \cap {"refused", "anonymous", "app-token", "oidc"} = {}

VARIABLES env,      \* the environment of the process
          mode,     \* cfg.AuthMode after Load
          pc,       \* "down", "refused", "loaded" or "up"
          starts,   \* how often the process was started
          sealed,   \* the key each grant's token column is sealed under
          access,   \* access tokens signed so far
          refresh,  \* grants with an outstanding refresh token
          turn,     \* how far the refresh of each grant is, or how it ended
          born,     \* OCIS_MCP_GRANT_KEY when the grant was given (history)
          reply     \* the last request on /mcp and the credential it ran with
vars == <<env, mode, pc, starts, sealed, access, refresh, turn, born, reply>>

NoKey == <<>>

(* What a request carries: an access token, the shared secret, something    *)
(* else, or nothing.                                                        *)
Bearer(kind) == [grant |-> kind, key |-> NoKey, issuer |-> ""]
None == Bearer("none")
Secret == Bearer("secret")
Quiet == [bearer |-> None, upstream |-> "refused"]
-----------------------------------------------------------------------------
(* config.Load and validate *)

HasAppToken(e) == e.user /\ e.value
IsOAuth(m) == m \in {"oauth", "OAuth"}                     \* EqualFold
Defaulted(t) == IF t = "" THEN "stdio" ELSE t
IsLoopback(e) == e.addr \in {"", "loopback"}               \* "" means 127.0.0.1

UrlValid(e) == \/ e.url = "https"
               \/ e.url = "http" /\ e.insecure

ParsesAsKey(k) == k \notin {"", "malformed"}

OAuthComplete(e) == /\ Defaulted(e.transport) = "http"
                    /\ e.public \notin {"", "malformed"}
                    /\ e.clientID
                    /\ ParsesAsKey(e.key)

NeverGuarded(e) == TRUE                                    \* mutation
Guarded(e) == \/ Defaulted(e.transport) = "stdio"
              \/ IsOAuth(e.mode)
              \/ e.secret
              \/ IsLoopback(e)

Unambiguous(e) == ~(HasAppToken(e) /\ e.oidc /\ e.mode = "")

Valid(e) == /\ e.timeout # "malformed"
            /\ UrlValid(e)
            /\ Defaulted(e.transport) \in {"stdio", "http"}
            /\ IsOAuth(e.mode) => OAuthComplete(e)
            /\ Guarded(e)
            /\ Unambiguous(e)

SelectAuthMode(e) == IF e.mode # "" THEN e.mode
                     ELSE IF HasAppToken(e) THEN "app-token"
                     ELSE IF e.oidc THEN "oidc" ELSE "none"
-----------------------------------------------------------------------------
(* The keys and the tokens *)

KeyPerURL(e) == <<e.key, e.public>>                        \* mutation
DerivedKey(e) == <<"HKDF", e.key>>                         \* secretbox.Derive

SignedFor(g) == [grant |-> g, key |-> DerivedKey(env), issuer |-> env.public]
Accepts(t) == t.key = DerivedKey(env) /\ t.issuer = env.public
Opens(g) == sealed[g] = DerivedKey(env)

Unread(g) == TRUE           \* mutation: a token is issued without the grant
Issuable(g) == Opens(g)

ServesOAuth == pc = "up" /\ env.transport = "http" /\ mode = "oauth"
-----------------------------------------------------------------------------
Init == /\ env \in Environments
        /\ mode = "none" /\ pc = "down" /\ starts = 0
        /\ sealed = [g \in Grants |-> NoKey]
        /\ access = {} /\ refresh = {} /\ turn = [g \in Grants |-> "rest"]
        /\ born = [g \in Grants |-> ""]
        /\ reply = Quiet

(* main loads the configuration, or exits *)
Load == /\ pc = "down" /\ starts < MaxStarts
        /\ starts' = starts + 1
        /\ \/ /\ Valid(env)
              /\ pc' = "loaded" /\ mode' = SelectAuthMode(env)
           \/ /\ ~Valid(env)
              /\ pc' = "refused" /\ UNCHANGED mode
        /\ UNCHANGED <<env, sealed, access, refresh, turn, born, reply>>

(* The transport starts. Only mode "oauth" opens the database and asks the  *)
(* issuer for its endpoints, which may fail and ends the process.           *)
Serve == /\ pc = "loaded"
         /\ \/ pc' = "up"
            \/ env.transport = "http" /\ mode = "oauth" /\ pc' = "down"
         /\ UNCHANGED <<env, mode, starts, sealed, access, refresh, turn, born,
                        reply>>

(* The process ends, whatever its handlers are at; the next one may get      *)
(* another environment.                                                     *)
InTurn == {g \in Grants : turn[g] \in {"spent", "read"}}
Stop == /\ pc \in {"up", "refused"} /\ starts < MaxStarts
        /\ pc' = "down" /\ env' \in Later /\ reply' = Quiet
        /\ turn' = [g \in Grants |-> IF g \in InTurn THEN "killed" ELSE turn[g]]
        /\ UNCHANGED <<mode, starts, sealed, access, refresh, born>>

(* A user passes the wizard and the client exchanges the code *)
Login(g) == /\ ServesOAuth /\ sealed[g] = NoKey
            /\ sealed' = [sealed EXCEPT ![g] = DerivedKey(env)]
            /\ access' = access \cup {SignedFor(g)}
            /\ refresh' = refresh \cup {g}
            /\ born' = [born EXCEPT ![g] = env.key]
            /\ UNCHANGED <<env, mode, pc, starts, turn, reply>>

(* tokenRefresh, a step for each statement: the old token is spent first,   *)
(* then the grant is read and an access token signed, then the new refresh  *)
(* token is stored and both are answered.  A statement may fail.            *)
ConsumeRefresh(g) ==
    /\ ServesOAuth /\ g \in refresh
    /\ refresh' = refresh \ {g}
    /\ turn' = [turn EXCEPT ![g] = "spent"]
    /\ UNCHANGED <<env, mode, pc, starts, sealed, access, born, reply>>

GetGrant(g) ==
    /\ turn[g] = "spent"
    /\ \/ Issuable(g) /\ turn' = [turn EXCEPT ![g] = "read"]
       \/ ~Issuable(g) /\ turn' = [turn EXCEPT ![g] = "rest"]
       \/ turn' = [turn EXCEPT ![g] = "failed"]
    /\ UNCHANGED <<env, mode, pc, starts, sealed, access, refresh, born, reply>>

PutRefresh(g) ==
    /\ turn[g] = "read"
    /\ \/ /\ refresh' = refresh \cup {g} /\ access' = access \cup {SignedFor(g)}
          /\ turn' = [turn EXCEPT ![g] = "rest"]
       \/ /\ turn' = [turn EXCEPT ![g] = "failed"]
          /\ UNCHANGED <<refresh, access>>
    /\ UNCHANGED <<env, mode, pc, starts, sealed, born, reply>>

(* applyAuth without a user's token in the request's context *)
StaticCredential == IF mode \in {"app-token", "oidc"} THEN mode ELSE "anonymous"

(* RequireBearer, or no check at all on stdio *)
PassesSecret(b) == \/ env.transport # "http"
                   \/ ~env.secret
                   \/ b = Secret

Upstream(b) ==
    IF ServesOAuth
    THEN IF b \in access /\ Accepts(b) /\ Opens(b.grant) THEN b.grant ELSE "refused"
    ELSE IF PassesSecret(b) THEN StaticCredential ELSE "refused"

Request(b) == /\ pc = "up"
              /\ b # None => env.transport = "http"
              /\ reply' = [bearer |-> b, upstream |-> Upstream(b)]
              /\ UNCHANGED <<env, mode, pc, starts, sealed, access, refresh, turn,
                             born>>

Next == \/ Load
        \/ Serve
        \/ Stop
        \/ \E g \in Grants : Login(g) \/ ConsumeRefresh(g) \/ GetGrant(g)
                              \/ PutRefresh(g)
        \/ \E b \in {None, Secret, Bearer("other")} \cup access : Request(b)

Spec == Init /\ [][Next]_vars
-----------------------------------------------------------------------------
Served == reply.upstream # "refused"

(* Whoever gets a tool call through on an address other than the loopback   *)
(* one presented the shared secret or a user's token: validate lets no      *)
(* other configuration reach ListenAndServe (config.go 162-168, http.go     *)
(* 28-35).  Not so for a mode spelt "OAuth": validate takes it for OAuth    *)
(* mode, which needs no secret, and ListenAndServe does not.                *)
CallersAreKnown ==
    Served /\ env.transport = "http" /\ ~IsLoopback(env) /\ env.mode # "OAuth" =>
        reply.bearer \in {Secret} \cup access

(* A session never outlives what it stands for: a grant whose access token   *)
(* this start accepts can be opened by it.  Tokens are signed and columns    *)
(* sealed under two keys of one OCIS_MCP_GRANT_KEY, by different processes:  *)
(* after a change of it the old sessions end together with their grants      *)
(* (OAUTH.md 33) and a refresh does not carry one across.                    *)
AcceptedIsReadable == \A t \in access : Accepts(t) => Opens(t.grant)

(* A client loses its refresh token to a refresh in three ways: the process *)
(* is stopped between spending the old one and answering with the new, a    *)
(* statement of the database fails there, or the grant key is another than  *)
(* when the grant was given.  While the key is kept, no change of another   *)
(* setting between two starts costs one (server.go 225-259).                *)
HasToken(g) == g \in refresh \cup InTurn
RefreshNotWasted ==
    [][\A g \in Grants : HasToken(g) /\ ~HasToken(g)' =>
           born[g] # env.key \/ turn'[g] \in {"killed", "failed"}]_vars
=============================================================================
