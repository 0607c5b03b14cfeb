-------------------------- MODULE GrantCredential --------------------------
(***************************************************************************)
(* What the token endpoint promises about one consent, without requests,   *)
(* locks or tables: the right to obtain the next token of a grant is a     *)
(* baton.  It starts in an authorization code, is taken by at most one     *)
(* request at a time, comes back as a refresh token never used before, and *)
(* when it is dropped it is gone for good.                                 *)
(***************************************************************************)
CONSTANTS Grants, Codes, Refreshes, None

VARIABLES
  holder,   \* grant -> where the baton is
  minted    \* credentials ever handed out

vars == <<holder, minted>>

Unissued == <<"unissued", None>>
Taken == <<"taken", None>>
Gone == <<"gone", None>>
Code(c) == <<"code", c>>
Token(t) == <<"token", t>>

Init == /\ holder = [g \in Grants |-> Unissued]
        /\ minted = {}

Fresh(x) == x \notin minted /\ minted' = minted \cup {x}

Pass(g, to) == holder' = [holder EXCEPT ![g] = to]

\* Consent is confirmed: the grant gets its one authorization code.
Issue(g, c) == holder[g] = Unissued /\ Fresh(c) /\ Pass(g, Code(c))

\* A request consumes the code or the refresh token.
Take(g) == /\ \/ \E c \in Codes : holder[g] = Code(c)
              \/ \E t \in Refreshes : holder[g] = Token(t)
           /\ Pass(g, Taken)
           /\ UNCHANGED minted

\* The request that took it hands out a new refresh token.
Mint(g, t) == holder[g] = Taken /\ Fresh(t) /\ Pass(g, Token(t))

\* /revoke consumes the refresh token and hands out nothing.
Discard(g) == /\ \E t \in Refreshes : holder[g] = Token(t)
              /\ Pass(g, Gone)
              /\ UNCHANGED minted

\* Requests that took a baton fail, alone or all together in a restart.
Drop(S) == /\ S # {}
           /\ \A g \in S : holder[g] = Taken
           /\ holder' = [g \in Grants |-> IF g \in S THEN Gone ELSE holder[g]]
           /\ UNCHANGED minted

Next == \/ \E g \in Grants : \/ Take(g)
                             \/ Discard(g)
                             \/ \E c \in Codes : Issue(g, c)
                             \/ \E t \in Refreshes : Mint(g, t)
        \/ \E S \in SUBSET Grants : Drop(S)

Spec == Init /\ [][Next]_vars
=============================================================================
