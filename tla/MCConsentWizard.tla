-------------------------- MODULE MCConsentWizard --------------------------
EXTENDS ConsentWizard, TLC
CONSTANTS s1, s2

\* An administrator who views both spaces, and a user who edits
\* only the second.
MCAccounts == {[admin |-> TRUE, ceiling |-> (s1 :> 1 @@ s2 :> 1)],
               [admin |-> FALSE, ceiling |-> (s1 :> 0 @@ s2 :> 2)]}

\* An administrator who views the only space, and a user who manages it.
MCAccountsOneSpace == {[admin |-> TRUE, ceiling |-> (s1 :> 1)],
                       [admin |-> FALSE, ceiling |-> (s1 :> 3)]}

Symmetry == Permutations(Reqs) \cup Permutations(Sids)
=============================================================================
