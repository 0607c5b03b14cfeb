-------------------------- MODULE MCConsentAsShown --------------------------
(* Accounts for model checking ConsentAsShown. *)
EXTENDS ConsentAsShown, TLC
CONSTANTS s1, s2

MCAccounts == {[admin |-> TRUE, ceiling |-> (s1 :> 1 @@ s2 :> 2)]}
=============================================================================
