--------------------------- MODULE MCOAuthTokens ---------------------------
(***************************************************************************)
(* Instances of OAuthTokens for TLC.  Reqs, grants and credentials are     *)
(* interchangeable: no action and no safety property orders or names them. *)
(***************************************************************************)
EXTENDS OAuthTokens, TLC

Symmetry == Permutations(Reqs) \cup Permutations(Refreshes)
              \cup Permutations(Grants) \cup Permutations(Codes)
              \cup Permutations(Clients) \cup Permutations(Redirects)
              \cup Permutations(Verifiers)
=============================================================================
