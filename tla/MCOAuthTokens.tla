--------------------------- MODULE MCOAuthTokens ---------------------------
(***************************************************************************)
(* The instance of OAuthTokens for TLC.  Clients, verifiers, tokens and    *)
(* requests are interchangeable: nothing in the model orders them.         *)
(***************************************************************************)
EXTENDS OAuthTokens, TLC

Symmetry == Permutations(Clients) \union Permutations(Verifiers)
              \union Permutations(Tokens) \union Permutations(Requests)
=============================================================================
