--------------------------- MODULE MCConnections ---------------------------
(* An app with two attribution connections, one bound, and a marketing one to come. *)
EXTENDS Connections, TLC

CONSTANTS u1, u2, k1, k2, h1, h2, c1, c2, c3

MCProviderOf == (c1 :> "appsflyer") @@ (c2 :> "tenjin") @@ (c3 :> "meta_ads")

Symmetry == Permutations(Users) \cup Permutations(Keys) \cup Permutations(Slots)

=============================================================================
