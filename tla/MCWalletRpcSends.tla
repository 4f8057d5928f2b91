-------------------------- MODULE MCWalletRpcSends --------------------------
(* Instances of WalletRpcSends for TLC: an account with two subaddresses   *)
(* that have an output each, and another account with one output.          *)
EXTENDS WalletRpcSends, TLC

CONSTANTS o1, o2, o3

MCHome == (o1 :> <<0, 0>>) @@ (o2 :> <<0, 1>>) @@ (o3 :> <<1, 0>>)
=============================================================================
