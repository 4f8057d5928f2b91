------------------------- MODULE MCWalletRpcSession -------------------------
(***************************************************************************)
(* Instances of WalletRpcSession for TLC.                                  *)
(***************************************************************************)
EXTENDS WalletRpcSession, TLC

AllMethods == DOMAIN FirstStep

(* All but those that replace the keys or ask for accounts by their tag.   *)
ServiceMethods == AllMethods \ {"makeMultisig", "getAccountsByTag"}

MultisigMethods == {"createWallet", "getAddress", "makeMultisig"}

SecondAccount == {1}

=============================================================================
