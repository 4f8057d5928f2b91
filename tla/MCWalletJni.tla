---------------------------- MODULE MCWalletJni ----------------------------
(***************************************************************************)
(* Instances of WalletJni for TLC.  The configurations name the listeners  *)
(* r (may call the wallet) and x (throws).                                 *)
(***************************************************************************)
EXTENDS WalletJni

(* The methods one application thread calls. *)
AllMethods == Methods

(* Those that leave the listeners alone. *)
PlainMethods == {"asserted", "startSyncing", "stopSyncing"}

(* What a listener that unregisters itself calls. *)
RemoveOnly == {"removeListener"}

ListenersAndSync == {"addListener", "removeListener", "startSyncing"}

=============================================================================
