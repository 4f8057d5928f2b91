--------------------------- MODULE MCDaemonPoller ---------------------------
(***************************************************************************)
(* Instances of DaemonPoller for TLC.  The listeners are model values that *)
(* the configurations name a, b (ordinary), o (one shot) and x (throws).   *)
(***************************************************************************)
EXTENDS DaemonPoller, TLC

(* Polling threads differ only by name. *)
PollerSymmetry == Permutations(Pollers)

=============================================================================
