---------------------------- MODULE SendService ----------------------------
(***************************************************************************)
(* What MoneroWallet promises of the methods that create or relay          *)
(* transactions: they spend what they were asked to spend, they relay      *)
(* exactly if they were asked to and the wallet can sign, and one that     *)
(* returns has said of every transaction it made.  How many requests a     *)
(* method takes, and which outputs it finds, does not show.                *)
(*                                                                         *)
(* A method that throws may have relayed transactions that it tells nobody *)
(* of.                                                                     *)
(***************************************************************************)
EXTENDS WalletFunds

VARIABLES
    request,  \* the method that runs, or NoRequest
    answer    \* how the last method ended, or NoAnswer

vars == <<funds, request, answer>>

NoRequest == [task |-> "none", relay |-> FALSE, scope |-> {}, made |-> {}]
NoAnswer == [outcome |-> "none", txs |-> {}]

Init == FundsInit /\ request = NoRequest /\ answer = NoAnswer

Running == request.task # "none"

(* Transactions that are submitted are signed.                             *)
Relaying == request.relay /\ (kind = "full" \/ request.task = "submit")

Invoke ==
    /\ ~Running
    /\ request' \in [task: {"create", "submit"}, relay: BOOLEAN, scope: SUBSET Outputs, made: {{}}]
    /\ answer' = NoAnswer
    /\ UNCHANGED funds

(* The method makes transactions, all of them compatible.                  *)
Makes(T) ==
    /\ UNION T \subseteq request.scope
    /\ Disjoint(request.made \cup T)
    /\ IF Relaying THEN Relays(T)
       ELSE UNION T \subseteq Available /\ UNCHANGED funds

End(outcome, txs) ==
    /\ request' = NoRequest
    /\ answer' = [outcome |-> outcome, txs |-> txs]

GoOn(T) ==
    /\ request' = [request EXCEPT !.made = @ \cup T]
    /\ UNCHANGED answer

Run ==
    /\ Running
    /\ \E T \in Batches :
         /\ Makes(T)
         /\ GoOn(T) \/ End("returns", request.made \cup T) \/ End("throws", {})

(* A wallet that cannot sign alone may return what is to be signed         *)
(* elsewhere, and no transactions.                                         *)
ReturnUnsigned ==
    /\ request.task = "create"
    /\ kind # "full"
    /\ request.made = {}
    /\ End("unsigned", {})
    /\ UNCHANGED funds

Others == (Unlocks \/ OthersSpend) /\ UNCHANGED <<request, answer>>

Next == Invoke \/ Run \/ ReturnUnsigned \/ Others

Spec == Init /\ [][Next]_vars

=============================================================================
