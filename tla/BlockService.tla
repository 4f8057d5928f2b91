---------------------------- MODULE BlockService ----------------------------
(***************************************************************************)
(* What getBlocksByRange and getBlocksByRangeChunked promise: the blocks   *)
(* of a range of heights, every one of them once and in order, each as it  *)
(* was on the chain at some moment of the call.  There are no headers, no  *)
(* cache and no chunks here.                                               *)
(***************************************************************************)
EXTENDS BlockChain

CONSTANT Null   \* an argument that is not given

VARIABLES
    ask,     \* the range asked for; its end is Null until it is known
    answer   \* what was read: a sequence of blocks with their heights

serviceVars == <<chain, reorgs, ask, answer>>

Asks == [open : BOOLEAN, start : Heights, end : Heights \cup {Null}]
Answers == UNION {[1..n -> [height : Heights, block : Blocks]] : n \in 0..MaxBlocks}

\* The blocks from height lo to height hi of the chain.
Segment(lo, hi) ==
    [i \in 1..(hi + 1 - lo) |-> [height |-> lo + i - 1, block |-> BlockAt(lo + i - 1)]]

ServiceInit ==
    /\ ChainInit
    /\ ask = [open |-> FALSE, start |-> 0, end |-> Null]
    /\ answer = << >>

Ask(start, end) ==
    /\ ~ask.open
    /\ ask' = [open |-> TRUE, start |-> start, end |-> end]
    /\ answer' = << >>
    /\ UNCHANGED chainVars

\* An end that was not given is the last block of the chain.
FindEnd ==
    /\ ask.open
    /\ ask.end = Null
    /\ ask' = [ask EXCEPT !.end = Height - 1]
    /\ UNCHANGED <<chain, reorgs, answer>>

\* Some more of the blocks are read, all at one moment.
Read ==
    /\ ask.open
    /\ ask.end # Null
    /\ LET next == ask.start + Len(answer)
       IN  \E last \in next..ask.end :
              /\ OnChain(last)
              /\ answer' = answer \o Segment(next, last)
    /\ UNCHANGED <<chain, reorgs, ask>>

\* The call returns when it has the whole range.
Return ==
    /\ ask.open
    /\ ask.end # Null
    /\ ask.start + Len(answer) > ask.end
    /\ ask' = [ask EXCEPT !.open = FALSE]
    /\ UNCHANGED <<chain, reorgs, answer>>

\* The call fails; the application gets nothing.
Fail ==
    /\ ask.open
    /\ ask' = [ask EXCEPT !.open = FALSE]
    /\ answer' = << >>
    /\ UNCHANGED chainVars

ServiceNext ==
    \/ ChainNext /\ UNCHANGED <<ask, answer>>
    \/ \E start \in Heights, end \in Heights \cup {Null} : Ask(start, end)
    \/ FindEnd
    \/ Read
    \/ Return
    \/ Fail

ServiceSpec == ServiceInit /\ [][ServiceNext]_serviceVars

=============================================================================
