----------------------------- MODULE BlockChain -----------------------------
(***************************************************************************)
(* The chain of blocks of monerod, as a client of its RPC interface sees   *)
(* it: it grows at its end, and a reorganization (or the operator, with    *)
(* pop_blocks) replaces its last blocks by others, more of them or fewer.  *)
(* monerod is not part of the repository; the requests that read the chain *)
(* are actions of the modules that send them.                              *)
(***************************************************************************)
EXTENDS Naturals, Sequences

CONSTANTS
    Sizes,       \* the sizes, in bytes, that blocks may have
    MaxBlocks,   \* bound: the blocks of a chain
    MaxReorgs    \* bound: the reorganizations

ASSUME ChainAssumption ==
    /\ Sizes \subseteq Nat
    /\ Sizes # {}
    /\ MaxBlocks \in Nat \ {0}
    /\ MaxReorgs \in Nat

VARIABLES
    chain,   \* the blocks, the one at height h at h + 1
    reorgs   \* how often the chain was reorganized

chainVars == <<chain, reorgs>>

\* Two blocks of one height are the same block exactly if they are of the same
\* branch: a branch is the number of the reorganization it began with.
Blocks == [branch : 0..MaxReorgs, size : Sizes]

Heights == 0..(MaxBlocks - 1)
Chains == UNION {[1..n -> Blocks] : n \in 1..MaxBlocks}

ChainTypeOK ==
    /\ chain \in Chains
    /\ reorgs \in 0..MaxReorgs

Height == Len(chain)
BlockAt(h) == chain[h + 1]
OnChain(h) == h \in 0..(Height - 1)

ChainInit ==
    /\ chain \in {s \in Chains : \A i \in DOMAIN s : s[i].branch = 0}
    /\ reorgs = 0

\* A block is mined.
Grow ==
    /\ Height < MaxBlocks
    /\ \E size \in Sizes :
          chain' = Append(chain, [branch |-> reorgs, size |-> size])
    /\ UNCHANGED reorgs

\* The blocks above the first kept ones are replaced, at least one of them.
Reorganize ==
    /\ reorgs < MaxReorgs
    /\ reorgs' = reorgs + 1
    /\ \E kept \in 1..(Height - 1), n \in 1..MaxBlocks :
          /\ n > kept
          /\ \E added \in [1..(n - kept) -> Sizes] :
                chain' = [i \in 1..n |->
                            IF i <= kept THEN chain[i]
                            ELSE [branch |-> reorgs + 1, size |-> added[i - kept]]]

ChainNext == Grow \/ Reorganize

=============================================================================
