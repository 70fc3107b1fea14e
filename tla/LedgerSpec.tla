----------------------------- MODULE LedgerSpec -----------------------------
(***************************************************************************)
(* What the servers' ledgers promise, seen from outside: every server      *)
(* holds one chain, a chain only ever grows by one batch of transactions   *)
(* at a time, a batch is either new (mined here, from transactions that no *)
(* chain has carried before) or completes a chain somebody has already     *)
(* published, and a server that restarts is back at the genesis.           *)
(*                                                                         *)
(* There is no miner, no mempool, no queue and no network here.  A chain   *)
(* is the sequence of the batches on it; the genesis is the empty batch.   *)
(***************************************************************************)
EXTENDS Naturals, Sequences

CONSTANTS Server,     \* the game servers
          MaxTx,      \* transactions are numbered 1..MaxTx
          Mortal      \* the servers that may crash and restart

VARIABLES chain,      \* chain[s]: the chain server s holds
          published   \* every chain that has ever been some server's

lvars == <<chain, published>>

Tx == 1 .. MaxTx
GenesisChain == << {} >>

\* The transactions a chain carries.
TxsOf(c) == UNION { c[i] : i \in 1 .. Len(c) }

Init == /\ chain = [s \in Server |-> GenesisChain]
        /\ published = { GenesisChain }

\* Server s extends its chain with transactions that are on no chain yet.
Mine(s) == \E batch \in SUBSET Tx :
    /\ batch # {}
    /\ \A c \in published : batch \cap TxsOf(c) = {}
    /\ chain' = [chain EXCEPT ![s] = Append(@, batch)]
    /\ published' = published \cup { Append(chain[s], batch) }

\* Server s extends its chain to one that another server published.
Adopt(s) == \E c \in published :
    /\ Len(c) = Len(chain[s]) + 1
    /\ SubSeq(c, 1, Len(chain[s])) = chain[s]
    /\ chain' = [chain EXCEPT ![s] = c]
    /\ UNCHANGED published

\* The ledger lives in memory only: a restarted server has the genesis.
Restart(s) == /\ s \in Mortal
              /\ chain' = [chain EXCEPT ![s] = GenesisChain]
              /\ UNCHANGED published

Next == \E s \in Server : Mine(s) \/ Adopt(s) \/ Restart(s)

Spec == Init /\ [][Next]_lvars
=============================================================================
