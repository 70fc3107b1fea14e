---------------------------- MODULE LedgerProofs ----------------------------
(***************************************************************************)
(* What the ledgers promise to those who use them, proved for Blockchain:  *)
(* the order of a server's transactions, the truth of a handler's answer,  *)
(* forks, and that the servers implement the abstract ledgers of           *)
(* LedgerSpec.                                                             *)
(*                                                                         *)
(* On top of the invariants of BlockchainProofs this takes three more: a   *)
(* miner works on a batch that is not empty and is the oldest part of its  *)
(* mempool; a block on the way has one request per server; and a hash      *)
(* commits to batches that were mined.                                     *)
(***************************************************************************)
EXTENDS BlockchainProofs, FiniteSetTheorems

USE ChainAssumption

-----------------------------------------------------------------------------
(* Batches.                                                                *)

\* A set of natural numbers has a least element.
LEMMA Least ==
  ASSUME NEW T \in SUBSET Nat, T # {}
  PROVE  \E x \in T : \A y \in T : x <= y
<1>1. PICK x \in T : \A y \in T : ~ (<<y, x>> \in OpToRel(<, Nat))
  BY NatLessThanWellFounded, WFMin, Zenon
<1>2. \A y \in T : <<y, x>> \in OpToRel(<, Nat) <=> y < x
  BY DEF OpToRel
<1>3. \A y \in T : ~ (y < x)
  BY <1>1, <1>2, Zenon
<1>4. x \in Nat /\ \A y \in T : y \in Nat
  OBVIOUS
<1> QED
  BY <1>3, <1>4

\* What is older than a transaction of a mempool: finitely many others.
Older(pool, t) == { u \in pool : u < t }

LEMMA OlderFinite ==
  ASSUME NEW pool \in SUBSET Tx, NEW t
  PROVE  /\ IsFiniteSet(Older(pool, t))
         /\ Cardinality(Older(pool, t)) \in Nat
<1>1. IsFiniteSet(1 .. MaxTx)
  BY FS_Interval
<1>2. Older(pool, t) \in SUBSET (1 .. MaxTx)
  BY DEF Older, Tx
<1>3. IsFiniteSet(Older(pool, t))
  BY <1>1, <1>2, FS_Subset
<1> QED
  BY <1>3, FS_CardinalityType

\* A batch is what has fewer than BatchMax older ones.
LEMMA BatchOlder ==
  ASSUME NEW pool
  PROVE  \A t : t \in Batch(pool)
                  <=> t \in pool /\ Cardinality(Older(pool, t)) < BatchMax
BY DEF Batch, Older

\* Whoever has a transaction waiting has a batch to mine.
LEMMA BatchNotEmpty ==
  ASSUME NEW pool \in SUBSET Tx, pool # {}
  PROVE  Batch(pool) # {}
<1>1. pool \in SUBSET Nat
  BY DEF Tx
<1>2. PICK x \in pool : \A y \in pool : x <= y
  BY <1>1, Least
<1>3. Older(pool, x) = {}
  <2>1. x \in Nat /\ \A y \in pool : y \in Nat /\ ~ (y < x)
    BY <1>1, <1>2
  <2> QED
    BY <2>1 DEF Older
<1>4. Cardinality(Older(pool, x)) = 0
  BY <1>3, FS_EmptySet
<1>5. x \in Batch(pool)
  BY <1>4, BatchOlder
<1> QED
  BY <1>5

\* A batch is the oldest part of the mempool: nobody is overtaken.
LEMMA BatchOldest ==
  ASSUME NEW pool \in SUBSET Tx, NEW t \in Batch(pool), NEW u \in pool \ Batch(pool)
  PROVE  t < u
<1>1. t \in pool /\ Cardinality(Older(pool, t)) < BatchMax
  BY BatchOlder
<1>2. t \in Nat /\ u \in Nat /\ t # u
  BY <1>1 DEF Tx
<1>3. ASSUME u < t PROVE FALSE
  <2>1. Older(pool, u) \in SUBSET Older(pool, t)
    <3>1. \A v \in pool : v < u => v < t
      BY <1>2, <1>3 DEF Tx
    <3> QED
      BY <3>1 DEF Older
  <2>2. Cardinality(Older(pool, u)) <= Cardinality(Older(pool, t))
    BY <2>1, OlderFinite, FS_Subset
  <2>3. /\ Cardinality(Older(pool, u)) \in Nat
        /\ Cardinality(Older(pool, t)) \in Nat
    BY <1>1, OlderFinite
  <2>4. Cardinality(Older(pool, u)) < BatchMax
    BY <1>1, <2>2, <2>3
  <2> QED
    BY <2>4, BatchOlder
<1> QED
  BY <1>2, <1>3
-----------------------------------------------------------------------------
(* The miner's batch.                                                      *)

\* What a miner works on is not empty, and older than all that it leaves in
\* the mempool.
BatchInv ==
  \A s \in Server : minerPC[s] \in { "select", "hash" } =>
    /\ candidate[s].txs # {}
    /\ \A t \in candidate[s].txs : \A u \in mpool[s] \ candidate[s].txs : t < u

\* Only the miner of s takes transactions of s away, so the batch stays the
\* oldest part while others arrive behind it and foreign blocks are appended.
LEMMA BatchNext ==
  ASSUME TypeInv, TxInv, BatchInv, [Next]_vars
  PROVE  BatchInv'
<1>0. TypeOK
  BY DEF TypeInv
<1>1. ASSUME NEW s \in Server, AddTransaction(s) PROVE BatchInv'
  <2> DEFINE n == Len(accepted) + 1
  <2>1. /\ mpool' = [mpool EXCEPT ![s] = @ \cup {n}]
        /\ minerPC' = minerPC /\ candidate' = candidate
    BY <1>1 DEF AddTransaction
  <2>2. \A r \in Server : mpool'[r] \subseteq mpool[r] \cup {n}
    BY <1>0, <2>1 DEF TypeOK
  <2>3. ASSUME NEW r \in Server, minerPC[r] \in { "select", "hash" },
               NEW t \in candidate[r].txs
        PROVE  t < n
    <3>1. t \in mpool[r]
      BY <2>3 DEF TxInv
    <3>2. t \in Nat /\ t <= Len(accepted)
      BY <1>0, <3>1 DEF TxInv, TypeOK, Tx
    <3>3. Len(accepted) \in Nat
      BY <1>0 DEF TypeOK
    <3> QED
      BY <3>2, <3>3
  <2> QED
    BY <2>1, <2>2, <2>3 DEF BatchInv
<1>2. ASSUME NEW s \in Server, MineStart(s) PROVE BatchInv'
  <2>1. mpool[s] \in SUBSET Tx /\ mpool[s] # {}
    BY <1>0, <1>2 DEF MineStart, TypeOK
  <2>2. /\ candidate'[s].txs = Batch(mpool[s])
        /\ \A r \in Server \ {s} : candidate'[r] = candidate[r] /\ minerPC'[r] = minerPC[r]
        /\ mpool' = mpool
    BY <1>0, <1>2 DEF MineStart, TypeOK
  <2>3. /\ Batch(mpool[s]) # {}
        /\ \A t \in Batch(mpool[s]) : \A u \in mpool[s] \ Batch(mpool[s]) : t < u
    BY <2>1, BatchNotEmpty, BatchOldest
  <2> QED
    BY <2>2, <2>3 DEF BatchInv
<1>3. ASSUME NEW s \in Server, TryNonce(s) \/ NonceMisses(s) PROVE BatchInv'
  <2>1. \A r \in Server : minerPC'[r] \in { "select", "hash" }
                            => minerPC[r] \in { "select", "hash" }
    BY <1>0, <1>3 DEF TryNonce, NonceMisses, TypeOK
  <2>2. UNCHANGED <<mpool, candidate>>
    BY <1>3 DEF TryNonce, NonceMisses
  <2> QED
    BY <2>1, <2>2 DEF BatchInv
<1>4. ASSUME NEW s \in Server, MinerAppends(s) PROVE BatchInv'
  <2>1. /\ \A r \in Server \ {s} : /\ candidate'[r] = candidate[r]
                                   /\ minerPC'[r] = minerPC[r]
                                   /\ mpool'[r] = mpool[r]
        /\ minerPC'[s] = "poll"
    BY <1>0, <1>4 DEF MinerAppends, AddBlock, TypeOK
  <2> QED
    BY <2>1 DEF BatchInv
<1>5. ASSUME NEW s \in Server, MinerWakes(s) PROVE BatchInv'
  BY <1>0, <1>5 DEF MinerWakes, TypeOK, BatchInv
<1>6. ASSUME NEW s \in Server, CancelMining(s) PROVE BatchInv'
  BY <1>0, <1>6 DEF CancelMining, TypeOK, BatchInv
<1>7. ASSUME NEW s \in Server, LoopAppends(s) PROVE BatchInv'
  <2>1. mpool' = mpool /\ UNCHANGED <<minerPC, candidate>>
    BY <1>0, <1>7, ForeignBlock DEF LoopAppends, AddBlock, TypeOK
  <2> QED
    BY <2>1 DEF BatchInv
<1>8. ASSUME NEW s \in Server, CrashRestart(s) PROVE BatchInv'
  <2>1. /\ \A r \in Server \ {s} : /\ candidate'[r] = candidate[r]
                                   /\ minerPC'[r] = minerPC[r]
                                   /\ mpool'[r] = mpool[r]
        /\ minerPC'[s] = "poll"
    BY <1>0, <1>8 DEF CrashRestart, TypeOK
  <2> QED
    BY <2>1 DEF BatchInv
<1>9. ASSUME UNCHANGED <<mpool, minerPC, candidate>> PROVE BatchInv'
  BY <1>9 DEF BatchInv
<1>10. ASSUME NEW s \in Server,
              LoopReceives(s) \/ LoopRejects(s) \/ LoopChecks(s)
       PROVE  BatchInv'
  BY <1>9, <1>10 DEF LoopReceives, LoopRejects, LoopChecks
<1>11. ASSUME NEW p \in post, Handler(p) PROVE BatchInv'
  BY <1>9, <1>11 DEF Handler, QueueBlock, QueueFull, HandlerTimeout, LosePost
<1>12. CASE UNCHANGED vars
  BY <1>9, <1>12 DEF vars
<1> QED
  BY <1>1, <1>2, <1>3, <1>4, <1>5, <1>6, <1>7, <1>8, <1>10, <1>11, <1>12
     DEF Next, Miner, Loop

LEMMA BatchInvariant == Spec => [](TypeInv /\ TxInv /\ BatchInv)
<1>1. Init => BatchInv
  BY DEF Init, BatchInv
<1>2. TypeInv /\ TxInv /\ BatchInv /\ [Next]_vars => BatchInv'
  BY BatchNext
<1> QED
  BY <1>1, <1>2, TxInvariant, PTL DEF Spec

\* A block is new when it is mined: its transactions are in no other.
LEMMA CandidateIsNew ==
  ASSUME TypeInv, TxInv, BatchInv, NEW s \in Server, minerPC[s] = "hash"
  PROVE  /\ \A b \in mined : candidate[s].txs \cap b.txs = {}
         /\ candidate[s] \notin mined
<1>1. \A b \in mined : candidate[s].txs \cap b.txs = {}
  BY DEF TxInv
<1>2. candidate[s].txs # {}
  BY DEF BatchInv
<1> QED
  BY <1>1, <1>2
-----------------------------------------------------------------------------
(* The order of admission.                                                 *)

\* What waits in a mempool is younger than what its server, which does not crash,
\* has in the ledger.
OrderInv ==
  \A s \in Server \ Mortal : \A t \in mpool[s] : \A u \in LedgerTxs(ledger[s]) :
    accepted[u] = s => u < t

\* Transactions of a ledger are numbers that have been given out.
LEMMA LedgerTxsAdmitted ==
  ASSUME TypeOK, TxInv, NEW s \in Server, NEW u \in LedgerTxs(ledger[s])
  PROVE  u \in 1 .. Len(accepted)
<1>1. PICK i \in 1 .. Len(ledger[s]) : u \in ledger[s][i].txs
  BY DEF LedgerTxs
<1>2. ledger[s][i] \in mined /\ ledger[s][i] \in Block
  BY DEF TxInv, TypeOK
<1>3. u \in Nat /\ u >= 1 /\ u <= Len(accepted)
  BY <1>1, <1>2 DEF TxInv, Block, Tx
<1>4. Len(accepted) \in Nat
  BY DEF TypeOK
<1> QED
  BY <1>3, <1>4

\* An append keeps the order if the block's own transactions of s are in the
\* ledger already or older than what stays in the mempool.
LEMMA OrderAppend ==
  ASSUME TypeOK, OrderInv, NEW s \in Server, NEW b \in Block, AddBlock(s, b),
         UNCHANGED accepted,
         \A u \in b.txs : accepted[u] = s /\ s \notin Mortal =>
            \/ u \in LedgerTxs(ledger[s])
            \/ \A t \in mpool[s] \ b.txs : u < t
  PROVE  OrderInv'
<1>1. ledger[s] \in Seq(Block)
  BY DEF TypeOK
<1>2. /\ ledger'[s] = Append(ledger[s], b)
      /\ mpool'[s] = mpool[s] \ b.txs
      /\ \A r \in Server \ {s} : ledger'[r] = ledger[r] /\ mpool'[r] = mpool[r]
  BY DEF AddBlock, TypeOK
<1>3. LedgerTxs(ledger'[s]) = LedgerTxs(ledger[s]) \cup b.txs
  BY <1>1, <1>2, AppendTxs
<1> SUFFICES ASSUME NEW r \in Server \ Mortal, NEW t \in mpool'[r],
                    NEW u \in LedgerTxs(ledger'[r]), accepted[u] = r
             PROVE  u < t
  BY DEF OrderInv, LedgerTxs
<1>4. CASE r = s
  BY <1>2, <1>3, <1>4 DEF OrderInv
<1>5. CASE r # s
  BY <1>2, <1>5 DEF OrderInv
<1> QED
  BY <1>4, <1>5

\* Every step keeps the order.
LEMMA OrderNext ==
  ASSUME TypeInv, TxInv, BatchInv, TxKept, OrderInv, [Next]_vars
  PROVE  OrderInv'
<1>0. TypeOK
  BY DEF TypeInv
<1>1. ASSUME NEW s \in Server, AddTransaction(s) PROVE OrderInv'
  <2> DEFINE n == Len(accepted) + 1
  <2>1. /\ accepted' = Append(accepted, s)
        /\ mpool' = [mpool EXCEPT ![s] = @ \cup {n}]
        /\ ledger' = ledger
    BY <1>1 DEF AddTransaction
  <2>2. /\ Len(accepted) \in Nat
        /\ \A u \in 1 .. Len(accepted) : accepted'[u] = accepted[u]
    BY <1>0, <2>1, AppendProperties DEF TypeOK
  <2> SUFFICES ASSUME NEW r \in Server \ Mortal, NEW t \in mpool'[r],
                      NEW u \in LedgerTxs(ledger'[r]), accepted'[u] = r
               PROVE  u < t
    BY DEF OrderInv, LedgerTxs
  <2>3. u \in LedgerTxs(ledger[r]) /\ u \in 1 .. Len(accepted)
    BY <1>0, <2>1, LedgerTxsAdmitted
  <2>4. accepted[u] = r
    BY <2>2, <2>3
  <2>5. CASE t \in mpool[r]
    BY <2>3, <2>4, <2>5 DEF OrderInv
  <2>6. CASE t = n
    BY <2>2, <2>3, <2>6
  <2> QED
    BY <1>0, <2>1, <2>5, <2>6 DEF TypeOK
<1>2. ASSUME NEW s \in Server, MinerAppends(s) PROVE OrderInv'
  <2>1. candidate[s] \in Block
    BY <1>0 DEF TypeOK
  <2>2. \A u \in candidate[s].txs : \A t \in mpool[s] \ candidate[s].txs : u < t
    BY <1>2 DEF MinerAppends, BatchInv
  <2> QED
    BY <1>0, <1>2, <2>1, <2>2, OrderAppend DEF MinerAppends
<1>3. ASSUME NEW s \in Server, LoopAppends(s) PROVE OrderInv'
  <2>1. task[s] \in Block /\ task[s] \in mined
    BY <1>0 DEF TypeOK, TxInv
  <2>2. ASSUME NEW u \in task[s].txs, accepted[u] = s, s \notin Mortal
        PROVE  u \in LedgerTxs(ledger[s])
    <3>1. u \in Nat /\ u >= 1 /\ u <= Len(accepted)
      BY <2>1 DEF TxInv, Block, Tx
    <3>2. u \in 1 .. Len(accepted)
      BY <1>0, <3>1 DEF TypeOK
    <3>3. u \notin mpool[s]
      BY <2>1 DEF TxInv
    <3> QED
      BY <2>2, <3>2, <3>3 DEF TxKept
  <2> QED
    BY <1>0, <1>3, <2>1, <2>2, OrderAppend DEF LoopAppends
<1>4. ASSUME UNCHANGED <<accepted, mpool, ledger>> PROVE OrderInv'
  BY <1>4 DEF OrderInv, LedgerTxs
<1>5. ASSUME NEW s \in Server,
             MineStart(s) \/ TryNonce(s) \/ NonceMisses(s) \/ MinerWakes(s)
      PROVE  OrderInv'
  BY <1>4, <1>5 DEF MineStart, TryNonce, NonceMisses, MinerWakes
<1>6. ASSUME NEW s \in Server,
             LoopReceives(s) \/ CancelMining(s) \/ LoopRejects(s) \/ LoopChecks(s)
      PROVE  OrderInv'
  BY <1>4, <1>6 DEF LoopReceives, CancelMining, LoopRejects, LoopChecks
<1>7. ASSUME NEW p \in post, Handler(p) PROVE OrderInv'
  BY <1>4, <1>7 DEF Handler, QueueBlock, QueueFull, HandlerTimeout, LosePost
<1>8. ASSUME NEW s \in Server, CrashRestart(s) PROVE OrderInv'
  <2>1. \A r \in Server \ Mortal : mpool'[r] = mpool[r] /\ ledger'[r] = ledger[r]
    BY <1>0, <1>8 DEF CrashRestart, TypeOK
  <2>2. accepted' = accepted
    BY <1>8 DEF CrashRestart
  <2> QED
    BY <2>1, <2>2 DEF OrderInv, LedgerTxs
<1>9. CASE UNCHANGED vars
  BY <1>4, <1>9 DEF vars
<1> QED
  BY <1>1, <1>2, <1>3, <1>5, <1>6, <1>7, <1>8, <1>9 DEF Next, Miner, Loop

\* Servers that do not crash put a client's transactions into the ledger in
\* the order they answered 202 for them, however many fit in a block and whatever
\* the others do.
THEOREM AdmissionOrderKept == Spec => []AdmissionOrder
<1> DEFINE Inv == TypeInv /\ TxInv /\ BatchInv /\ TxKept /\ OrderInv
<1>1. Init => TxKept /\ OrderInv
  BY DEF Init, TxKept, OrderInv
<1>2. TypeInv /\ TxInv /\ BatchInv /\ TxKept /\ OrderInv /\ [Next]_vars
        => TxKept' /\ OrderInv'
  BY TxKeptNext, OrderNext
<1>3. TypeInv /\ TxKept /\ OrderInv => AdmissionOrder
  <2> SUFFICES ASSUME TypeInv, TxKept, OrderInv,
                      NEW t \in 1 .. Len(accepted), NEW u \in 1 .. Len(accepted),
                      t < u, accepted[t] = accepted[u], accepted[u] \notin Mortal,
                      u \in LedgerTxs(ledger[accepted[u]])
               PROVE  t \in LedgerTxs(ledger[accepted[u]])
    BY DEF AdmissionOrder
  <2>1. accepted[u] \in Server
    BY ElementOfSeq DEF TypeInv, TypeOK
  <2>2. t \in mpool[accepted[u]] \/ t \in LedgerTxs(ledger[accepted[u]])
    BY <2>1 DEF TxKept
  <2>3. t \in mpool[accepted[u]] => u < t
    BY <2>1 DEF OrderInv
  <2> QED
    BY <2>2, <2>3
<1> QED
  BY <1>1, <1>2, <1>3, BatchInvariant, PTL DEF Spec
-----------------------------------------------------------------------------
(* The servers implement the abstract ledgers of LedgerSpec.               *)

\* What a PreviousHash commits to was mined.
PrevMined ==
  \A b \in mined : \A i \in 1 .. Len(b.prev) : \E a \in mined : b.prev[i] = a.txs

\* So is what the tip of a ledger commits to.
LEMMA TipMined ==
  ASSUME TypeInv, TxInv, PrevMined, NEW s \in Server,
         NEW i \in 1 .. Len(TipHash(ledger[s]))
  PROVE  \E a \in mined : TipHash(ledger[s])[i] = a.txs
<1> DEFINE l == ledger[s]
           b == l[Len(l)]
<1>1. l \in Seq(Block) /\ Len(l) \in 1 .. Len(l)
  BY DEF TypeInv, TypeOK
<1>2. b \in mined /\ b \in Block
  BY <1>1 DEF TypeInv, TypeOK, TxInv
<1>3. b.prev \in Seq(SUBSET Tx) /\ b.txs \in SUBSET Tx
  BY <1>2 DEF Block, Hash
<1>4. TipHash(l) = Append(b.prev, b.txs)
  BY DEF TipHash, HashOf
<1> HIDE DEF l, b
<1>5. CASE i \in 1 .. Len(b.prev)
  <2>1. TipHash(l)[i] = b.prev[i]
    BY <1>3, <1>4, <1>5, AppendProperties
  <2> QED
    BY <1>2, <1>5, <2>1 DEF PrevMined, l
<1>6. CASE i = Len(b.prev) + 1
  <2>1. TipHash(l)[i] = b.txs
    BY <1>3, <1>4, <1>6, AppendProperties
  <2> QED
    BY <1>2, <2>1 DEF l
<1> QED
  BY <1>3, <1>4, <1>5, <1>6, AppendProperties DEF l

LEMMA PrevMinedInit == Init => PrevMined
BY DEF Init, PrevMined, Genesis

\* A block that is mined on the tip commits to what was mined.
LEMMA PrevMinedNext ==
  ASSUME TypeInv, TxInv, ChainInv, PrevMined, [Next]_vars
  PROVE  PrevMined'
<1>1. ASSUME NEW s \in Server, MinerAppends(s) PROVE PrevMined'
  <2>1. candidate[s].prev = TipHash(ledger[s])
    BY <1>1 DEF MinerAppends, ChainInv, MinerOnTip
  <2>2. \A i \in 1 .. Len(candidate[s].prev) :
          \E a \in mined : candidate[s].prev[i] = a.txs
    BY <2>1, TipMined
  <2>3. mined' = mined \cup { candidate[s] }
    BY <1>1 DEF MinerAppends
  <2> QED
    BY <2>2, <2>3 DEF PrevMined
<1>2. ASSUME UNCHANGED mined PROVE PrevMined'
  BY <1>2 DEF PrevMined
<1>3. ASSUME NEW s \in Server,
             \/ AddTransaction(s) \/ MineStart(s) \/ TryNonce(s) \/ NonceMisses(s)
             \/ MinerWakes(s) \/ Loop(s) \/ CrashRestart(s)
      PROVE  UNCHANGED mined
  BY <1>3 DEF AddTransaction, MineStart, TryNonce, NonceMisses, MinerWakes, Loop,
              LoopReceives, CancelMining, LoopRejects, LoopChecks, LoopAppends,
              CrashRestart
<1>4. ASSUME NEW p \in post, Handler(p) PROVE UNCHANGED mined
  BY <1>4 DEF Handler, QueueBlock, QueueFull, HandlerTimeout, LosePost
<1>5. CASE UNCHANGED vars
  BY <1>2, <1>5 DEF vars
<1> QED
  BY <1>1, <1>2, <1>3, <1>4, <1>5 DEF Next, Miner

\* The transactions of the chain that a mined block ends are those of mined
\* blocks.
LEMMA ChainTxsMined ==
  ASSUME TypeOK, PrevMined, NEW b \in mined, NEW t \in Abstract!TxsOf(HashOf(b))
  PROVE  \E a \in mined : t \in a.txs
<1>1. b \in Block
  BY DEF TypeOK
<1>2. b.prev \in Seq(SUBSET Tx) /\ b.txs \in SUBSET Tx
  BY <1>1 DEF Block, Hash
<1>3. PICK i \in 1 .. Len(HashOf(b)) : t \in HashOf(b)[i]
  BY DEF Abstract!TxsOf
<1>4. CASE i \in 1 .. Len(b.prev)
  <2>1. HashOf(b)[i] = b.prev[i]
    BY <1>2, <1>4, AppendProperties DEF HashOf
  <2> QED
    BY <1>3, <1>4, <2>1 DEF PrevMined
<1>5. CASE i = Len(b.prev) + 1
  <2>1. HashOf(b)[i] = b.txs
    BY <1>2, <1>5, AppendProperties DEF HashOf
  <2> QED
    BY <1>3, <2>1
<1> QED
  BY <1>2, <1>4, <1>5, AppendProperties DEF HashOf

\* The abstract state.
chainNow == [s \in Server |-> TipHash(ledger[s])]
publishedNow == { HashOf(b) : b \in mined }

\* A ledger that is just the genesis is the chain of the empty batch.
LEMMA GenesisHash ==
  /\ HashOf(Genesis) = << {} >>
  /\ TipHash(<< Genesis >>) = << {} >>
<1>1. HashOf(Genesis) = << {} >>
  BY DEF HashOf, Genesis
<1> QED
  BY <1>1 DEF TipHash

LEMMA ImplementsInit == Init => Abstract!Init
<1> SUFFICES ASSUME Init PROVE Abstract!Init
  OBVIOUS
<1>1. [s \in Server |-> TipHash(ledger[s])] = [s \in Server |-> << {} >>]
  BY GenesisHash DEF Init
<1>2. { HashOf(b) : b \in mined } = { << {} >> }
  BY GenesisHash DEF Init
<1> QED
  BY <1>1, <1>2 DEF Abstract!Init, Abstract!GenesisChain

\* A block that a server mines is a batch that is new to all the chains.
LEMMA ImplementsMine ==
  ASSUME TypeInv, TxInv, BatchInv, ChainInv, PrevMined,
         NEW s \in Server, MinerAppends(s)
  PROVE  Abstract!Mine(s)
<1> DEFINE b == candidate[s]
<1>0. TypeOK /\ b \in Block
  BY DEF TypeInv, TypeOK
<1>1. b.txs \in SUBSET Tx /\ b.txs # {}
  BY <1>0 DEF MinerAppends, BatchInv, Block
<1>2. b.prev = TipHash(ledger[s])
  BY DEF MinerAppends, ChainInv, MinerOnTip
<1>3. HashOf(b) = Append(TipHash(ledger[s]), b.txs)
  BY <1>2 DEF HashOf
<1>4. \A c \in publishedNow : b.txs \cap Abstract!TxsOf(c) = {}
  <2> SUFFICES ASSUME NEW a \in mined, NEW t \in b.txs,
                      t \in Abstract!TxsOf(HashOf(a))
               PROVE  FALSE
    BY DEF publishedNow
  <2>1. PICK d \in mined : t \in d.txs
    BY <1>0, ChainTxsMined
  <2> QED
    BY <2>1, CandidateIsNew DEF MinerAppends
<1>5. chainNow' = [chainNow EXCEPT ![s] = Append(@, b.txs)]
  <2>1. /\ TipHash(ledger'[s]) = HashOf(b)
        /\ \A r \in Server \ {s} : ledger'[r] = ledger[r]
    BY <1>0, AddBlockLedger DEF MinerAppends
  <2>2. \A r \in Server \ {s} : TipHash(ledger'[r]) = TipHash(ledger[r])
    BY <2>1
  <2>3. chainNow' = [r \in Server |-> TipHash(ledger'[r])]
    BY DEF chainNow, TipHash, HashOf
  <2> QED
    BY <1>3, <2>1, <2>2, <2>3 DEF chainNow
<1>6. publishedNow' = publishedNow \cup { Append(chainNow[s], b.txs) }
  <2>1. mined' = mined \cup {b}
    BY DEF MinerAppends
  <2>2. publishedNow' = { HashOf(a) : a \in mined' }
    BY DEF publishedNow, HashOf
  <2>3. publishedNow' = publishedNow \cup { HashOf(b) }
    BY <2>1, <2>2 DEF publishedNow
  <2> QED
    BY <1>3, <2>3 DEF chainNow
<1> QED
  BY <1>1, <1>4, <1>5, <1>6 DEF Abstract!Mine, Abstract!Tx, Tx, chainNow, publishedNow

\* A foreign block that a server appends leads to a chain that is published.
LEMMA ImplementsAdopt ==
  ASSUME TypeInv, TxInv, ChainInv, NEW s \in Server, LoopAppends(s)
  PROVE  Abstract!Adopt(s)
<1> DEFINE b == task[s]
           c == HashOf(b)
<1>0. TypeOK /\ b \in Block /\ ledger[s] \in Seq(Block) /\ ledger[s] # << >>
  BY DEF TypeInv, TypeOK
<1>1. c \in publishedNow
  BY DEF TxInv, publishedNow
<1>2. b.prev = TipHash(ledger[s])
  BY DEF LoopAppends, ChainInv, TaskOnTip, CheckNewBlock
<1>3. c = Append(chainNow[s], b.txs)
  BY <1>2 DEF HashOf, chainNow
<1>4. chainNow[s] \in Seq(SUBSET Tx) /\ b.txs \in SUBSET Tx
  BY <1>0, TipHashType DEF chainNow, Hash, Block
<1>5. Len(c) = Len(chainNow[s]) + 1 /\ SubSeq(c, 1, Len(chainNow[s])) = chainNow[s]
  <2>1. /\ c \in Seq(SUBSET Tx) /\ Len(chainNow[s]) \in Nat
        /\ Len(c) = Len(chainNow[s]) + 1
        /\ \A i \in 1 .. Len(chainNow[s]) : c[i] = chainNow[s][i]
    BY <1>3, <1>4, AppendProperties
  <2> DEFINE m == SubSeq(c, 1, Len(chainNow[s]))
  <2>2. /\ m \in Seq(SUBSET Tx) /\ Len(m) = Len(chainNow[s])
        /\ \A i \in 1 .. Len(chainNow[s]) : m[i] = c[i]
    BY <2>1, SubSeqProperties
  <2>3. m = chainNow[s]
    BY <1>4, <2>1, <2>2, SeqEqual
  <2> QED
    BY <2>1, <2>3
<1>6. chainNow' = [chainNow EXCEPT ![s] = c]
  <2>1. /\ TipHash(ledger'[s]) = c
        /\ \A r \in Server \ {s} : ledger'[r] = ledger[r]
    BY <1>0, AddBlockLedger DEF LoopAppends
  <2>2. \A r \in Server \ {s} : TipHash(ledger'[r]) = TipHash(ledger[r])
    BY <2>1
  <2>3. chainNow' = [r \in Server |-> TipHash(ledger'[r])]
    BY DEF chainNow, TipHash, HashOf
  <2> QED
    BY <2>1, <2>2, <2>3 DEF chainNow
<1>7. publishedNow' = publishedNow
  BY DEF LoopAppends, publishedNow
<1> QED
  BY <1>1, <1>5, <1>6, <1>7 DEF Abstract!Adopt, chainNow, publishedNow

\* A server that restarts is back at the genesis.
LEMMA ImplementsRestart ==
  ASSUME TypeInv, NEW s \in Server, CrashRestart(s)
  PROVE  Abstract!Restart(s)
<1>1. /\ ledger'[s] = << Genesis >>
      /\ \A r \in Server \ {s} : ledger'[r] = ledger[r]
  BY DEF CrashRestart, TypeInv, TypeOK
<1>2. /\ TipHash(ledger'[s]) = << {} >>
      /\ \A r \in Server \ {s} : TipHash(ledger'[r]) = TipHash(ledger[r])
  BY <1>1, GenesisHash
<1>3. chainNow' = [r \in Server |-> TipHash(ledger'[r])]
  BY DEF chainNow, TipHash, HashOf
<1>4. chainNow' = [chainNow EXCEPT ![s] = << {} >>]
  BY <1>2, <1>3 DEF chainNow
<1>5. publishedNow' = publishedNow /\ s \in Mortal
  BY DEF CrashRestart, publishedNow
<1> QED
  BY <1>4, <1>5 DEF Abstract!Restart, Abstract!GenesisChain, chainNow, publishedNow

\* Every step of the servers is a step of the abstract ledgers, or none.
LEMMA ImplementsNext ==
  ASSUME TypeInv, TxInv, BatchInv, ChainInv, PrevMined, [Next]_vars
  PROVE  [Abstract!Next]_(Abstract!lvars)
<1>1. ASSUME NEW s \in Server, MinerAppends(s) PROVE Abstract!Next
  BY <1>1, ImplementsMine DEF Abstract!Next
<1>2. ASSUME NEW s \in Server, LoopAppends(s) PROVE Abstract!Next
  BY <1>2, ImplementsAdopt DEF Abstract!Next
<1>3. ASSUME NEW s \in Server, CrashRestart(s) PROVE Abstract!Next
  BY <1>3, ImplementsRestart DEF Abstract!Next
<1>4. ASSUME UNCHANGED <<ledger, mined>> PROVE UNCHANGED Abstract!lvars
  <2>1. chainNow' = chainNow
    BY <1>4 DEF chainNow
  <2>2. publishedNow' = publishedNow
    BY <1>4 DEF publishedNow
  <2> QED
    BY <2>1, <2>2 DEF Abstract!lvars, chainNow, publishedNow
<1>5. ASSUME NEW s \in Server,
             \/ AddTransaction(s) \/ MineStart(s) \/ TryNonce(s)
             \/ NonceMisses(s) \/ MinerWakes(s) \/ LoopReceives(s)
             \/ CancelMining(s) \/ LoopRejects(s) \/ LoopChecks(s)
      PROVE  UNCHANGED <<ledger, mined>>
  BY <1>5 DEF AddTransaction, MineStart, TryNonce, NonceMisses, MinerWakes,
              LoopReceives, CancelMining, LoopRejects, LoopChecks
<1>6. ASSUME NEW p \in post, Handler(p) PROVE UNCHANGED <<ledger, mined>>
  BY <1>6 DEF Handler, QueueBlock, QueueFull, HandlerTimeout, LosePost
<1>7. CASE UNCHANGED vars
  BY <1>4, <1>7 DEF vars
<1> QED
  BY <1>1, <1>2, <1>3, <1>4, <1>5, <1>6, <1>7 DEF Next, Miner, Loop

\* The servers implement the abstract ledgers, with or without lost blocks and
\* crashes: seen from outside there are only chains that grow by new batches or
\* by what somebody published, and restarts.
THEOREM LedgersRefine ==
  ASSUME BackoffOutlastsValidation
  PROVE  Spec => LedgerRefined
<1>1. TypeInv /\ TxInv /\ ChainInv /\ PrevMined /\ [Next]_vars => PrevMined'
  BY PrevMinedNext
<1>2. Spec => []PrevMined
  BY <1>1, PrevMinedInit, TxInvariant, ChainInvariant, PTL DEF Spec
<1>3. TypeInv /\ TxInv /\ BatchInv /\ ChainInv /\ PrevMined /\ [Next]_vars
        => [Abstract!Next]_(Abstract!lvars)
  BY ImplementsNext
<1>4. Spec => Abstract!Init /\ [][Abstract!Next]_(Abstract!lvars)
  BY <1>2, <1>3, ImplementsInit, BatchInvariant, ChainInvariant, PTL DEF Spec
<1> QED
  BY <1>4 DEF LedgerRefined, Abstract!Spec
-----------------------------------------------------------------------------
(* The answers of the handler.  None of this needs the timing assumption.  *)

\* A request for b at s that waits, or gave up waiting, for a verdict.
Pending(s, b) ==
  \E p \in post : /\ p.to = s
                  /\ p.block = b
                  /\ p.status \in { "waiting", "timeout" }

\* Ledger l holds block b.
Holds(l, b) == \E i \in 1 .. Len(l) : l[i] = b

\* Block b is queued at s, or the block loop of s works on it.
AtLoop(s, b) ==
  \/ \E i \in 1 .. Len(incoming[s]) : incoming[s][i] = b
  \/ loopPC[s] # "recv" /\ task[s] = b

\* One request asks one server about one block; the requests whose blocks the
\* loop has not judged are pending; a block is before the loop once only.
RequestInv ==
  /\ \A p, q \in post : p.to = q.to /\ p.block = q.block => p = q
  /\ \A s \in Server : \A b \in Block :
       AtLoop(s, b) => Pending(s, b) /\ ~ Holds(ledger[s], b)
  /\ \A s \in Server :
       /\ \A i, j \in 1 .. Len(incoming[s]) :
            incoming[s][i] = incoming[s][j] => i = j
       /\ loopPC[s] # "recv" =>
            \A i \in 1 .. Len(incoming[s]) : incoming[s][i] # task[s]

AnswerInv == RequestInv /\ AnswersTruthful

\* What a request asks does not change; only its status does.
LEMMA SetStatusOne ==
  ASSUME TypeOK, NEW p \in post, NEW v \in PostStatus, SetStatus(p, v)
  PROVE  \E w : /\ w.to = p.to /\ w.block = p.block /\ w.status = v
                /\ post' = (post \ {p}) \cup {w}
<1>1. p \in Post
  BY DEF TypeOK
<1> DEFINE w == [p EXCEPT !.status = v]
<1>2. w.to = p.to /\ w.block = p.block /\ w.status = v
  BY <1>1 DEF Post
<1>3. post' = (post \ {p}) \cup {w}
  BY DEF SetStatus
<1> QED
  BY <1>2, <1>3

\* A request that changes its status leaves no second one, and takes nobody
\* else's pending request away.
LEMMA SetStatusRequests ==
  ASSUME TypeOK, NEW p \in post, NEW v \in PostStatus, SetStatus(p, v),
         \A q, r \in post : q.to = r.to /\ q.block = r.block => q = r
  PROVE  /\ \A q, r \in post' : q.to = r.to /\ q.block = r.block => q = r
         /\ \A s, b : /\ Pending(s, b)
                      /\ \/ v \in { "waiting", "timeout" }
                         \/ s # p.to
                         \/ b # p.block
                    => Pending(s, b)'
<1>1. PICK w : /\ w.to = p.to /\ w.block = p.block /\ w.status = v
               /\ post' = (post \ {p}) \cup {w}
  BY SetStatusOne
<1>2. ASSUME NEW q \in post', NEW r \in post', q.to = r.to, q.block = r.block
      PROVE  q = r
  BY <1>1, <1>2
<1>3. ASSUME NEW s, NEW b, Pending(s, b),
             v \in { "waiting", "timeout" } \/ s # p.to \/ b # p.block
      PROVE  Pending(s, b)'
  <2>1. PICK q \in post : /\ q.to = s /\ q.block = b
                          /\ q.status \in { "waiting", "timeout" }
    BY <1>3 DEF Pending
  <2>2. CASE q = p
    <3>1. w \in post' /\ w.to = s /\ w.block = b /\ w.status \in { "waiting", "timeout" }
      BY <1>1, <1>3, <2>1, <2>2
    <3> QED
      BY <3>1 DEF Pending
  <2>3. CASE q # p
    <3>1. q \in post'
      BY <1>1, <2>3
    <3> QED
      BY <2>1, <3>1 DEF Pending
  <2> QED
    BY <2>2, <2>3
<1> QED
  BY <1>2, <1>3

\* The answers stay true if the new status is true and no other block of any
\* request came to a ledger.
LEMMA SetStatusTruthful ==
  ASSUME TypeOK, NEW p \in post, NEW v \in PostStatus, SetStatus(p, v),
         \A q, r \in post : q.to = r.to /\ q.block = r.block => q = r,
         AnswersTruthful,
         \A r \in Server : \A c \in Block :
           r # p.to \/ c # p.block => (Holds(ledger'[r], c) <=> Holds(ledger[r], c)),
         v = "accepted" => Holds(ledger'[p.to], p.block),
         v \notin { "accepted", "timeout" } => ~ Holds(ledger'[p.to], p.block)
  PROVE  AnswersTruthful'
<1>1. PICK w : /\ w.to = p.to /\ w.block = p.block /\ w.status = v
               /\ post' = (post \ {p}) \cup {w}
  BY SetStatusOne
<1>2. ASSUME NEW q \in post'
      PROVE  /\ q.status = "accepted" /\ q.to \notin Mortal => Holds(ledger'[q.to], q.block)
             /\ q.status \notin { "accepted", "timeout" } => ~ Holds(ledger'[q.to], q.block)
  <2>1. CASE q = w
    BY <1>1, <2>1 DEF Holds
  <2>2. CASE q \in post /\ q # p
    <3>1. q.to \in Server /\ q.block \in Block /\ (q.to # p.to \/ q.block # p.block)
      BY <2>2 DEF TypeOK, Post
    <3>2. Holds(ledger'[q.to], q.block) <=> Holds(ledger[q.to], q.block)
      BY <3>1
    <3>3. InLedger(q) <=> Holds(ledger[q.to], q.block)
      BY DEF InLedger, Holds
    <3>4. /\ q.status = "accepted" /\ q.to \notin Mortal => InLedger(q)
          /\ q.status \notin { "accepted", "timeout" } => ~ InLedger(q)
      BY <2>2 DEF AnswersTruthful
    <3> QED
      BY <3>2, <3>3, <3>4
  <2> QED
    BY <1>1, <2>1, <2>2
<1> QED
  BY <1>2 DEF AnswersTruthful, InLedger, Holds

\* The verdict goes to the one request that waits for it, or to nobody.
LEMMA OnFinishOne ==
  ASSUME TypeOK, NEW p \in post, NEW v,
         OnFinish(p.to, p.block, v),
         \A q, r \in post : q.to = r.to /\ q.block = r.block => q = r
  PROVE  IF p.status = "waiting" THEN SetStatus(p, v) ELSE post' = post
<1> DEFINE Verdict(q) == IF q.to = p.to /\ q.block = p.block /\ q.status = "waiting"
                         THEN [q EXCEPT !.status = v] ELSE q
<1>1. post' = { Verdict(q) : q \in post }
  BY DEF OnFinish
<1>2. \A q \in post : q # p => Verdict(q) = q
  OBVIOUS
<1>3. CASE p.status = "waiting"
  <2>1. Verdict(p) = [p EXCEPT !.status = v]
    BY <1>3
  <2> HIDE DEF Verdict
  <2>2. post' = (post \ {p}) \cup { [p EXCEPT !.status = v] }
    <3>1. \A q \in post' : q \in post \ {p} \/ q = [p EXCEPT !.status = v]
      BY <1>1, <1>2, <2>1
    <3>2. \A q \in post \ {p} : q \in post'
      BY <1>1, <1>2
    <3>3. [p EXCEPT !.status = v] \in post'
      BY <1>1, <2>1
    <3> QED
      BY <3>1, <3>2, <3>3
  <2> QED
    BY <1>3, <2>2 DEF SetStatus
<1>4. CASE p.status # "waiting"
  <2>1. Verdict(p) = p
    BY <1>4
  <2> HIDE DEF Verdict
  <2>2. post' = post
    BY <1>1, <1>2, <2>1
  <2> QED
    BY <1>4, <2>2
<1> QED
  BY <1>3, <1>4

\* What AddBlock does to what the ledgers hold.
LEMMA AddBlockHolds ==
  ASSUME TypeOK, NEW s \in Server, NEW b \in Block, AddBlock(s, b)
  PROVE  \A r \in Server : \A c :
           Holds(ledger'[r], c) <=> Holds(ledger[r], c) \/ (r = s /\ c = b)
<1>1. /\ ledger'[s] = Append(ledger[s], b)
      /\ \A r \in Server \ {s} : ledger'[r] = ledger[r]
  BY AddBlockLedger
<1>2. /\ Len(ledger'[s]) = Len(ledger[s]) + 1 /\ Len(ledger[s]) \in Nat
      /\ \A i \in 1 .. Len(ledger[s]) : ledger'[s][i] = ledger[s][i]
      /\ ledger'[s][Len(ledger[s]) + 1] = b
  BY <1>1, AppendBlock DEF TypeOK
<1>3. \A i : i \in 1 .. Len(ledger'[s])
               <=> i \in 1 .. Len(ledger[s]) \/ i = Len(ledger[s]) + 1
  BY <1>2
<1>4. ASSUME NEW c PROVE Holds(ledger'[s], c) <=> Holds(ledger[s], c) \/ c = b
  BY <1>2, <1>3 DEF Holds
<1> QED
  BY <1>1, <1>4

\* The block loop is done with its block: the request that asked for it, if it
\* still waits, gets the verdict, which is true.
LEMMA LoopDone ==
  ASSUME TypeOK, AnswerInv, NEW s \in Server, loopPC[s] # "recv",
         NEW verdict \in { "accepted", "rejected" },
         OnFinish(s, task[s], verdict), LoopIdles(s), UNCHANGED incoming,
         \A r \in Server : \A c \in Block :
           r # s \/ c # task[s] => (Holds(ledger'[r], c) <=> Holds(ledger[r], c)),
         verdict = "accepted" <=> Holds(ledger'[s], task[s])
  PROVE  AnswerInv'
<1> DEFINE b == task[s]
<1>0. b \in Block /\ AtLoop(s, b) /\ verdict \in PostStatus
  BY DEF TypeOK, AtLoop, PostStatus
<1>1. \A q, r \in post : q.to = r.to /\ q.block = r.block => q = r
  BY DEF AnswerInv, RequestInv
<1>2. Pending(s, b) /\ ~ Holds(ledger[s], b)
  BY <1>0 DEF AnswerInv, RequestInv
<1>3. PICK p \in post : /\ p.to = s /\ p.block = b
                        /\ p.status \in { "waiting", "timeout" }
  BY <1>2 DEF Pending
<1>4. OnFinish(p.to, p.block, verdict)
  BY <1>3
<1>5. IF p.status = "waiting" THEN SetStatus(p, verdict) ELSE post' = post
  BY <1>1, <1>4, OnFinishOne
<1>6. /\ loopPC'[s] = "recv" /\ \A r \in Server \ {s} : loopPC'[r] = loopPC[r]
      /\ \A r \in Server \ {s} : task'[r] = task[r]
      /\ incoming' = incoming
  BY DEF LoopIdles, TypeOK
<1>7. ASSUME NEW r \in Server, NEW c \in Block, AtLoop(r, c)'
      PROVE  AtLoop(r, c) /\ (r # s \/ c # b)
  <2>1. CASE r = s
    <3>1. PICK i \in 1 .. Len(incoming[s]) : incoming[s][i] = c
      BY <1>6, <1>7, <2>1 DEF AtLoop
    <3>2. incoming[s][i] # b
      BY DEF AnswerInv, RequestInv
    <3> QED
      BY <2>1, <3>1, <3>2 DEF AtLoop
  <2>2. CASE r # s
    BY <1>6, <1>7, <2>2 DEF AtLoop
  <2> QED
    BY <2>1, <2>2
<1>8. ASSUME NEW r \in Server, NEW c \in Block, AtLoop(r, c)'
      PROVE  ~ Holds(ledger'[r], c)
  <2>1. AtLoop(r, c) /\ (r # s \/ c # b)
    BY <1>7, <1>8
  <2>2. ~ Holds(ledger[r], c)
    BY <2>1 DEF AnswerInv, RequestInv
  <2> QED
    BY <2>1, <2>2
<1>9. \A r \in Server :
        /\ \A i, j \in 1 .. Len(incoming'[r]) :
             incoming'[r][i] = incoming'[r][j] => i = j
        /\ loopPC'[r] # "recv" =>
             \A i \in 1 .. Len(incoming'[r]) : incoming'[r][i] # task'[r]
  BY <1>6 DEF AnswerInv, RequestInv
<1>10. ASSUME NEW r \in Server, NEW c \in Block, AtLoop(r, c)'
       PROVE  Pending(r, c)
  BY <1>7, <1>10 DEF AnswerInv, RequestInv
<1>11. CASE p.status = "waiting"
  <2>1. SetStatus(p, verdict)
    BY <1>5, <1>11
  <2>2. /\ \A q, r \in post' : q.to = r.to /\ q.block = r.block => q = r
        /\ \A r, c : Pending(r, c) /\ (r # p.to \/ c # p.block) => Pending(r, c)'
    BY <1>0, <1>1, <2>1, SetStatusRequests
  <2>3. \A r \in Server : \A c \in Block :
          AtLoop(r, c)' => Pending(r, c)' /\ ~ Holds(ledger'[r], c)
    BY <1>3, <1>7, <1>8, <1>10, <2>2
  <2>4. AnswersTruthful'
    <3>1. AnswersTruthful
      BY DEF AnswerInv
    <3> QED
      BY <1>0, <1>1, <1>3, <2>1, <3>1, SetStatusTruthful
  <2> QED
    BY <1>9, <2>2, <2>3, <2>4 DEF AnswerInv, RequestInv
<1>12. CASE p.status = "timeout"
  <2>1. post' = post
    BY <1>5, <1>12
  <2>2. \A r \in Server : \A c \in Block :
          AtLoop(r, c)' => Pending(r, c)' /\ ~ Holds(ledger'[r], c)
    BY <1>8, <1>10, <2>1 DEF Pending
  <2>3. ASSUME NEW q \in post
        PROVE  /\ q.status = "accepted" /\ q.to \notin Mortal => Holds(ledger'[q.to], q.block)
               /\ q.status \notin { "accepted", "timeout" }
                    => ~ Holds(ledger'[q.to], q.block)
    <3>1. CASE q = p
      BY <1>12, <3>1
    <3>2. CASE q # p
      <4>1. q.to \in Server /\ q.block \in Block /\ (q.to # s \/ q.block # b)
        BY <1>1, <1>3, <3>2 DEF TypeOK, Post
      <4>2. Holds(ledger'[q.to], q.block) <=> Holds(ledger[q.to], q.block)
        BY <4>1
      <4>3. /\ q.status = "accepted" /\ q.to \notin Mortal => InLedger(q)
            /\ q.status \notin { "accepted", "timeout" } => ~ InLedger(q)
        BY DEF AnswerInv, AnswersTruthful
      <4> QED
        BY <4>2, <4>3 DEF InLedger, Holds
    <3> QED
      BY <3>1, <3>2
  <2>4. AnswersTruthful'
    BY <2>1, <2>3 DEF AnswersTruthful, InLedger, Holds
  <2> QED
    BY <1>1, <1>9, <2>1, <2>2, <2>4 DEF AnswerInv, RequestInv
<1> QED
  BY <1>3, <1>11, <1>12

\* A step that takes no block off the way and leaves requests and ledgers alone.
LEMMA AnswerQuiet ==
  ASSUME AnswerInv, UNCHANGED <<ledger, post, incoming, task>>,
         \A s \in Server : loopPC'[s] # "recv" => loopPC[s] # "recv"
  PROVE  AnswerInv'
<1>1. \A s \in Server : \A b \in Block : AtLoop(s, b)' => AtLoop(s, b)
  BY DEF AtLoop
<1>2. \A s \in Server : \A b \in Block :
        AtLoop(s, b)' => Pending(s, b)' /\ ~ Holds(ledger'[s], b)
  BY <1>1 DEF AnswerInv, RequestInv, Pending
<1>3. AnswersTruthful'
  BY DEF AnswerInv, AnswersTruthful, InLedger
<1>4. \A s \in Server :
        /\ \A i, j \in 1 .. Len(incoming'[s]) :
             incoming'[s][i] = incoming'[s][j] => i = j
        /\ loopPC'[s] # "recv" =>
             \A i \in 1 .. Len(incoming'[s]) : incoming'[s][i] # task'[s]
  BY DEF AnswerInv, RequestInv
<1>5. \A p, q \in post' : p.to = q.to /\ p.block = q.block => p = q
  BY DEF AnswerInv, RequestInv
<1> QED
  BY <1>2, <1>3, <1>4, <1>5 DEF AnswerInv, RequestInv

\* A handler answers without a verdict: the block was on the way and is in no
\* ledger, or the handler gives up waiting.
LEMMA AnswerWithout ==
  ASSUME TypeOK, AnswerInv, NEW p \in post, NEW v \in PostStatus,
         SetStatus(p, v), UNCHANGED <<ledger, incoming, task, loopPC>>,
         \/ p.status = "sent" /\ v \in { "full", "lost" }
         \/ v = "timeout"
  PROVE  AnswerInv'
<1>1. \A q, r \in post : q.to = r.to /\ q.block = r.block => q = r
  BY DEF AnswerInv, RequestInv
<1>2. p.to \in Server /\ p.block \in Block
  BY DEF TypeOK, Post
<1>3. AnswersTruthful /\ (v # "timeout" => ~ Holds(ledger'[p.to], p.block))
  BY DEF AnswerInv, AnswersTruthful, InLedger, Holds
<1>4. AnswersTruthful'
  BY <1>1, <1>3, SetStatusTruthful
<1>5. \A s \in Server : \A b \in Block : AtLoop(s, b)' => AtLoop(s, b)
  BY DEF AtLoop
<1>6. ASSUME NEW s \in Server, NEW b \in Block, AtLoop(s, b)'
      PROVE  Pending(s, b)' /\ ~ Holds(ledger'[s], b)
  <2>1. Pending(s, b) /\ ~ Holds(ledger[s], b)
    BY <1>5, <1>6 DEF AnswerInv, RequestInv
  <2>2. p.status = "sent" => s # p.to \/ b # p.block
    BY <1>1, <2>1 DEF Pending
  <2>3. Pending(s, b)'
    BY <1>1, <2>1, <2>2, SetStatusRequests
  <2> QED
    BY <2>1, <2>3
<1>7. \A q, r \in post' : q.to = r.to /\ q.block = r.block => q = r
  BY <1>1, SetStatusRequests
<1>8. \A s \in Server :
        /\ \A i, j \in 1 .. Len(incoming'[s]) :
             incoming'[s][i] = incoming'[s][j] => i = j
        /\ loopPC'[s] # "recv" =>
             \A i \in 1 .. Len(incoming'[s]) : incoming'[s][i] # task'[s]
  BY DEF AnswerInv, RequestInv
<1> QED
  BY <1>4, <1>6, <1>7, <1>8 DEF AnswerInv, RequestInv

\* A handler queues its block: it was not queued before.
LEMMA AnswerQueue ==
  ASSUME TypeOK, AnswerInv, NEW p \in post, QueueBlock(p)
  PROVE  AnswerInv'
<1> DEFINE s == p.to
           b == p.block
           q == incoming[s]
<1>1. /\ p.status = "sent" /\ SetStatus(p, "waiting")
      /\ UNCHANGED <<ledger, task, loopPC>> /\ "waiting" \in PostStatus
  BY DEF QueueBlock, PostStatus
<1>2. s \in Server /\ b \in Block /\ q \in Seq(Block)
  BY DEF TypeOK, Post
<1>3. /\ incoming'[s] = Append(q, b)
      /\ \A r \in Server \ {s} : incoming'[r] = incoming[r]
  BY <1>2 DEF QueueBlock, TypeOK
<1>4. /\ Len(q) \in Nat /\ Len(incoming'[s]) = Len(q) + 1
      /\ \A i \in 1 .. Len(q) : incoming'[s][i] = q[i]
      /\ incoming'[s][Len(q) + 1] = b
  BY <1>2, <1>3, AppendBlock
<1>5. \A r, t \in post : r.to = t.to /\ r.block = t.block => r = t
  BY DEF AnswerInv, RequestInv
<1>6. ~ Holds(ledger[s], b) /\ AnswersTruthful
  BY <1>1 DEF AnswerInv, AnswersTruthful, InLedger, Holds
<1>7. ~ AtLoop(s, b)
  <2>1. ~ Pending(s, b)
    BY <1>1, <1>5 DEF Pending
  <2> QED
    BY <1>2, <2>1 DEF AnswerInv, RequestInv
<1>8. ASSUME NEW r \in Server, NEW c \in Block, AtLoop(r, c)'
      PROVE  AtLoop(r, c) \/ (r = s /\ c = b)
  <2>1. CASE r = s
    <3>1. CASE loopPC[s] # "recv" /\ task[s] = c
      BY <2>1, <3>1 DEF AtLoop
    <3>2. CASE \E i \in 1 .. Len(incoming'[s]) : incoming'[s][i] = c
      <4>1. PICK i \in 1 .. Len(incoming'[s]) : incoming'[s][i] = c
        BY <3>2
      <4>2. i \in 1 .. Len(q) \/ i = Len(q) + 1
        BY <1>4
      <4> QED
        BY <1>4, <2>1, <4>1, <4>2 DEF AtLoop
    <3> QED
      BY <1>1, <1>8, <2>1, <3>1, <3>2 DEF AtLoop
  <2>2. CASE r # s
    BY <1>1, <1>3, <1>8, <2>2 DEF AtLoop
  <2> QED
    BY <2>1, <2>2
<1>9. Pending(s, b)'
  <2>1. PICK w : /\ w.to = p.to /\ w.block = p.block /\ w.status = "waiting"
                 /\ post' = (post \ {p}) \cup {w}
    BY <1>1, SetStatusOne
  <2>2. w \in post'
    BY <2>1
  <2> QED
    BY <2>1, <2>2 DEF Pending
<1>10. ASSUME NEW r \in Server, NEW c \in Block, AtLoop(r, c)'
       PROVE  Pending(r, c)' /\ ~ Holds(ledger'[r], c)
  <2>1. CASE r = s /\ c = b
    BY <1>1, <1>6, <1>9, <2>1
  <2>2. CASE AtLoop(r, c)
    <3>1. Pending(r, c) /\ ~ Holds(ledger[r], c)
      BY <2>2 DEF AnswerInv, RequestInv
    <3>2. Pending(r, c)'
      BY <1>1, <1>5, <3>1, SetStatusRequests
    <3> QED
      BY <1>1, <3>1, <3>2
  <2> QED
    BY <1>8, <1>10, <2>1, <2>2
<1>11. \A r, t \in post' : r.to = t.to /\ r.block = t.block => r = t
  BY <1>1, <1>5, SetStatusRequests
<1>12. AnswersTruthful'
  BY <1>1, <1>5, <1>6, SetStatusTruthful
<1>13. ASSUME NEW r \in Server
       PROVE  /\ \A i, j \in 1 .. Len(incoming'[r]) :
                   incoming'[r][i] = incoming'[r][j] => i = j
              /\ loopPC'[r] # "recv" =>
                   \A i \in 1 .. Len(incoming'[r]) : incoming'[r][i] # task'[r]
  <2>1. CASE r # s
    BY <1>1, <1>3, <2>1 DEF AnswerInv, RequestInv
  <2>2. CASE r = s
    <3>1. \A i \in 1 .. Len(q) : q[i] # b
      BY <1>7 DEF AtLoop
    <3>2. loopPC[s] # "recv" => task[s] # b
      BY <1>7 DEF AtLoop
    <3>3. /\ \A i, j \in 1 .. Len(q) : q[i] = q[j] => i = j
          /\ loopPC[s] # "recv" => \A i \in 1 .. Len(q) : q[i] # task[s]
      BY <1>2 DEF AnswerInv, RequestInv
    <3>4. \A i \in 1 .. Len(incoming'[s]) : i \in 1 .. Len(q) \/ i = Len(q) + 1
      BY <1>4
    <3>5. \A i, j \in 1 .. Len(incoming'[s]) :
            incoming'[s][i] = incoming'[s][j] => i = j
      BY <1>4, <3>1, <3>3, <3>4
    <3>6. loopPC'[s] # "recv" =>
            \A i \in 1 .. Len(incoming'[s]) : incoming'[s][i] # task'[s]
      BY <1>1, <1>4, <3>2, <3>3, <3>4
    <3> QED
      BY <2>2, <3>5, <3>6
  <2> QED
    BY <2>1, <2>2
<1> QED
  BY <1>10, <1>11, <1>12, <1>13 DEF AnswerInv, RequestInv

\* The loop takes the first block of the queue.
LEMMA AnswerReceive ==
  ASSUME TypeOK, AnswerInv, NEW s \in Server, LoopReceives(s)
  PROVE  AnswerInv'
<1> DEFINE q == incoming[s]
<1>1. /\ q \in Seq(Block) /\ q # << >>
      /\ task'[s] = Head(q) /\ incoming'[s] = Tail(q)
      /\ \A r \in Server \ {s} : /\ task'[r] = task[r]
                                 /\ incoming'[r] = incoming[r]
                                 /\ loopPC'[r] = loopPC[r]
      /\ UNCHANGED <<ledger, post>>
  BY DEF LoopReceives, TypeOK
<1>2. /\ Head(q) = q[1] /\ Len(q) \in Nat /\ Len(q) >= 1
      /\ Len(Tail(q)) = Len(q) - 1
      /\ \A i \in 1 .. Len(Tail(q)) : Tail(q)[i] = q[i + 1]
  BY <1>1, HeadTailProperties
<1>3. 1 \in 1 .. Len(q) /\ \A i \in 1 .. Len(Tail(q)) : i + 1 \in 1 .. Len(q)
  BY <1>2
<1>4. ASSUME NEW r \in Server, NEW c \in Block, AtLoop(r, c)'
      PROVE  AtLoop(r, c)
  <2>1. CASE r # s
    BY <1>1, <1>4, <2>1 DEF AtLoop
  <2>2. CASE r = s
    <3>1. c = Head(q) \/ \E i \in 1 .. Len(Tail(q)) : Tail(q)[i] = c
      BY <1>1, <1>4, <2>2 DEF AtLoop
    <3> QED
      BY <1>2, <1>3, <2>2, <3>1 DEF AtLoop
  <2> QED
    BY <2>1, <2>2
<1>5. \A r \in Server : \A c \in Block :
        AtLoop(r, c)' => Pending(r, c)' /\ ~ Holds(ledger'[r], c)
  BY <1>1, <1>4 DEF AnswerInv, RequestInv, Pending
<1>6. ASSUME NEW r \in Server
      PROVE  /\ \A i, j \in 1 .. Len(incoming'[r]) :
                  incoming'[r][i] = incoming'[r][j] => i = j
             /\ loopPC'[r] # "recv" =>
                  \A i \in 1 .. Len(incoming'[r]) : incoming'[r][i] # task'[r]
  <2>1. CASE r # s
    BY <1>1, <2>1 DEF AnswerInv, RequestInv
  <2>2. CASE r = s
    <3>1. \A i, j \in 1 .. Len(q) : q[i] = q[j] => i = j
      BY DEF AnswerInv, RequestInv
    <3>2. ASSUME NEW i \in 1 .. Len(Tail(q)), NEW j \in 1 .. Len(Tail(q)),
                 Tail(q)[i] = Tail(q)[j]
          PROVE  i = j
      <4>1. PICK k \in 1 .. Len(q), h \in 1 .. Len(q) : k = i + 1 /\ h = j + 1
        BY <1>3
      <4>2. q[k] = q[h]
        BY <1>2, <3>2, <4>1
      <4>3. k = h
        BY <3>1, <4>2
      <4> QED
        BY <4>1, <4>3
    <3>3. \A i \in 1 .. Len(Tail(q)) : i + 1 # 1
      BY <1>2
    <3>4. \A i \in 1 .. Len(Tail(q)) : Tail(q)[i] # Head(q)
      BY <1>2, <1>3, <3>1, <3>3
    <3> HIDE DEF q
    <3>5. incoming'[r] = Tail(q) /\ task'[r] = Head(q)
      BY <1>1, <2>2
    <3> QED
      BY <3>2, <3>4, <3>5
  <2> QED
    BY <2>1, <2>2
<1>7. AnswersTruthful' /\ \A p, r \in post' : p.to = r.to /\ p.block = r.block => p = r
  BY <1>1 DEF AnswerInv, RequestInv, AnswersTruthful, InLedger
<1> QED
  BY <1>5, <1>6, <1>7 DEF AnswerInv, RequestInv

\* A mined block is new: no request has asked about it, no ledger has it.
LEMMA AnswerMine ==
  ASSUME TypeInv, TxInv, BatchInv, AnswerInv, NEW s \in Server, MinerAppends(s)
  PROVE  AnswerInv'
<1> DEFINE b == candidate[s]
           news == { [to |-> r, block |-> b, status |-> "sent"] : r \in Server \ {s} }
<1>0. TypeOK /\ b \in Block
  BY DEF TypeInv, TypeOK
<1>1. b \notin mined
  BY CandidateIsNew DEF MinerAppends
<1>2. /\ AddBlock(s, b)
      /\ post' = post \cup news
      /\ UNCHANGED <<incoming, task, loopPC>>
  BY DEF MinerAppends
<1>3. \A p \in post : p.block # b /\ p.to \in Server
  BY <1>0, <1>1 DEF TxInv, TypeOK, Post
<1>4. \A r \in Server : ~ Holds(ledger[r], b)
  BY <1>1 DEF TxInv, Holds
<1>5. \A r \in Server : \A c :
        Holds(ledger'[r], c) <=> Holds(ledger[r], c) \/ (r = s /\ c = b)
  BY <1>0, <1>2, AddBlockHolds
<1>6. \A p \in news : /\ p.to \in Server \ {s} /\ p.block = b /\ p.status = "sent"
                      /\ p = [to |-> p.to, block |-> b, status |-> "sent"]
  OBVIOUS
<1>7. \A p, q \in post' : p.to = q.to /\ p.block = q.block => p = q
  <2>1. \A p, q \in post : p.to = q.to /\ p.block = q.block => p = q
    BY DEF AnswerInv, RequestInv
  <2>2. \A p, q \in news : p.to = q.to => p = q
    BY <1>6
  <2> QED
    BY <1>2, <1>3, <1>6, <2>1, <2>2
<1>8. ASSUME NEW r \in Server, NEW c \in Block, AtLoop(r, c)'
      PROVE  Pending(r, c)' /\ ~ Holds(ledger'[r], c)
  <2>1. AtLoop(r, c)
    BY <1>2, <1>8 DEF AtLoop
  <2>2. c # b
    BY <1>1, <2>1 DEF AtLoop, TxInv
  <2>3. Pending(r, c) /\ ~ Holds(ledger[r], c)
    BY <2>1 DEF AnswerInv, RequestInv
  <2>4. Pending(r, c)'
    BY <1>2, <2>3 DEF Pending
  <2> QED
    BY <1>5, <2>2, <2>3, <2>4
<1>9. ASSUME NEW p \in post'
      PROVE  /\ p.status = "accepted" /\ p.to \notin Mortal => Holds(ledger'[p.to], p.block)
             /\ p.status \notin { "accepted", "timeout" }
                  => ~ Holds(ledger'[p.to], p.block)
  <2>1. CASE p \in post
    <3>1. Holds(ledger'[p.to], p.block) <=> Holds(ledger[p.to], p.block)
      BY <1>3, <1>5, <2>1
    <3>2. /\ p.status = "accepted" /\ p.to \notin Mortal => InLedger(p)
          /\ p.status \notin { "accepted", "timeout" } => ~ InLedger(p)
      BY <2>1 DEF AnswerInv, AnswersTruthful
    <3> QED
      BY <3>1, <3>2 DEF InLedger, Holds
  <2>2. CASE p \in news
    BY <1>4, <1>5, <1>6, <2>2
  <2> QED
    BY <1>2, <2>1, <2>2
<1>10. AnswersTruthful'
  BY <1>9 DEF AnswersTruthful, InLedger, Holds
<1>11. \A r \in Server :
         /\ \A i, j \in 1 .. Len(incoming'[r]) :
              incoming'[r][i] = incoming'[r][j] => i = j
         /\ loopPC'[r] # "recv" =>
              \A i \in 1 .. Len(incoming'[r]) : incoming'[r][i] # task'[r]
  BY <1>2 DEF AnswerInv, RequestInv
<1> QED
  BY <1>7, <1>8, <1>10, <1>11 DEF AnswerInv, RequestInv

\* Nobody is asked about the genesis, which every server has.
NotGenesis == \A p \in post : p.block # Genesis

LEMMA NotGenesisNext ==
  ASSUME TypeInv, TxInv, BatchInv, NotGenesis, [Next]_vars
  PROVE  NotGenesis'
<1>0. TypeOK
  BY DEF TypeInv
<1>1. ASSUME \A q \in post' : \E p \in post : q.block = p.block PROVE NotGenesis'
  BY <1>1 DEF NotGenesis
<1>2. CASE UNCHANGED post
  BY <1>2 DEF NotGenesis
<1>3. ASSUME NEW s \in Server,
             \/ AddTransaction(s) \/ MineStart(s) \/ TryNonce(s) \/ NonceMisses(s)
             \/ MinerWakes(s) \/ LoopReceives(s) \/ CancelMining(s) \/ LoopChecks(s)
      PROVE  UNCHANGED post
  BY <1>3 DEF AddTransaction, MineStart, TryNonce, NonceMisses, MinerWakes,
              LoopReceives, CancelMining, LoopChecks
<1>4. ASSUME NEW s \in Server, MinerAppends(s) PROVE NotGenesis'
  <2>1. candidate[s] \notin mined /\ Genesis \in mined
    BY <1>4, CandidateIsNew DEF MinerAppends, TxInv
  <2>2. \A q \in post' : q \in post \/ q.block = candidate[s]
    BY <1>4 DEF MinerAppends
  <2> QED
    BY <2>1, <2>2 DEF NotGenesis
<1>5. ASSUME NEW s \in Server, LoopRejects(s) \/ LoopAppends(s) \/ CrashRestart(s)
      PROVE  \A q \in post' : \E p \in post : q.block = p.block
  <2>1. CASE LoopRejects(s) \/ LoopAppends(s)
    BY <1>0, <2>1, OnFinishBlocks DEF LoopRejects, LoopAppends
  <2>2. CASE CrashRestart(s)
    <3>1. \A p \in post : [p EXCEPT !.status = "lost"].block = p.block
      BY <1>0, StatusKeepsBlock DEF TypeOK
    <3> QED
      BY <2>2, <3>1 DEF CrashRestart
  <2> QED
    BY <1>5, <2>1, <2>2
<1>6. ASSUME NEW p \in post, Handler(p)
      PROVE  \A q \in post' : \E o \in post : q.block = o.block
  BY <1>0, <1>6, SetStatusBlocks
     DEF Handler, QueueBlock, QueueFull, HandlerTimeout, LosePost
<1> QED
  BY <1>1, <1>2, <1>3, <1>4, <1>5, <1>6 DEF Next, Miner, Loop, vars

\* A server that crashes forgets the blocks it had before it, and the requests that
\* waited for it are lost.
LEMMA AnswerCrash ==
  ASSUME TypeOK, NotGenesis, AnswerInv, NEW s \in Server, CrashRestart(s)
  PROVE  AnswerInv'
<1> DEFINE Lost(p) == IF p.to = s /\ p.status = "waiting"
                      THEN [p EXCEPT !.status = "lost"] ELSE p
<1>1. /\ post' = { Lost(p) : p \in post }
      /\ ledger'[s] = << Genesis >> /\ incoming'[s] = << >> /\ loopPC'[s] = "recv"
      /\ \A r \in Server \ {s} : /\ ledger'[r] = ledger[r]
                                 /\ incoming'[r] = incoming[r]
                                 /\ loopPC'[r] = loopPC[r]
                                 /\ task'[r] = task[r]
      /\ s \in Mortal
  BY DEF CrashRestart, TypeOK
<1>2. \A p \in post : /\ Lost(p).to = p.to /\ Lost(p).block = p.block
                      /\ p.to # s => Lost(p) = p
                      /\ Lost(p).status = p.status
                           \/ (Lost(p).status = "lost" /\ p.status = "waiting")
  BY DEF TypeOK, Post
<1> HIDE DEF Lost
<1>3. \A p, q \in post' : p.to = q.to /\ p.block = q.block => p = q
  BY <1>1, <1>2 DEF AnswerInv, RequestInv
<1>4. \A b : ~ AtLoop(s, b)'
  BY <1>1 DEF AtLoop
<1>5. ASSUME NEW r \in Server, NEW b \in Block, AtLoop(r, b)'
      PROVE  Pending(r, b)' /\ ~ Holds(ledger'[r], b)
  <2>1. r # s /\ AtLoop(r, b)
    BY <1>1, <1>4, <1>5 DEF AtLoop
  <2>2. Pending(r, b) /\ ~ Holds(ledger[r], b)
    BY <2>1 DEF AnswerInv, RequestInv
  <2>3. PICK p \in post : /\ p.to = r /\ p.block = b
                          /\ p.status \in { "waiting", "timeout" }
    BY <2>2 DEF Pending
  <2>4. p \in post'
    BY <1>1, <1>2, <2>1, <2>3
  <2> QED
    BY <1>1, <2>1, <2>2, <2>3, <2>4 DEF Pending
<1>6. \A r \in Server :
        /\ \A i, j \in 1 .. Len(incoming'[r]) :
             incoming'[r][i] = incoming'[r][j] => i = j
        /\ loopPC'[r] # "recv" =>
             \A i \in 1 .. Len(incoming'[r]) : incoming'[r][i] # task'[r]
  BY <1>1 DEF AnswerInv, RequestInv
<1>7. \A b : Holds(ledger'[s], b) => b = Genesis
  BY <1>1 DEF Holds
<1>8. ASSUME NEW q \in post'
      PROVE  /\ q.status = "accepted" /\ q.to \notin Mortal => Holds(ledger'[q.to], q.block)
             /\ q.status \notin { "accepted", "timeout" } => ~ Holds(ledger'[q.to], q.block)
  <2>1. PICK p \in post : q = Lost(p)
    BY <1>1
  <2>2. /\ p.status = "accepted" /\ p.to \notin Mortal => Holds(ledger[p.to], p.block)
        /\ p.status \notin { "accepted", "timeout" } => ~ Holds(ledger[p.to], p.block)
        /\ p.block # Genesis /\ p.to \in Server
    BY DEF AnswerInv, AnswersTruthful, InLedger, Holds, NotGenesis, TypeOK, Post
  <2>3. CASE p.to = s
    BY <1>1, <1>2, <1>7, <2>1, <2>2, <2>3
  <2>4. CASE p.to # s
    BY <1>1, <1>2, <2>1, <2>2, <2>4
  <2> QED
    BY <2>3, <2>4
<1>9. AnswersTruthful'
  BY <1>8 DEF AnswersTruthful, InLedger, Holds
<1> QED
  BY <1>3, <1>5, <1>6, <1>9 DEF AnswerInv, RequestInv

\* Every step preserves AnswerInv.
LEMMA AnswerNext ==
  ASSUME TypeInv, TxInv, BatchInv, NotGenesis, AnswerInv, [Next]_vars
  PROVE  AnswerInv'
<1>0. TypeOK
  BY DEF TypeInv
<1>1. ASSUME NEW s \in Server,
             \/ AddTransaction(s) \/ MineStart(s) \/ TryNonce(s)
             \/ NonceMisses(s) \/ MinerWakes(s)
      PROVE  AnswerInv'
  <2>1. UNCHANGED <<ledger, post, incoming, task, loopPC>>
    BY <1>1 DEF AddTransaction, MineStart, TryNonce, NonceMisses, MinerWakes
  <2> QED
    BY <2>1, AnswerQuiet
<1>2. ASSUME NEW s \in Server, CancelMining(s) \/ LoopChecks(s) PROVE AnswerInv'
  <2>1. /\ UNCHANGED <<ledger, post, incoming, task>>
        /\ loopPC[s] # "recv"
        /\ \A r \in Server \ {s} : loopPC'[r] = loopPC[r]
    BY <1>0, <1>2 DEF CancelMining, LoopChecks, TypeOK
  <2> QED
    BY <2>1, AnswerQuiet
<1>3. ASSUME NEW s \in Server, MinerAppends(s) PROVE AnswerInv'
  BY <1>3, AnswerMine
<1>4. ASSUME NEW p \in post, QueueBlock(p) PROVE AnswerInv'
  BY <1>0, <1>4, AnswerQueue
<1>5. ASSUME NEW p \in post, QueueFull(p) \/ LosePost(p) PROVE AnswerInv'
  BY <1>0, <1>5, AnswerWithout DEF QueueFull, LosePost, PostStatus
<1>6. ASSUME NEW p \in post, HandlerTimeout(p) PROVE AnswerInv'
  BY <1>0, <1>6, AnswerWithout DEF HandlerTimeout, PostStatus
<1>7. ASSUME NEW s \in Server, LoopReceives(s) PROVE AnswerInv'
  BY <1>0, <1>7, AnswerReceive
<1>8. ASSUME NEW s \in Server, LoopRejects(s) PROVE AnswerInv'
  <2>1. loopPC[s] # "recv" /\ task[s] \in Block /\ UNCHANGED <<ledger, incoming>>
    BY <1>0, <1>8 DEF LoopRejects, TypeOK
  <2>2. ~ Holds(ledger'[s], task[s])
    BY <2>1 DEF AnswerInv, RequestInv, AtLoop
  <2> QED
    BY <1>0, <1>8, <2>1, <2>2, LoopDone DEF LoopRejects
<1>9. ASSUME NEW s \in Server, LoopAppends(s) PROVE AnswerInv'
  <2>1. loopPC[s] # "recv" /\ task[s] \in Block /\ UNCHANGED incoming
    BY <1>0, <1>9 DEF LoopAppends, TypeOK
  <2>2. \A r \in Server : \A c :
          Holds(ledger'[r], c) <=> Holds(ledger[r], c) \/ (r = s /\ c = task[s])
    BY <1>0, <1>9, <2>1, AddBlockHolds DEF LoopAppends
  <2> QED
    BY <1>0, <1>9, <2>1, <2>2, LoopDone DEF LoopAppends
<1>10. ASSUME NEW s \in Server, CrashRestart(s) PROVE AnswerInv'
  BY <1>0, <1>10, AnswerCrash
<1>11. CASE UNCHANGED vars
  BY <1>11, AnswerQuiet DEF vars
<1> QED
  BY <1>1, <1>2, <1>3, <1>4, <1>5, <1>6, <1>7, <1>8, <1>9, <1>10, <1>11
     DEF Next, Miner, Loop, Handler

\* What handleReceiveBlock answers is true, however long validations take,
\* whatever is lost and however many blocks wait: 200 means appended; 406, 503
\* and no answer mean not appended, crashes included.
THEOREM AnswersAreTruthful == Spec => []AnswersTruthful
<1>1. Init => NotGenesis /\ AnswerInv
  BY DEF Init, NotGenesis, AnswerInv, RequestInv, AnswersTruthful, AtLoop
<1>2. TypeInv /\ TxInv /\ BatchInv /\ NotGenesis /\ AnswerInv /\ [Next]_vars
        => NotGenesis' /\ AnswerInv'
  BY NotGenesisNext, AnswerNext
<1>3. AnswerInv => AnswersTruthful
  BY DEF AnswerInv
<1> QED
  BY <1>1, <1>2, <1>3, BatchInvariant, PTL DEF Spec
=============================================================================
