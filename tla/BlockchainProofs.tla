-------------------------- MODULE BlockchainProofs --------------------------
(***************************************************************************)
(* Proofs about Blockchain, for any set of servers, any bounds on          *)
(* transactions, batches and queues, and with or without lost blocks and   *)
(* crashes.                                                                *)
(*                                                                         *)
(* Type correctness holds as it is.  That every ledger is linked needs the *)
(* timing assumption (BackoffOutlastsValidation) and the invariant         *)
(* ChainInv: the miner and the block loop both append to the ledger, only  *)
(* the loop compares hashes, and it does so without the mutex.             *)
(***************************************************************************)
EXTENDS Blockchain, SequenceTheorems, TLAPS

USE ChainAssumption

-----------------------------------------------------------------------------
(* Ledgers, tips and hashes.                                               *)

\* A ledger has a tip with a hash, unless it is empty.
LEMMA TipHashType ==
  ASSUME NEW l \in Seq(Block), l # << >>
  PROVE  TipHash(l) \in Hash
<1>1. Len(l) \in 1 .. Len(l)
  OBVIOUS
<1>2. l[Len(l)] \in Block
  BY <1>1, ElementOfSeq
<1> QED
  BY <1>2 DEF TipHash, HashOf, Block, Hash

\* What Append does to a ledger: the blocks before stay, the new one is the tip.
LEMMA AppendBlock ==
  ASSUME NEW l \in Seq(Block), NEW b \in Block
  PROVE  /\ Append(l, b) \in Seq(Block)
         /\ Append(l, b) # << >>
         /\ Len(Append(l, b)) = Len(l) + 1
         /\ \A i \in 1 .. Len(l) : Append(l, b)[i] = l[i]
         /\ Append(l, b)[Len(l) + 1] = b
         /\ TipHash(Append(l, b)) = HashOf(b)
BY AppendProperties DEF TipHash

\* A block that fits on the tip of a ledger that commits to its past keeps it
\* so: this is what the comparison of PreviousHash buys.
LEMMA CommittedAppend ==
  ASSUME NEW l \in Seq(Block), NEW b \in Block,
         Committed(l), CheckNewBlock(l, b)
  PROVE  Committed(Append(l, b))
<1> DEFINE n == Len(l)
           m == Append(l, b)
<1>1. /\ m \in Seq(Block) /\ m # << >> /\ Len(m) = n + 1
      /\ \A i \in 1 .. n : m[i] = l[i]
      /\ m[n + 1] = b
  BY AppendBlock
<1>2. n \in Nat /\ n >= 1
  BY DEF Committed
<1>3. l[n] \in Block
  BY <1>2, ElementOfSeq
<1>4. l[n].prev \in Seq(SUBSET Tx) /\ l[n].txs \in SUBSET Tx
  BY <1>3 DEF Block, Hash
<1>5. b.prev = Append(l[n].prev, l[n].txs)
  BY DEF CheckNewBlock, TipHash, HashOf
<1>6. Len(l[n].prev) = n - 1
  <2>1. n \in 1 .. Len(l)
    BY <1>2
  <2> QED
    BY <2>1 DEF Committed
<1>7. Len(b.prev) = n /\ b.prev[n] = l[n].txs
  BY <1>2, <1>4, <1>5, <1>6, AppendProperties
<1>8. ASSUME NEW j \in 1 .. n - 1 PROVE b.prev[j] = l[j].txs
  <2>1. b.prev[j] = l[n].prev[j]
    BY <1>2, <1>4, <1>5, <1>6, AppendProperties
  <2> QED
    BY <2>1, <1>2 DEF Committed
<1>9. ASSUME NEW i \in 1 .. Len(m)
      PROVE  /\ Len(m[i].prev) = i - 1
             /\ \A j \in 1 .. i - 1 : m[i].prev[j] = m[j].txs
  <2>1. CASE i <= n
    <3>1. i \in 1 .. n /\ m[i] = l[i] /\ \A j \in 1 .. i - 1 : m[j] = l[j]
      BY <1>1, <1>2, <2>1
    <3> QED
      BY <3>1 DEF Committed
  <2>2. CASE i = n + 1
    <3>1. \A j \in 1 .. n : b.prev[j] = m[j].txs
      BY <1>1, <1>2, <1>7, <1>8
    <3> QED
      BY <1>1, <1>2, <1>7, <2>2, <3>1
  <2> QED
    BY <1>1, <1>2, <2>1, <2>2
<1>10. m[1] = Genesis
  BY <1>1, <1>2 DEF Committed
<1> QED
  BY <1>1, <1>9, <1>10 DEF Committed
-----------------------------------------------------------------------------
(* Type correctness.                                                       *)

\* Ledgers have the genesis at least, so that there is always a tip.
TypeInv == TypeOK /\ \A s \in Server : ledger[s] # << >>

\* A request that changes its status is still a request.
LEMMA SetStatusType ==
  ASSUME TypeOK, NEW p \in post, NEW status \in PostStatus, SetStatus(p, status)
  PROVE  post' \subseteq Post
BY DEF TypeOK, SetStatus, Post

\* Verdicts turn requests into answered requests.
LEMMA OnFinishType ==
  ASSUME TypeOK, NEW s \in Server, NEW b \in Block,
         NEW verdict \in { "accepted", "rejected" }, OnFinish(s, b, verdict)
  PROVE  post' \subseteq Post
<1>1. post \subseteq Post
  BY DEF TypeOK
<1>2. ASSUME NEW p \in post PROVE [p EXCEPT !.status = verdict] \in Post
  BY <1>1 DEF Post, PostStatus
<1> QED
  BY <1>1, <1>2 DEF OnFinish

\* AddBlock keeps ledgers ledgers and mempools mempools.
LEMMA AddBlockType ==
  ASSUME TypeInv, NEW s \in Server, NEW b \in Block, AddBlock(s, b)
  PROVE  /\ ledger' \in [Server -> Seq(Block)]
         /\ mpool' \in [Server -> SUBSET Tx]
         /\ \A r \in Server : ledger'[r] # << >>
<1>1. ledger[s] \in Seq(Block)
  BY DEF TypeInv, TypeOK
<1>2. Append(ledger[s], b) \in Seq(Block) /\ Append(ledger[s], b) # << >>
  BY <1>1, AppendBlock
<1> QED
  BY <1>2 DEF AddBlock, TypeInv, TypeOK

\* The initial state is well typed.
LEMMA TypeInit == Init => TypeInv
<1>1. Genesis \in Block
  BY DEF Genesis, Block, Hash
<1>2. << Genesis >> \in Seq(Block) /\ << Genesis >> # << >>
  BY <1>1
<1> QED
  BY <1>1, <1>2 DEF Init, TypeInv, TypeOK, NoBlock, MinerState, LoopState

\* Every step keeps the state well typed.
LEMMA TypeNext == TypeInv /\ [Next]_vars => TypeInv'
<1> SUFFICES ASSUME TypeInv, [Next]_vars PROVE TypeInv'
  OBVIOUS
<1> USE DEF TypeInv
<1>0. Genesis \in Block
  BY DEF Genesis, Block, Hash
<1>1. ASSUME NEW s \in Server, AddTransaction(s) PROVE TypeInv'
  <2>1. Len(accepted) + 1 \in Tx /\ accepted' \in Seq(Server) /\ Len(accepted') <= MaxTx
    BY <1>1 DEF AddTransaction, TypeOK, Tx
  <2> QED
    BY <1>1, <2>1 DEF AddTransaction, TypeOK
<1>2. ASSUME NEW s \in Server, MineStart(s) PROVE TypeInv'
  <2>1. TipHash(ledger[s]) \in Hash
    BY TipHashType DEF TypeOK
  <2>2. Batch(mpool[s]) \in SUBSET Tx
    BY DEF TypeOK, Batch
  <2>3. candidate' \in [Server -> Block]
    BY <1>2, <2>1, <2>2 DEF MineStart, TypeOK, Block
  <2> QED
    BY <1>2, <2>3 DEF MineStart, TypeOK, MinerState
<1>3. ASSUME NEW s \in Server, TryNonce(s) PROVE TypeInv'
  BY <1>3 DEF TryNonce, TypeOK, MinerState
<1>4. ASSUME NEW s \in Server, NonceMisses(s) PROVE TypeInv'
  BY <1>4 DEF NonceMisses, TypeOK, MinerState
<1>5. ASSUME NEW s \in Server, MinerAppends(s) PROVE TypeInv'
  <2>1. candidate[s] \in Block
    BY DEF TypeOK
  <2>2. AddBlock(s, candidate[s])
    BY <1>5 DEF MinerAppends
  <2>3. /\ ledger' \in [Server -> Seq(Block)]
        /\ mpool' \in [Server -> SUBSET Tx]
        /\ \A r \in Server : ledger'[r] # << >>
    BY <2>1, <2>2, AddBlockType
  <2>4. post' \subseteq Post
    BY <1>5, <2>1 DEF MinerAppends, TypeOK, Post, PostStatus
  <2> QED
    BY <1>0, <1>5, <2>1, <2>3, <2>4 DEF MinerAppends, TypeOK, MinerState, NoBlock
<1>6. ASSUME NEW s \in Server, MinerWakes(s) PROVE TypeInv'
  BY <1>6 DEF MinerWakes, TypeOK, MinerState
<1>7. ASSUME NEW p \in post, QueueBlock(p) PROVE TypeInv'
  <2>1. p.to \in Server /\ p.block \in Block
    BY DEF TypeOK, Post
  <2>2. post' \subseteq Post
    BY <1>7, SetStatusType DEF QueueBlock, PostStatus
  <2>3. incoming[p.to] \in Seq(Block)
    BY <2>1 DEF TypeOK
  <2>4. /\ Append(incoming[p.to], p.block) \in Seq(Block)
        /\ Len(Append(incoming[p.to], p.block)) <= QueueCap
    BY <1>7, <2>1, <2>3, AppendProperties DEF QueueBlock
  <2>5. /\ incoming' \in [Server -> Seq(Block)]
        /\ \A s \in Server : Len(incoming'[s]) <= QueueCap
    BY <1>7, <2>1, <2>4 DEF QueueBlock, TypeOK
  <2> QED
    BY <1>7, <2>2, <2>5 DEF QueueBlock, TypeOK
<1>8. ASSUME NEW p \in post, QueueFull(p) PROVE TypeInv'
  <2>1. post' \subseteq Post
    BY <1>8, SetStatusType DEF QueueFull, PostStatus
  <2> QED
    BY <1>8, <2>1 DEF QueueFull, TypeOK
<1>9. ASSUME NEW p \in post, HandlerTimeout(p) PROVE TypeInv'
  <2>1. post' \subseteq Post
    BY <1>9, SetStatusType DEF HandlerTimeout, PostStatus
  <2> QED
    BY <1>9, <2>1 DEF HandlerTimeout, TypeOK
<1>10. ASSUME NEW p \in post, LosePost(p) PROVE TypeInv'
  <2>1. post' \subseteq Post
    BY <1>10, SetStatusType DEF LosePost, PostStatus
  <2> QED
    BY <1>10, <2>1 DEF LosePost, TypeOK
<1>11. ASSUME NEW s \in Server, LoopReceives(s) PROVE TypeInv'
  <2>1. incoming[s] \in Seq(Block) /\ incoming[s] # << >>
    BY <1>11 DEF LoopReceives, TypeOK
  <2>2. /\ Head(incoming[s]) \in Block
        /\ Tail(incoming[s]) \in Seq(Block)
        /\ Len(Tail(incoming[s])) <= QueueCap
    BY <2>1, HeadTailProperties DEF TypeOK
  <2> QED
    BY <1>11, <2>2 DEF LoopReceives, TypeOK, LoopState
<1>12. ASSUME NEW s \in Server, CancelMining(s) PROVE TypeInv'
  BY <1>0, <1>12 DEF CancelMining, TypeOK, LoopState, MinerState, NoBlock
<1>13. ASSUME NEW s \in Server, LoopRejects(s) PROVE TypeInv'
  <2>1. task[s] \in Block
    BY DEF TypeOK
  <2>2. post' \subseteq Post
    BY <1>13, <2>1, OnFinishType DEF LoopRejects
  <2> QED
    BY <1>0, <1>13, <2>2 DEF LoopRejects, LoopIdles, TypeOK, LoopState, NoBlock
<1>14. ASSUME NEW s \in Server, LoopChecks(s) PROVE TypeInv'
  BY <1>14 DEF LoopChecks, TypeOK, LoopState
<1>15. ASSUME NEW s \in Server, LoopAppends(s) PROVE TypeInv'
  <2>1. task[s] \in Block
    BY DEF TypeOK
  <2>2. /\ AddBlock(s, task[s])
        /\ OnFinish(s, task[s], "accepted")
    BY <1>15 DEF LoopAppends
  <2>3. /\ ledger' \in [Server -> Seq(Block)]
        /\ mpool' \in [Server -> SUBSET Tx]
        /\ \A r \in Server : ledger'[r] # << >>
    BY <2>1, <2>2, AddBlockType
  <2>4. post' \subseteq Post
    BY <2>1, <2>2, OnFinishType
  <2> QED
    BY <1>0, <1>15, <2>3, <2>4
       DEF LoopAppends, LoopIdles, TypeOK, LoopState, NoBlock
<1>16. ASSUME NEW s \in Server, CrashRestart(s) PROVE TypeInv'
  <2>1. << Genesis >> \in Seq(Block) /\ << Genesis >> # << >>
    BY <1>0
  <2>2. /\ ledger' \in [Server -> Seq(Block)]
        /\ \A r \in Server : ledger'[r] # << >>
    BY <1>16, <2>1 DEF CrashRestart, TypeOK
  <2>3. post' \subseteq Post
    <3>1. post \subseteq Post
      BY DEF TypeOK
    <3>2. ASSUME NEW p \in post PROVE [p EXCEPT !.status = "lost"] \in Post
      BY <3>1 DEF Post, PostStatus
    <3> QED
      BY <1>16, <3>1, <3>2 DEF CrashRestart
  <2>4. /\ incoming' \in [Server -> Seq(Block)]
        /\ \A r \in Server : Len(incoming'[r]) <= QueueCap
    BY <1>16 DEF CrashRestart, TypeOK
  <2> QED
    BY <1>0, <1>16, <2>2, <2>3, <2>4
       DEF CrashRestart, TypeOK, LoopState, MinerState, NoBlock
<1>17. CASE UNCHANGED vars
  BY <1>17 DEF vars, TypeOK
<1> QED
  BY <1>1, <1>2, <1>3, <1>4, <1>5, <1>6, <1>7, <1>8, <1>9, <1>10, <1>11,
     <1>12, <1>13, <1>14, <1>15, <1>16, <1>17
     DEF Next, Miner, Loop, Handler

\* In every behaviour the state is well typed; in particular the queue of
\* incoming blocks never holds more than it has room for.
THEOREM TypeCorrect == Spec => []TypeOK
<1>1. TypeInv => TypeOK
  BY DEF TypeInv
<1> QED
  BY <1>1, TypeInit, TypeNext, PTL DEF Spec
-----------------------------------------------------------------------------
(* The ledgers.                                                            *)

\* What AddBlock does to the ledgers: one of them gets one block longer.
LEMMA AddBlockLedger ==
  ASSUME TypeOK, NEW s \in Server, NEW b \in Block, AddBlock(s, b)
  PROVE  /\ ledger'[s] = Append(ledger[s], b)
         /\ TipHash(ledger'[s]) = HashOf(b)
         /\ \A r \in Server \ {s} : ledger'[r] = ledger[r]
<1>1. ledger[s] \in Seq(Block)
  BY DEF TypeOK
<1>2. TipHash(Append(ledger[s], b)) = HashOf(b)
  BY <1>1, AppendBlock
<1> QED
  BY <1>2 DEF AddBlock, TypeOK

\* A ledger that is just the genesis commits to its (empty) past.
LEMMA CommittedGenesis == Committed(<< Genesis >>)
BY DEF Committed, Genesis

LEMMA ChainInit == Init => ChainInv
<1> SUFFICES ASSUME Init PROVE ChainInv
  OBVIOUS
<1>1. TypeOK
  BY TypeInit DEF TypeInv
<1>2. \A s \in Server : Committed(ledger[s])
  BY CommittedGenesis DEF Init
<1> QED
  BY <1>1, <1>2
     DEF Init, ChainInv, ValidationExclusive, MinerOnTip, TaskOnTip

\* If the miner's backoff outlasts a validation, every step preserves ChainInv.
LEMMA ChainNext ==
  ASSUME BackoffOutlastsValidation, ChainInv, [Next]_vars
  PROVE  ChainInv'
<1> USE DEF ValidationExclusive, MinerOnTip, TaskOnTip, CheckNewBlock
<1>0. TypeOK /\ TypeOK'
  BY TypeNext DEF ChainInv, Committed, TypeInv
<1>1. ASSUME NEW s \in Server, AddTransaction(s) PROVE ChainInv'
  BY <1>0, <1>1 DEF AddTransaction, ChainInv
<1>2. ASSUME NEW s \in Server, MineStart(s) PROVE ChainInv'
  <2>1. candidate'[s].prev = TipHash(ledger[s])
    BY <1>0, <1>2 DEF MineStart, TypeOK
  <2>2. MinerOnTip'
    BY <1>0, <1>2, <2>1 DEF MineStart, TypeOK, ChainInv
  <2>3. ValidationExclusive'
    BY <1>0, <1>2 DEF MineStart, TypeOK, ChainInv
  <2> QED
    BY <1>0, <1>2, <2>2, <2>3 DEF MineStart, ChainInv
<1>3. ASSUME NEW s \in Server, TryNonce(s) PROVE ChainInv'
  BY <1>0, <1>3 DEF TryNonce, TypeOK, ChainInv
<1>4. ASSUME NEW s \in Server, NonceMisses(s) PROVE ChainInv'
  BY <1>0, <1>4 DEF NonceMisses, TypeOK, ChainInv
<1>5. ASSUME NEW s \in Server, MinerAppends(s) PROVE ChainInv'
  <2>1. candidate[s] \in Block /\ ledger[s] \in Seq(Block)
    BY <1>0 DEF TypeOK
  <2>2. CheckNewBlock(ledger[s], candidate[s])
    BY <1>5 DEF MinerAppends, ChainInv
  <2>3. loopPC[s] \notin { "check", "add" }
    BY <1>5 DEF MinerAppends, ChainInv
  <2>4. /\ ledger'[s] = Append(ledger[s], candidate[s])
        /\ \A r \in Server \ {s} : ledger'[r] = ledger[r]
    BY <1>0, <1>5, <2>1, AddBlockLedger DEF MinerAppends
  <2>5. \A r \in Server : Committed(ledger'[r])
    BY <2>1, <2>2, <2>4, CommittedAppend DEF ChainInv
  <2>6. ValidationExclusive' /\ TaskOnTip' /\ MinerOnTip'
    BY <1>0, <1>5, <2>3, <2>4 DEF MinerAppends, TypeOK, ChainInv
  <2> QED
    BY <1>0, <2>5, <2>6 DEF ChainInv
<1>6. ASSUME NEW s \in Server, MinerWakes(s) PROVE ChainInv'
  BY <1>0, <1>6 DEF MinerWakes, TypeOK, ChainInv
<1>7. ASSUME NEW p \in post, Handler(p) PROVE ChainInv'
  BY <1>0, <1>7
     DEF Handler, QueueBlock, QueueFull, HandlerTimeout, LosePost, ChainInv
<1>8. ASSUME NEW s \in Server, LoopReceives(s) PROVE ChainInv'
  BY <1>0, <1>8 DEF LoopReceives, TypeOK, ChainInv
<1>9. ASSUME NEW s \in Server, CancelMining(s) PROVE ChainInv'
  BY <1>0, <1>9 DEF CancelMining, TypeOK, ChainInv
<1>10. ASSUME NEW s \in Server, LoopRejects(s) PROVE ChainInv'
  BY <1>0, <1>10 DEF LoopRejects, LoopIdles, TypeOK, ChainInv
<1>11. ASSUME NEW s \in Server, LoopChecks(s) PROVE ChainInv'
  BY <1>0, <1>11 DEF LoopChecks, TypeOK, ChainInv
<1>12. ASSUME NEW s \in Server, LoopAppends(s) PROVE ChainInv'
  <2>1. task[s] \in Block /\ ledger[s] \in Seq(Block)
    BY <1>0 DEF TypeOK
  <2>2. CheckNewBlock(ledger[s], task[s])
    BY <1>12 DEF LoopAppends, ChainInv
  <2>3. minerPC[s] = "backoff"
    BY <1>12 DEF LoopAppends, ChainInv
  <2>4. /\ ledger'[s] = Append(ledger[s], task[s])
        /\ \A r \in Server \ {s} : ledger'[r] = ledger[r]
    BY <1>0, <1>12, <2>1, AddBlockLedger DEF LoopAppends
  <2>5. \A r \in Server : Committed(ledger'[r])
    BY <2>1, <2>2, <2>4, CommittedAppend DEF ChainInv
  <2>6. ValidationExclusive' /\ TaskOnTip' /\ MinerOnTip'
    BY <1>0, <1>12, <2>3, <2>4 DEF LoopAppends, LoopIdles, TypeOK, ChainInv
  <2> QED
    BY <1>0, <2>5, <2>6 DEF ChainInv
<1>13. ASSUME NEW s \in Server, CrashRestart(s) PROVE ChainInv'
  <2>1. /\ ledger'[s] = << Genesis >>
        /\ \A r \in Server \ {s} : ledger'[r] = ledger[r]
    BY <1>0, <1>13 DEF CrashRestart, TypeOK
  <2>2. \A r \in Server : Committed(ledger'[r])
    BY <2>1, CommittedGenesis DEF ChainInv
  <2>3. ValidationExclusive' /\ TaskOnTip' /\ MinerOnTip'
    BY <1>0, <1>13, <2>1 DEF CrashRestart, TypeOK, ChainInv
  <2> QED
    BY <1>0, <2>2, <2>3 DEF ChainInv
<1>14. CASE UNCHANGED vars
  BY <1>0, <1>14 DEF vars, ChainInv
<1> QED
  BY <1>1, <1>2, <1>3, <1>4, <1>5, <1>6, <1>7, <1>8, <1>9, <1>10, <1>11,
     <1>12, <1>13, <1>14
     DEF Next, Miner, Loop
\* In every behaviour the miner, the block loop and the ledgers agree.
LEMMA ChainInvariant ==
  ASSUME BackoffOutlastsValidation
  PROVE  Spec => []ChainInv
<1>1. ChainInv /\ [Next]_vars => ChainInv'
  BY ChainNext
<1> QED
  BY <1>1, ChainInit, PTL DEF Spec

\* CheckNewBlock and AddBlock run without the mutex between them, and still
\* nobody moves the tip in between: the miner is asleep.
THEOREM ValidationIsExclusive ==
  ASSUME BackoffOutlastsValidation
  PROVE  Spec => []ValidationExclusive
<1>1. ChainInv => ValidationExclusive
  BY DEF ChainInv
<1> QED
  BY <1>1, ChainInvariant, PTL

\* A block is cancelled before the ledger it was to extend moves on.
THEOREM MinerStaysOnTip ==
  ASSUME BackoffOutlastsValidation
  PROVE  Spec => []MinerOnTip
<1>1. ChainInv => MinerOnTip
  BY DEF ChainInv
<1> QED
  BY <1>1, ChainInvariant, PTL

\* The i-th hash of a ledger that commits to its past: the batches up to i.
LEMMA CommittedHash ==
  ASSUME NEW l \in Seq(Block), Committed(l), NEW i \in 1 .. Len(l)
  PROVE  /\ Len(HashOf(l[i])) = i
         /\ \A j \in 1 .. i : HashOf(l[i])[j] = l[j].txs
<1>1. l[i] \in Block
  BY ElementOfSeq
<1>2. l[i].prev \in Seq(SUBSET Tx) /\ l[i].txs \in SUBSET Tx
  BY <1>1 DEF Block, Hash
<1>3. Len(l[i].prev) = i - 1 /\ \A j \in 1 .. i - 1 : l[i].prev[j] = l[j].txs
  BY DEF Committed
<1> QED
  BY <1>2, <1>3, AppendProperties DEF HashOf

\* A ledger that commits to its past is linked: PreviousHash is the hash of
\* the block before.
LEMMA CommittedLinked ==
  ASSUME NEW l \in Seq(Block), Committed(l)
  PROVE  Linked(l)
<1>1. ASSUME NEW i \in 2 .. Len(l) PROVE l[i].prev = HashOf(l[i - 1])
  <2>1. i \in 1 .. Len(l) /\ i - 1 \in 1 .. Len(l)
    BY <1>1
  <2>2. l[i] \in Block /\ l[i - 1] \in Block
    BY <2>1, ElementOfSeq
  <2>3. l[i].prev \in Seq(SUBSET Tx) /\ HashOf(l[i - 1]) \in Seq(SUBSET Tx)
    BY <2>2 DEF Block, Hash, HashOf
  <2>4. /\ Len(l[i].prev) = i - 1
        /\ \A j \in 1 .. i - 1 : l[i].prev[j] = l[j].txs
    BY <2>1 DEF Committed
  <2>5. /\ Len(HashOf(l[i - 1])) = i - 1
        /\ \A j \in 1 .. i - 1 : HashOf(l[i - 1])[j] = l[j].txs
    BY <2>1, CommittedHash
  <2> QED
    BY <2>3, <2>4, <2>5, SeqEqual
<1> QED
  BY <1>1 DEF Committed, Linked

\* Every ledger is linked, whoever appended the blocks.
THEOREM LedgersAreLinked ==
  ASSUME BackoffOutlastsValidation
  PROVE  Spec => []LedgerLinked
<1>1. ChainInv => LedgerLinked
  BY CommittedLinked DEF ChainInv, TypeOK, LedgerLinked
<1> QED
  BY <1>1, ChainInvariant, PTL

\* Equal hashes, equal blocks: on ledgers that commit to their past a block is
\* its hash.
LEMMA CommittedBlock ==
  ASSUME NEW l \in Seq(Block), Committed(l), NEW k \in 1 .. Len(l),
         NEW m \in Seq(Block), Committed(m), k \in 1 .. Len(m),
         \A h \in 1 .. k : l[h].txs = m[h].txs
  PROVE  l[k] = m[k]
<1>1. l[k] \in Block /\ m[k] \in Block
  BY ElementOfSeq
<1>2. l[k].prev \in Seq(SUBSET Tx) /\ m[k].prev \in Seq(SUBSET Tx)
  BY <1>1 DEF Block, Hash
<1>3. /\ Len(l[k].prev) = k - 1 /\ Len(m[k].prev) = k - 1
      /\ \A h \in 1 .. k - 1 : l[k].prev[h] = l[h].txs /\ m[k].prev[h] = m[h].txs
  BY DEF Committed
<1>4. l[k].prev = m[k].prev
  <2>1. \A h \in 1 .. k - 1 : h \in 1 .. k
    OBVIOUS
  <2>2. \A h \in 1 .. Len(l[k].prev) : l[k].prev[h] = m[k].prev[h]
    BY <1>3, <2>1
  <2> QED
    BY <1>2, <1>3, <2>2, SeqEqual
<1>5. \A b \in Block : b = [prev |-> b.prev, txs |-> b.txs]
  BY DEF Block
<1>6. l[k].txs = m[k].txs
  OBVIOUS
<1> QED
  BY <1>1, <1>4, <1>5, <1>6

\* Two servers that share a block share every block before it, at the same
\* heights.
THEOREM SharedBlocksShareHistory ==
  ASSUME BackoffOutlastsValidation
  PROVE  Spec => []SharedBlockSharedHistory
<1>1. ChainInv => SharedBlockSharedHistory
  <2> SUFFICES ASSUME ChainInv,
                      NEW r \in Server, NEW s \in Server,
                      NEW i \in 1 .. Len(ledger[r]), NEW j \in 1 .. Len(ledger[s]),
                      HashOf(ledger[r][i]) = HashOf(ledger[s][j])
               PROVE  /\ i = j
                      /\ \A k \in 1 .. i : ledger[r][k] = ledger[s][k]
    BY DEF SharedBlockSharedHistory
  <2>1. /\ ledger[r] \in Seq(Block) /\ Committed(ledger[r])
        /\ ledger[s] \in Seq(Block) /\ Committed(ledger[s])
    BY DEF ChainInv, TypeOK
  <2>2. i = j
    BY <2>1, CommittedHash
  <2>3. \A h \in 1 .. i : ledger[r][h].txs = ledger[s][h].txs
    <3>1. \A h \in 1 .. i : HashOf(ledger[r][i])[h] = ledger[r][h].txs
      BY <2>1, CommittedHash
    <3>2. \A h \in 1 .. i : HashOf(ledger[s][i])[h] = ledger[s][h].txs
      BY <2>1, <2>2, CommittedHash
    <3> QED
      BY <3>1, <3>2, <2>2
  <2>4. ASSUME NEW k \in 1 .. i PROVE ledger[r][k] = ledger[s][k]
    <3>1. k \in 1 .. Len(ledger[r]) /\ k \in 1 .. Len(ledger[s])
      BY <2>2
    <3>2. \A h \in 1 .. k : ledger[r][h].txs = ledger[s][h].txs
      BY <2>3
    <3> QED
      BY <2>1, <3>1, <3>2, CommittedBlock
  <2> QED
    BY <2>2, <2>4
<1> QED
  BY <1>1, ChainInvariant, PTL
-----------------------------------------------------------------------------
(* The transactions.  None of this needs the timing assumption.            *)

\* The mempool of a server whose block loop appends a block loses nothing: the
\* block's transactions are another server's.
LEMMA ForeignBlock ==
  ASSUME TxInv, NEW s \in Server
  PROVE  mpool[s] \ task[s].txs = mpool[s]
BY DEF TxInv

\* A request keeps its block whatever becomes of it.
LEMMA StatusKeepsBlock ==
  ASSUME NEW p \in Post, NEW status
  PROVE  [p EXCEPT !.status = status].block = p.block
BY DEF Post

LEMMA SetStatusBlocks ==
  ASSUME TypeOK, NEW p \in post, NEW status, SetStatus(p, status)
  PROVE  \A q \in post' : \E r \in post : q.block = r.block
<1>1. [p EXCEPT !.status = status].block = p.block
  BY StatusKeepsBlock DEF TypeOK
<1> QED
  BY <1>1 DEF SetStatus

LEMMA OnFinishBlocks ==
  ASSUME TypeOK, NEW s, NEW b, NEW verdict, OnFinish(s, b, verdict)
  PROVE  \A q \in post' : \E r \in post : q.block = r.block
<1>1. \A p \in post : [p EXCEPT !.status = verdict].block = p.block
  BY StatusKeepsBlock DEF TypeOK
<1> QED
  BY <1>1 DEF OnFinish

LEMMA TxInit == Init => TxInv
<1> SUFFICES ASSUME Init PROVE TxInv
  OBVIOUS
<1>1. TypeOK
  BY TypeInit DEF TypeInv
<1>2. /\ Genesis \in mined
      /\ \A s \in Server : task[s] \in mined
      /\ \A s \in Server : \A i \in 1 .. Len(incoming[s]) : incoming[s][i] \in mined
  BY DEF Init, NoBlock
<1>3. \A s \in Server : \A i \in 1 .. Len(ledger[s]) : ledger[s][i] \in mined
  BY DEF Init
<1>4. /\ \A s \in Server : mpool[s] = {} /\ minerPC[s] = "poll"
      /\ post = {}
  BY DEF Init
<1>5. \A b \in mined : b.txs = {}
  BY DEF Init, Genesis
<1> QED
  BY <1>1, <1>2, <1>3, <1>4, <1>5 DEF TxInv, TxMinedOnce

\* Every step preserves TxInv.
LEMMA TxNext == TypeInv /\ TxInv /\ [Next]_vars => TxInv'
<1> SUFFICES ASSUME TypeInv, TxInv, [Next]_vars PROVE TxInv'
  OBVIOUS
<1> USE DEF TxMinedOnce
<1>0. TypeOK /\ TypeOK'
  BY TypeNext DEF TypeInv
<1>1. ASSUME NEW s \in Server, AddTransaction(s) PROVE TxInv'
  <2> DEFINE t == Len(accepted) + 1
  <2>1. /\ accepted' = Append(accepted, s)
        /\ mpool' = [mpool EXCEPT ![s] = @ \cup {t}]
    BY <1>1 DEF AddTransaction
  <2>2. accepted \in Seq(Server)
    BY <1>0 DEF TypeOK
  <2>3. /\ Len(accepted') = t
        /\ accepted'[t] = s
        /\ \A u \in 1 .. Len(accepted) : accepted'[u] = accepted[u]
    BY <2>1, <2>2, AppendProperties
  <2>4. \A b \in mined : \A u \in b.txs : u \in Nat /\ u <= Len(accepted)
    BY <1>0 DEF TxInv, TypeOK, Block, Tx
  <2>5. \A r \in Server : \A u \in mpool[r] : u \in 1 .. Len(accepted)
    BY <1>0, <2>2 DEF TxInv, TypeOK, Tx
  <2>6. ASSUME NEW r \in Server, NEW u \in mpool'[r]
        PROVE  /\ u <= Len(accepted') /\ accepted'[u] = r
               /\ \A b \in mined : u \notin b.txs
    <3>1. CASE u = t /\ r = s
      BY <2>2, <2>3, <2>4, <3>1
    <3>2. CASE u \in mpool[r]
      BY <2>2, <2>3, <2>5, <3>2 DEF TxInv
    <3> QED
      BY <1>0, <2>1, <2>6, <3>1, <3>2 DEF TypeOK
  <2>7. \A b \in mined : \A u \in b.txs : u <= Len(accepted')
    BY <2>2, <2>3, <2>4
  <2>8. \A r \in Server : mpool[r] \subseteq mpool'[r]
    BY <1>0, <2>1 DEF TypeOK
  <2> QED
    BY <1>0, <1>1, <2>6, <2>7, <2>8 DEF AddTransaction, TxInv
<1>2. ASSUME NEW s \in Server, MineStart(s) PROVE TxInv'
  <2>1. Batch(mpool[s]) \subseteq mpool[s]
    BY DEF Batch
  <2>2. candidate'[s].txs \subseteq mpool[s]
    BY <1>0, <1>2, <2>1 DEF MineStart, TypeOK
  <2>3. \A r \in Server : minerPC'[r] \in { "select", "hash" }
                            => candidate'[r].txs \subseteq mpool'[r]
    BY <1>0, <1>2, <2>2 DEF MineStart, TypeOK, TxInv
  <2> QED
    BY <1>0, <1>2, <2>3 DEF MineStart, TxInv
<1>3. ASSUME NEW s \in Server, TryNonce(s) \/ NonceMisses(s) PROVE TxInv'
  <2>1. \A r \in Server : minerPC'[r] \in { "select", "hash" }
                            => minerPC[r] \in { "select", "hash" }
    BY <1>0, <1>3 DEF TryNonce, NonceMisses, TypeOK
  <2>2. UNCHANGED <<accepted, mpool, ledger, candidate, task, incoming, post, mined>>
    BY <1>3 DEF TryNonce, NonceMisses
  <2> QED
    BY <1>0, <2>1, <2>2 DEF TxInv
<1>4. ASSUME NEW s \in Server, MinerAppends(s) PROVE TxInv'
  <2> DEFINE c == candidate[s]
  <2>1. /\ ledger' = [ledger EXCEPT ![s] = Append(@, c)]
        /\ mpool' = [mpool EXCEPT ![s] = @ \ c.txs]
        /\ mined' = mined \cup {c}
    BY <1>4 DEF MinerAppends, AddBlock
  <2>2. c \in Block /\ c.txs \subseteq mpool[s]
    BY <1>0, <1>4 DEF MinerAppends, TypeOK, TxInv
  <2>3. \A b \in mined' : \A t \in b.txs : t <= Len(accepted')
    BY <1>4, <2>1, <2>2 DEF MinerAppends, TxInv
  <2>4. ASSUME NEW r \in Server, NEW t \in mpool'[r]
        PROVE  /\ t \in mpool[r] /\ t <= Len(accepted') /\ accepted'[t] = r
               /\ \A b \in mined' : t \notin b.txs
    <3>1. t \in mpool[r] /\ (r = s => t \notin c.txs)
      BY <1>0, <2>1 DEF TypeOK
    <3>2. t \notin c.txs
      BY <2>2, <3>1 DEF TxInv
    <3> QED
      BY <1>4, <2>1, <3>1, <3>2 DEF MinerAppends, TxInv
  <2>5. TxMinedOnce'
    BY <2>1, <2>2 DEF TxInv
  <2>6. \A r \in Server : minerPC'[r] \in { "select", "hash" }
                            => candidate'[r].txs \subseteq mpool'[r]
    BY <1>0, <1>4, <2>1 DEF MinerAppends, TypeOK, TxInv
  <2>7. \A r \in Server : \A i \in 1 .. Len(ledger'[r]) : ledger'[r][i] \in mined'
    <3>1. \A r \in Server : ledger[r] \in Seq(Block)
      BY <1>0 DEF TypeOK
    <3>2. \A i \in 1 .. Len(Append(ledger[s], c)) : Append(ledger[s], c)[i] \in mined'
      BY <2>1, <2>2, <3>1, AppendBlock DEF TxInv
    <3> QED
      BY <1>0, <2>1, <3>2 DEF TypeOK, TxInv
  <2>8. \A p \in post' : p.block \in mined'
    BY <1>4, <2>1 DEF MinerAppends, TxInv
  <2>9. \A r \in Server : task'[r] \in mined'
    BY <1>4, <2>1 DEF MinerAppends, TxInv
  <2>10. \A r \in Server : \A i \in 1 .. Len(incoming'[r]) : incoming'[r][i] \in mined'
    BY <1>4, <2>1 DEF MinerAppends, TxInv
  <2>11. Genesis \in mined'
    BY <2>1 DEF TxInv
  <2> QED
    BY <1>0, <2>3, <2>4, <2>5, <2>6, <2>7, <2>8, <2>9, <2>10, <2>11 DEF TxInv
<1>5. ASSUME NEW s \in Server, MinerWakes(s) PROVE TxInv'
  BY <1>0, <1>5 DEF MinerWakes, TypeOK, TxInv
<1>6. ASSUME NEW p \in post, QueueBlock(p) PROVE TxInv'
  <2>1. p.to \in Server /\ p.block \in Block /\ p.block \in mined
    BY <1>0 DEF TypeOK, Post, TxInv
  <2>2. \A q \in post' : q.block \in mined
    BY <1>6, <1>0, SetStatusBlocks DEF QueueBlock, TxInv
  <2>3. incoming[p.to] \in Seq(Block)
    BY <1>0, <2>1 DEF TypeOK
  <2>4. \A i \in 1 .. Len(Append(incoming[p.to], p.block)) :
          Append(incoming[p.to], p.block)[i] \in mined
    BY <2>1, <2>3, AppendBlock DEF TxInv
  <2>5. incoming' = [incoming EXCEPT ![p.to] = Append(@, p.block)]
    BY <1>6 DEF QueueBlock
  <2>6. ASSUME NEW r \in Server
        PROVE  \A i \in 1 .. Len(incoming'[r]) : incoming'[r][i] \in mined
    <3>1. CASE r = p.to
      <4>1. incoming'[r] = Append(incoming[p.to], p.block)
        BY <1>0, <2>1, <2>5, <3>1 DEF TypeOK
      <4> QED
        BY <2>4, <4>1
    <3>2. CASE r # p.to
      <4>1. incoming'[r] = incoming[r]
        BY <1>0, <2>5, <3>2 DEF TypeOK
      <4> QED
        BY <4>1 DEF TxInv
    <3> QED
      BY <3>1, <3>2
  <2> QED
    BY <1>0, <1>6, <2>2, <2>6 DEF QueueBlock, TxInv
<1>7. ASSUME NEW p \in post, QueueFull(p) \/ HandlerTimeout(p) \/ LosePost(p)
      PROVE  TxInv'
  <2>1. \A q \in post' : q.block \in mined
    BY <1>7, <1>0, SetStatusBlocks DEF QueueFull, HandlerTimeout, LosePost, TxInv
  <2> QED
    BY <1>0, <1>7, <2>1 DEF QueueFull, HandlerTimeout, LosePost, TxInv
<1>8. ASSUME NEW s \in Server, LoopReceives(s) PROVE TxInv'
  <2> DEFINE q == incoming[s]
  <2>1. q \in Seq(Block) /\ q # << >>
    BY <1>0, <1>8 DEF LoopReceives, TypeOK
  <2>2. Head(q) \in mined /\ \A i \in 1 .. Len(Tail(q)) : Tail(q)[i] \in mined
    <3>1. /\ Head(q) = q[1]
          /\ Len(Tail(q)) = Len(q) - 1
          /\ \A i \in 1 .. Len(Tail(q)) : Tail(q)[i] = q[i + 1]
      BY <2>1, HeadTailProperties
    <3>2. Len(q) \in Nat /\ Len(q) >= 1
      BY <2>1
    <3>3. 1 \in 1 .. Len(q) /\ \A i \in 1 .. Len(Tail(q)) : i + 1 \in 1 .. Len(q)
      BY <3>1, <3>2
    <3> QED
      BY <3>1, <3>3 DEF TxInv
  <2>3. \A r \in Server : /\ task'[r] \in mined
                          /\ \A i \in 1 .. Len(incoming'[r]) : incoming'[r][i] \in mined
    BY <1>0, <1>8, <2>2 DEF LoopReceives, TypeOK, TxInv
  <2> QED
    BY <1>0, <1>8, <2>3 DEF LoopReceives, TxInv
<1>9. ASSUME NEW s \in Server, CancelMining(s) PROVE TxInv'
  BY <1>0, <1>9 DEF CancelMining, TypeOK, TxInv
<1>10. ASSUME NEW s \in Server, LoopRejects(s) PROVE TxInv'
  <2>1. \A q \in post' : q.block \in mined
    BY <1>0, <1>10, OnFinishBlocks DEF LoopRejects, TxInv
  <2> QED
    BY <1>0, <1>10, <2>1 DEF LoopRejects, LoopIdles, NoBlock, TypeOK, TxInv
<1>11. ASSUME NEW s \in Server, LoopChecks(s) PROVE TxInv'
  BY <1>0, <1>11 DEF LoopChecks, TypeOK, TxInv
<1>12. ASSUME NEW s \in Server, LoopAppends(s) PROVE TxInv'
  <2>1. /\ ledger' = [ledger EXCEPT ![s] = Append(@, task[s])]
        /\ mpool' = mpool
    BY <1>0, <1>12, ForeignBlock DEF LoopAppends, AddBlock, TypeOK
  <2>2. task[s] \in Block /\ task[s] \in mined /\ ledger[s] \in Seq(Block)
    BY <1>0 DEF TypeOK, TxInv
  <2>3. \A i \in 1 .. Len(Append(ledger[s], task[s])) :
          Append(ledger[s], task[s])[i] \in mined
    BY <2>2, AppendBlock DEF TxInv
  <2>4. \A r \in Server : \A i \in 1 .. Len(ledger'[r]) : ledger'[r][i] \in mined
    BY <1>0, <2>1, <2>3 DEF TypeOK, TxInv
  <2>5. \A q \in post' : q.block \in mined
    BY <1>0, <1>12, OnFinishBlocks DEF LoopAppends, TxInv
  <2> QED
    BY <1>0, <1>12, <2>1, <2>4, <2>5 DEF LoopAppends, LoopIdles, NoBlock, TypeOK, TxInv
<1>13. ASSUME NEW s \in Server, CrashRestart(s) PROVE TxInv'
  <2>1. \A q \in post' : q.block \in mined
    <3>1. \A p \in post : [p EXCEPT !.status = "lost"].block = p.block
      BY <1>0, StatusKeepsBlock DEF TypeOK
    <3>2. \A q \in post' : \E p \in post : q.block = p.block
      BY <1>13, <3>1 DEF CrashRestart
    <3> QED
      BY <3>2 DEF TxInv
  <2>2. /\ \A r \in Server : r # s => mpool'[r] = mpool[r]
        /\ mpool'[s] = {}
    BY <1>0, <1>13 DEF CrashRestart, TypeOK
  <2>3. \A r \in Server : \A i \in 1 .. Len(ledger'[r]) : ledger'[r][i] \in mined
    BY <1>0, <1>13 DEF CrashRestart, TypeOK, TxInv
  <2>4. \A r \in Server : \A i \in 1 .. Len(incoming'[r]) : incoming'[r][i] \in mined
    BY <1>0, <1>13 DEF CrashRestart, TypeOK, TxInv
  <2>5. \A r \in Server : /\ task'[r] \in mined
                          /\ minerPC'[r] \in { "select", "hash" }
                               => candidate'[r].txs \subseteq mpool'[r]
    BY <1>0, <1>13, <2>2 DEF CrashRestart, TypeOK, TxInv, NoBlock
  <2> QED
    BY <1>0, <1>13, <2>1, <2>2, <2>3, <2>4, <2>5 DEF CrashRestart, TxInv
<1>14. CASE UNCHANGED vars
  BY <1>0, <1>14 DEF vars, TxInv
<1> QED
  BY <1>1, <1>2, <1>3, <1>4, <1>5, <1>6, <1>7, <1>8, <1>9, <1>10, <1>11,
     <1>12, <1>13, <1>14
     DEF Next, Miner, Loop, Handler
LEMMA TxInvariant == Spec => [](TypeInv /\ TxInv)
<1>1. Init => TypeInv /\ TxInv
  BY TypeInit, TxInit
<1>2. TypeInv /\ TxInv /\ [Next]_vars => TypeInv' /\ TxInv'
  BY TypeNext, TxNext
<1> QED
  BY <1>1, <1>2, PTL DEF Spec

\* No transaction gets into two blocks, whatever is cancelled, lost or
\* restarted, and however slow validations are.
THEOREM TransactionsMinedOnce == Spec => []TxMinedOnce
<1>1. TxInv => TxMinedOnce
  BY DEF TxInv
<1> QED
  BY <1>1, TxInvariant, PTL

\* A block brings its transactions to a ledger.
LEMMA AppendTxs ==
  ASSUME NEW l \in Seq(Block), NEW b \in Block
  PROVE  LedgerTxs(Append(l, b)) = LedgerTxs(l) \cup b.txs
<1> DEFINE m == Append(l, b)
<1>1. /\ Len(m) = Len(l) + 1 /\ Len(l) \in Nat
      /\ \A i \in 1 .. Len(l) : m[i] = l[i]
      /\ m[Len(l) + 1] = b
  BY AppendBlock
<1>2. ASSUME NEW t \in LedgerTxs(m) PROVE t \in LedgerTxs(l) \cup b.txs
  <2>1. PICK i \in 1 .. Len(m) : t \in m[i].txs
    BY DEF LedgerTxs
  <2>2. CASE i \in 1 .. Len(l)
    BY <1>1, <2>1, <2>2 DEF LedgerTxs
  <2>3. CASE i = Len(l) + 1
    BY <1>1, <2>1, <2>3
  <2> QED
    BY <1>1, <2>2, <2>3
<1>3. ASSUME NEW t \in LedgerTxs(l) PROVE t \in LedgerTxs(m)
  <2>1. PICK i \in 1 .. Len(l) : t \in l[i].txs
    BY DEF LedgerTxs
  <2>2. i \in 1 .. Len(m) /\ t \in m[i].txs
    BY <1>1, <2>1
  <2> QED
    BY <2>2 DEF LedgerTxs
<1>4. b.txs \subseteq LedgerTxs(m)
  <2>1. Len(m) \in 1 .. Len(m) /\ m[Len(m)] = b
    BY <1>1
  <2> QED
    BY <2>1 DEF LedgerTxs
<1> QED
  BY <1>2, <1>3, <1>4

\* Whatever AddBlock takes out of the mempool is in the ledger afterwards.
LEMMA AddBlockKeepsTxs ==
  ASSUME TypeOK, NEW s \in Server, NEW b \in Block, AddBlock(s, b),
         NEW r \in Server, NEW t \in mpool[r] \cup LedgerTxs(ledger[r])
  PROVE  t \in mpool'[r] \cup LedgerTxs(ledger'[r])
<1>1. ledger[s] \in Seq(Block)
  BY DEF TypeOK
<1>2. CASE r = s
  <2>1. /\ ledger'[r] = Append(ledger[r], b)
        /\ mpool'[r] = mpool[r] \ b.txs
    BY <1>2 DEF AddBlock, TypeOK
  <2>2. LedgerTxs(ledger'[r]) = LedgerTxs(ledger[r]) \cup b.txs
    BY <1>1, <1>2, <2>1, AppendTxs
  <2> QED
    BY <2>1, <2>2
<1>3. CASE r # s
  BY <1>3 DEF AddBlock, TypeOK
<1> QED
  BY <1>2, <1>3

\* What a server that does not crash admitted it still has, pending or in its
\* ledger.
TxKept ==
  \A t \in 1 .. Len(accepted) : \A s \in Server \ Mortal :
    s = accepted[t] => t \in mpool[s] \cup LedgerTxs(ledger[s])

\* No step loses a transaction, but for crashes of the server that admitted it.
LEMMA TxKeptNext ==
  ASSUME TypeInv, TxKept, [Next]_vars
  PROVE  TxKept'
<1>0. TypeOK
  BY DEF TypeInv
<1>1. ASSUME NEW s \in Server, AddTransaction(s) PROVE TxKept'
  <2>1. /\ accepted' = Append(accepted, s)
        /\ mpool' = [mpool EXCEPT ![s] = @ \cup {Len(accepted) + 1}]
        /\ ledger' = ledger
    BY <1>1 DEF AddTransaction
  <2>2. /\ Len(accepted') = Len(accepted) + 1 /\ Len(accepted) \in Nat
        /\ accepted'[Len(accepted) + 1] = s
        /\ \A u \in 1 .. Len(accepted) : accepted'[u] = accepted[u]
    BY <1>0, <2>1, AppendProperties DEF TypeOK
  <2>3. /\ \A r \in Server : mpool[r] \subseteq mpool'[r]
        /\ Len(accepted) + 1 \in mpool'[s]
    BY <1>0, <2>1 DEF TypeOK
  <2> SUFFICES ASSUME NEW t \in 1 .. Len(accepted'),
                      NEW r \in Server \ Mortal, r = accepted'[t]
               PROVE  t \in mpool'[r] \cup LedgerTxs(ledger'[r])
    BY DEF TxKept
  <2>4. CASE t \in 1 .. Len(accepted)
    BY <2>1, <2>2, <2>3, <2>4 DEF TxKept
  <2>5. CASE t = Len(accepted) + 1
    BY <2>2, <2>3, <2>5
  <2> QED
    BY <2>2, <2>4, <2>5
<1>2. ASSUME NEW s \in Server, NEW b \in Block, AddBlock(s, b), UNCHANGED accepted
      PROVE  TxKept'
  BY <1>0, <1>2, AddBlockKeepsTxs DEF TxKept
<1>3. ASSUME NEW s \in Server, MinerAppends(s) PROVE TxKept'
  <2>1. candidate[s] \in Block
    BY <1>0 DEF TypeOK
  <2> QED
    BY <1>2, <1>3, <2>1 DEF MinerAppends
<1>4. ASSUME NEW s \in Server, LoopAppends(s) PROVE TxKept'
  <2>1. task[s] \in Block
    BY <1>0 DEF TypeOK
  <2> QED
    BY <1>2, <1>4, <2>1 DEF LoopAppends
<1>5. ASSUME UNCHANGED <<accepted, mpool, ledger>> PROVE TxKept'
  BY <1>5 DEF TxKept
<1>6. ASSUME NEW s \in Server,
             MineStart(s) \/ TryNonce(s) \/ NonceMisses(s) \/ MinerWakes(s)
      PROVE  TxKept'
  BY <1>5, <1>6 DEF MineStart, TryNonce, NonceMisses, MinerWakes
<1>7. ASSUME NEW s \in Server,
             LoopReceives(s) \/ CancelMining(s) \/ LoopRejects(s) \/ LoopChecks(s)
      PROVE  TxKept'
  BY <1>5, <1>7 DEF LoopReceives, CancelMining, LoopRejects, LoopChecks
<1>8. ASSUME NEW p \in post, Handler(p) PROVE TxKept'
  BY <1>5, <1>8 DEF Handler, QueueBlock, QueueFull, HandlerTimeout, LosePost
<1>9. ASSUME NEW s \in Server, CrashRestart(s) PROVE TxKept'
  <2>1. \A r \in Server \ Mortal : mpool'[r] = mpool[r] /\ ledger'[r] = ledger[r]
    BY <1>0, <1>9 DEF CrashRestart, TypeOK
  <2>2. accepted' = accepted
    BY <1>9 DEF CrashRestart
  <2> QED
    BY <2>1, <2>2 DEF TxKept
<1>10. CASE UNCHANGED vars
  BY <1>5, <1>10 DEF vars
<1> QED
  BY <1>1, <1>3, <1>4, <1>6, <1>7, <1>8, <1>9, <1>10 DEF Next, Miner, Loop

\* Servers that do not crash lose no transaction they admitted, whatever the others
\* do, and none is at the same time pending and in the ledger.
THEOREM TransactionsConserved == Spec => []TxConserved
<1>1. Init => TxKept
  BY DEF Init, TxKept
<1>2. TypeInv /\ TxKept /\ [Next]_vars => TxKept'
  BY TxKeptNext
<1>3. TxInv /\ TxKept => TxConserved
  <2> SUFFICES ASSUME TxInv, TxKept, NEW t \in 1 .. Len(accepted),
                      NEW s \in Server \ Mortal
               PROVE  IF s = accepted[t]
                      THEN t \in mpool[s] <=> t \notin LedgerTxs(ledger[s])
                      ELSE t \notin mpool[s]
    BY DEF TxConserved
  <2>1. t \in mpool[s] => s = accepted[t] /\ t \notin LedgerTxs(ledger[s])
    BY DEF TxInv, LedgerTxs
  <2>2. s = accepted[t] => t \in mpool[s] \/ t \in LedgerTxs(ledger[s])
    BY DEF TxKept
  <2> QED
    BY <2>1, <2>2
<1> QED
  BY <1>1, <1>2, <1>3, TxInvariant, PTL DEF Spec
=============================================================================
