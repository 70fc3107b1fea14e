----------------------------- MODULE Blockchain -----------------------------
(***************************************************************************)
(* The blockchain that the game servers keep between them.  Each server    *)
(* runs                                                                    *)
(*   - API handlers that admit transactions to the mempool (AddTransaction *)
(*     in internal/blockchain/blockchain.go);                              *)
(*   - a miner (server/miner.go, MineBlock, ProofOfWork.Run): takes a      *)
(*     prefix of the mempool, searches for a nonce, appends the block and  *)
(*     sends it to the other servers;                                      *)
(*   - handlers for blocks mined elsewhere (server/handlers_blockchain.go) *)
(*     that queue the block and wait for the verdict up to five seconds;   *)
(*   - the block loop (RunBlockchainLoop): takes a queued block, sends     *)
(*     Cancel to the miner over an UNBUFFERED channel (so it waits until   *)
(*     the miner is there to receive), checks the block and appends it.    *)
(*                                                                         *)
(* Abstractions.                                                           *)
(*  - A transaction is the number of its admission: uuid.New() is fresh,   *)
(*    so the n-th AddTransaction anywhere gets identifier n, and the order *)
(*    of the MPool slice is the numerical order of its elements.           *)
(*  - A block is its PreviousHash and its transactions.  SHA-256 is taken  *)
(*    to be collision-free, so a hash is what it commits to: the chain of  *)
(*    transaction batches from the genesis to the block.  Timestamp and    *)
(*    nonce are left out: a batch is mined at most once.                   *)
(*  - Every block in the network was mined by one of the servers out of    *)
(*    transactions whose signature AddTransaction verified; so the proof-  *)
(*    of-work and signature checks of CheckNewBlock succeed, and the       *)
(*    comparison of PreviousHash decides.                                  *)
(*  - The genesis is the block with no (player) transaction.  Its hash is  *)
(*    the constant "GENESIS_HASH", the same on every server.               *)
(*  - broadcastBlock's live servers are all the others; one that is not    *)
(*    reachable loses the message (LosePost).                              *)
(***************************************************************************)
EXTENDS Naturals, Sequences, FiniteSets

CONSTANTS
  Server,       \* the game servers
  MaxTx,        \* bound: how many transactions are admitted in all
  BatchMax,     \* transactions per block at most (50 in MineBlock)
  QueueCap,     \* capacity of the channel IncomingBlocks (10 in New)
  BackoffOutlastsValidation, \* TRUE: the miner's sleep of a second after a
                \* cancelled attempt is longer than the loop needs to check
                \* and append the block it cancelled it for
  MayLose,      \* whether a block sent to a server may get lost
  Mortal        \* the servers that may crash and restart

ASSUME ChainAssumption ==
  /\ MaxTx \in Nat
  /\ BatchMax \in Nat \ {0}
  /\ QueueCap \in Nat \ {0}
  /\ BackoffOutlastsValidation \in BOOLEAN
  /\ MayLose \in BOOLEAN
  /\ Mortal \subseteq Server

VARIABLES
  accepted,     \* accepted[t]: the server that admitted transaction t
  mpool,        \* mpool[s]: MPool, the transactions waiting at s
  ledger,       \* ledger[s]: Ledger, from the genesis on
  minerPC,      \* minerPC[s]: where s's miner is
  candidate,    \* candidate[s]: the block s's miner works on
  loopPC,       \* loopPC[s]: where s's block loop is
  task,         \* task[s]: the block s's block loop works on
  incoming,     \* incoming[s]: the channel IncomingBlocks
  post,         \* the requests POST /blockchain/block and their answers
  mined         \* history: the genesis and every block ever mined

vars == <<accepted, mpool, ledger, minerPC, candidate, loopPC, task,
          incoming, post, mined>>
-----------------------------------------------------------------------------
(* Transactions, blocks, hashes.                                           *)

Tx == 1 .. MaxTx
Hash == Seq(SUBSET Tx)
Block == [prev : Hash, txs : SUBSET Tx]

HashOf(b) == Append(b.prev, b.txs)

Genesis == [prev |-> << >>, txs |-> {}]

\* What task[s] and candidate[s] hold when the loop and the miner work on
\* nothing.
NoBlock == Genesis

TipHash(l) == HashOf(l[Len(l)])

LedgerTxs(l) == UNION { l[i].txs : i \in 1 .. Len(l) }

AntiReplay(s, t) == t \notin mpool[s] /\ t \notin LedgerTxs(ledger[s])

\* Mutant: the newest instead.
BatchNewest(pool) ==
  { t \in pool : Cardinality({ u \in pool : u > t }) < BatchMax }

\* The oldest transactions of a mempool, at most BatchMax of them.
Batch(pool) == { t \in pool : Cardinality({ u \in pool : u < t }) < BatchMax }

\* The state of a request to POST a block: on its way; queued, with the
\* handler waiting for the verdict; answered 200, 406, 408 or 503; or never
\* answered because it got lost or its server crashed.
PostStatus == { "sent", "waiting", "accepted", "rejected", "timeout", "full",
                "lost" }
Post == [to : Server, block : Block, status : PostStatus]

MinerState == { "poll", "select", "hash", "backoff" }
LoopState == { "recv", "cancel", "check", "add" }

TypeOK ==
  /\ accepted \in Seq(Server) /\ Len(accepted) <= MaxTx
  /\ mpool \in [Server -> SUBSET Tx]
  /\ ledger \in [Server -> Seq(Block)]
  /\ minerPC \in [Server -> MinerState]
  /\ candidate \in [Server -> Block]
  /\ loopPC \in [Server -> LoopState]
  /\ task \in [Server -> Block]
  /\ incoming \in [Server -> Seq(Block)]
  /\ \A s \in Server : Len(incoming[s]) <= QueueCap
  /\ post \subseteq Post
  /\ mined \subseteq Block
-----------------------------------------------------------------------------
Init ==
  /\ accepted = << >>
  /\ mpool = [s \in Server |-> {}]
  /\ ledger = [s \in Server |-> << Genesis >>]
  /\ minerPC = [s \in Server |-> "poll"]
  /\ candidate = [s \in Server |-> NoBlock]
  /\ loopPC = [s \in Server |-> "recv"]
  /\ task = [s \in Server |-> NoBlock]
  /\ incoming = [s \in Server |-> << >>]
  /\ post = {}
  /\ mined = { Genesis }

\* Mutant: the mempool is emptied instead of filtered.
AddBlockEmptiesMPool(s, b) ==
  /\ ledger' = [ledger EXCEPT ![s] = Append(@, b)]
  /\ mpool' = [mpool EXCEPT ![s] = {}]

\* Mutant: the mempool is not filtered.
AddBlockKeepsMPool(s, b) ==
  /\ ledger' = [ledger EXCEPT ![s] = Append(@, b)]
  /\ UNCHANGED mpool

\* AddBlock(b) on server s: append to the ledger, drop the block's
\* transactions from the mempool.
AddBlock(s, b) ==
  /\ ledger' = [ledger EXCEPT ![s] = Append(@, b)]
  /\ mpool' = [mpool EXCEPT ![s] = @ \ b.txs]

\* A handler on s admits a transaction with a fresh identifier.
AddTransaction(s) ==
  LET t == Len(accepted) + 1 IN
  /\ t <= MaxTx
  /\ AntiReplay(s, t)
  /\ accepted' = Append(accepted, s)
  /\ mpool' = [mpool EXCEPT ![s] = @ \cup {t}]
  /\ UNCHANGED <<ledger, minerPC, candidate, loopPC, task, incoming, post,
                 mined>>
-----------------------------------------------------------------------------
(* The miner.                                                              *)

\* Mutant: the miner waits until it can fill a block.
MineStartFullBatch(s) ==
  /\ minerPC[s] = "poll"
  /\ Cardinality(mpool[s]) >= BatchMax
  /\ candidate' = [candidate EXCEPT ![s] =
                     [prev |-> TipHash(ledger[s]), txs |-> Batch(mpool[s])]]
  /\ minerPC' = [minerPC EXCEPT ![s] = "select"]
  /\ UNCHANGED <<accepted, mpool, ledger, loopPC, task, incoming, post, mined>>

\* RunMiner sees a mempool that is not empty and calls MineBlock, which copies
\* the batch and the hash of the tip and lets go of the mutex.  (Only this
\* miner takes the transactions of s out of mpool[s], so MineBlock never finds
\* it empty after all.)
MineStart(s) ==
  /\ minerPC[s] = "poll"
  /\ mpool[s] # {}
  /\ candidate' = [candidate EXCEPT ![s] =
                     [prev |-> TipHash(ledger[s]), txs |-> Batch(mpool[s])]]
  /\ minerPC' = [minerPC EXCEPT ![s] = "select"]
  /\ UNCHANGED <<accepted, mpool, ledger, loopPC, task, incoming, post, mined>>

\* Mutant: the nonce is tried whether or not a Cancel waits.
TryNonceFirst(s) ==
  /\ minerPC[s] = "select"
  /\ minerPC' = [minerPC EXCEPT ![s] = "hash"]
  /\ UNCHANGED <<accepted, mpool, ledger, candidate, loopPC, task, incoming,
                 post, mined>>

\* ProofOfWork.Run selects: the default branch only when nobody is waiting
\* to send on StateChan.
TryNonce(s) ==
  /\ minerPC[s] = "select"
  /\ loopPC[s] # "cancel"
  /\ minerPC' = [minerPC EXCEPT ![s] = "hash"]
  /\ UNCHANGED <<accepted, mpool, ledger, candidate, loopPC, task, incoming,
                 post, mined>>

\* This nonce misses the target.
NonceMisses(s) ==
  /\ minerPC[s] = "hash"
  /\ minerPC' = [minerPC EXCEPT ![s] = "select"]
  /\ UNCHANGED <<accepted, mpool, ledger, candidate, loopPC, task, incoming,
                 post, mined>>

\* This nonce hits the target: RunMiner appends the block, without looking
\* at the tip again, and posts it to the other servers.
MinerAppends(s) ==
  /\ minerPC[s] = "hash"
  /\ AddBlock(s, candidate[s])
  /\ mined' = mined \cup { candidate[s] }
  /\ post' = post \cup { [to |-> r, block |-> candidate[s], status |-> "sent"] :
                            r \in Server \ {s} }
  /\ candidate' = [candidate EXCEPT ![s] = NoBlock]
  /\ minerPC' = [minerPC EXCEPT ![s] = "poll"]
  /\ UNCHANGED <<accepted, loopPC, task, incoming>>

\* The miner wakes up from the second it sleeps after an attempt without a
\* block.
MinerWakes(s) ==
  /\ minerPC[s] = "backoff"
  /\ BackoffOutlastsValidation => loopPC[s] \notin { "check", "add" }
  /\ minerPC' = [minerPC EXCEPT ![s] = "poll"]
  /\ UNCHANGED <<accepted, mpool, ledger, candidate, loopPC, task, incoming,
                 post, mined>>
-----------------------------------------------------------------------------
(* The handler of blocks mined elsewhere.                                  *)

SetStatus(p, status) == post' = (post \ {p}) \cup {[p EXCEPT !.status = status]}

\* Mutant: a queue without a limit.
QueueBlockUnbounded(p) ==
  /\ p.status = "sent"
  /\ incoming' = [incoming EXCEPT ![p.to] = Append(@, p.block)]
  /\ SetStatus(p, "waiting")
  /\ UNCHANGED <<accepted, mpool, ledger, minerPC, candidate, loopPC, task,
                 mined>>

\* There is room in IncomingBlocks: the handler queues the block and waits.
QueueBlock(p) ==
  /\ p.status = "sent"
  /\ Len(incoming[p.to]) < QueueCap
  /\ incoming' = [incoming EXCEPT ![p.to] = Append(@, p.block)]
  /\ SetStatus(p, "waiting")
  /\ UNCHANGED <<accepted, mpool, ledger, minerPC, candidate, loopPC, task,
                 mined>>

\* There is none: the block is thrown away.
QueueFull(p) ==
  /\ p.status = "sent"
  /\ Len(incoming[p.to]) = QueueCap
  /\ SetStatus(p, "full")
  /\ UNCHANGED <<accepted, mpool, ledger, minerPC, candidate, loopPC, task,
                 incoming, mined>>

\* Mutant: the handler waits for the verdict as long as it takes.
HandlerWaits(p) ==
  /\ p.status = "waiting"
  /\ UNCHANGED vars

\* Five seconds without a verdict.  The block stays queued.
HandlerTimeout(p) ==
  /\ p.status = "waiting"
  /\ SetStatus(p, "timeout")
  /\ UNCHANGED <<accepted, mpool, ledger, minerPC, candidate, loopPC, task,
                 incoming, mined>>

\* The block does not reach the handler.
LosePost(p) ==
  /\ MayLose
  /\ p.status = "sent"
  /\ SetStatus(p, "lost")
  /\ UNCHANGED <<accepted, mpool, ledger, minerPC, candidate, loopPC, task,
                 incoming, mined>>
-----------------------------------------------------------------------------
(* The block loop.                                                         *)

LoopReceives(s) ==
  /\ loopPC[s] = "recv"
  /\ incoming[s] # << >>
  /\ task' = [task EXCEPT ![s] = Head(incoming[s])]
  /\ incoming' = [incoming EXCEPT ![s] = Tail(@)]
  /\ loopPC' = [loopPC EXCEPT ![s] = "cancel"]
  /\ UNCHANGED <<accepted, mpool, ledger, minerPC, candidate, post, mined>>

\* Mutant: the send does not wait for a miner (select with a default).
CancelWithoutMiner(s) ==
  /\ loopPC[s] = "cancel"
  /\ loopPC' = [loopPC EXCEPT ![s] = "check"]
  /\ IF minerPC[s] = "select"
     THEN /\ minerPC' = [minerPC EXCEPT ![s] = "backoff"]
          /\ candidate' = [candidate EXCEPT ![s] = NoBlock]
     ELSE UNCHANGED <<minerPC, candidate>>
  /\ UNCHANGED <<accepted, mpool, ledger, task, incoming, post, mined>>

\* Mutant: the miner takes the message for another one and goes on.
CancelIgnored(s) ==
  /\ loopPC[s] = "cancel"
  /\ minerPC[s] = "select"
  /\ loopPC' = [loopPC EXCEPT ![s] = "check"]
  /\ UNCHANGED <<accepted, mpool, ledger, minerPC, candidate, task, incoming,
                 post, mined>>

\* The loop's send on StateChan meets the miner's receive: the loop goes on
\* to check its block, MineBlock returns "mining cancelled".
CancelMining(s) ==
  /\ loopPC[s] = "cancel"
  /\ minerPC[s] = "select"
  /\ loopPC' = [loopPC EXCEPT ![s] = "check"]
  /\ minerPC' = [minerPC EXCEPT ![s] = "backoff"]
  /\ candidate' = [candidate EXCEPT ![s] = NoBlock]
  /\ UNCHANGED <<accepted, mpool, ledger, task, incoming, post, mined>>

\* Mutant: one result channel for all the handlers of a server.
OnFinishShared(s, b, verdict) ==
  post' = { IF p.to = s /\ p.status = "waiting"
            THEN [p EXCEPT !.status = verdict] ELSE p : p \in post }

\* OnFinish: the handler that still waits for block b answers; if it gave up,
\* the verdict stays in resultChan, which has room for it.
OnFinish(s, b, verdict) ==
  post' = { IF p.to = s /\ p.block = b /\ p.status = "waiting"
            THEN [p EXCEPT !.status = verdict] ELSE p : p \in post }

LoopIdles(s) == /\ loopPC' = [loopPC EXCEPT ![s] = "recv"]
                /\ task' = [task EXCEPT ![s] = NoBlock]

\* Mutant: heights are compared, not hashes.
CheckHeight(l, b) == Len(HashOf(b)) > Len(l)

\* The block fits on the tip of ledger l.
CheckNewBlock(l, b) == b.prev = TipHash(l)

\* CheckNewBlock refuses the block.
LoopRejects(s) ==
  /\ loopPC[s] = "check"
  /\ ~ CheckNewBlock(ledger[s], task[s])
  /\ OnFinish(s, task[s], "rejected")
  /\ LoopIdles(s)
  /\ UNCHANGED <<accepted, mpool, ledger, minerPC, candidate, incoming, mined>>

\* CheckNewBlock, which does not take the mutex, finds nothing wrong.
LoopChecks(s) ==
  /\ loopPC[s] = "check"
  /\ CheckNewBlock(ledger[s], task[s])
  /\ loopPC' = [loopPC EXCEPT ![s] = "add"]
  /\ UNCHANGED <<accepted, mpool, ledger, minerPC, candidate, task, incoming,
                 post, mined>>

LoopAppends(s) ==
  /\ loopPC[s] = "add"
  /\ AddBlock(s, task[s])
  /\ OnFinish(s, task[s], "accepted")
  /\ LoopIdles(s)
  /\ UNCHANGED <<accepted, minerPC, candidate, incoming, mined>>
-----------------------------------------------------------------------------
\* Everything a server knows is in memory: a server that crashes comes back
\* as New() makes it, and the handlers it had waiting never answer.
CrashRestart(s) ==
  /\ s \in Mortal
  /\ mpool' = [mpool EXCEPT ![s] = {}]
  /\ ledger' = [ledger EXCEPT ![s] = << Genesis >>]
  /\ minerPC' = [minerPC EXCEPT ![s] = "poll"]
  /\ candidate' = [candidate EXCEPT ![s] = NoBlock]
  /\ loopPC' = [loopPC EXCEPT ![s] = "recv"]
  /\ task' = [task EXCEPT ![s] = NoBlock]
  /\ incoming' = [incoming EXCEPT ![s] = << >>]
  /\ post' = { IF p.to = s /\ p.status = "waiting"
               THEN [p EXCEPT !.status = "lost"] ELSE p : p \in post }
  /\ UNCHANGED <<accepted, mined>>

Miner(s) == \/ MineStart(s) \/ TryNonce(s) \/ NonceMisses(s)
            \/ MinerAppends(s) \/ MinerWakes(s)

Loop(s) == \/ LoopReceives(s) \/ CancelMining(s) \/ LoopRejects(s)
           \/ LoopChecks(s) \/ LoopAppends(s)

Handler(p) == QueueBlock(p) \/ QueueFull(p) \/ HandlerTimeout(p) \/ LosePost(p)

Next == \/ \E s \in Server : \/ AddTransaction(s)
                             \/ Miner(s)
                             \/ Loop(s)
                             \/ CrashRestart(s)
        \/ \E p \in post : Handler(p)

Spec == Init /\ [][Next]_vars

\* The goroutines are scheduled, the network delivers, a handler's five
\* seconds pass, and a search for a nonce that is not cancelled ends (each
\* nonce hits with probability 2^-20).  Nobody has to buy anything:
\* AddTransaction is not fair.
Fairness ==
  /\ \A s \in Server :
       /\ WF_vars(MineStart(s)) /\ WF_vars(TryNonce(s))
       /\ WF_vars(NonceMisses(s)) /\ WF_vars(MinerWakes(s))
       /\ SF_vars(MinerAppends(s))
       /\ WF_vars(Loop(s))
  /\ WF_vars(\E p \in post : QueueBlock(p) \/ QueueFull(p))
  /\ WF_vars(\E p \in post : HandlerTimeout(p))

FairSpec == Spec /\ Fairness
-----------------------------------------------------------------------------
(* Safety.                                                                 *)

\* Every block of every ledger follows the block before it: PreviousHash is
\* that block's hash.  Two goroutines append to the ledger, and the miner's
\* AddBlock does not compare hashes.
Linked(l) == /\ l[1] = Genesis
             /\ \A i \in 2 .. Len(l) : l[i].prev = HashOf(l[i - 1])

LedgerLinked == \A s \in Server : Linked(ledger[s])

\* The block loop checks and appends only while the miner is parked, so that
\* nobody moves the tip between CheckNewBlock (which takes no lock) and
\* AddBlock.
ValidationExclusive ==
  \A s \in Server : loopPC[s] \in { "check", "add" } => minerPC[s] = "backoff"

\* The miner never works on top of a block that is not the tip any more.
MinerOnTip ==
  \A s \in Server : minerPC[s] \in { "select", "hash" } =>
                       candidate[s].prev = TipHash(ledger[s])

\* Servers that share a block share everything before it: a fork, once it has
\* opened, leaves no common block behind it.
SharedBlockSharedHistory ==
  \A r, s \in Server : \A i \in 1 .. Len(ledger[r]), j \in 1 .. Len(ledger[s]) :
    HashOf(ledger[r][i]) = HashOf(ledger[s][j]) =>
      /\ i = j
      /\ \A k \in 1 .. i : ledger[r][k] = ledger[s][k]

\* Between CheckNewBlock and AddBlock the tip stays the one that was checked.
TaskOnTip ==
  \A s \in Server : loopPC[s] = "add" => CheckNewBlock(ledger[s], task[s])

\* The PreviousHash of the i-th block commits to the i - 1 blocks before it.
Committed(l) ==
  /\ l # << >>
  /\ l[1] = Genesis
  /\ \A i \in 1 .. Len(l) :
       /\ Len(l[i].prev) = i - 1
       /\ \A j \in 1 .. i - 1 : l[i].prev[j] = l[j].txs

\* The inductive invariant behind LedgerLinked and SharedBlockSharedHistory:
\* all that a server's three goroutines must agree on for every append, from
\* either of them, to be an append on the tip.
ChainInv ==
  /\ TypeOK
  /\ ValidationExclusive
  /\ MinerOnTip
  /\ TaskOnTip
  /\ \A s \in Server : Committed(ledger[s])

\* No transaction is in two of the blocks that were ever mined, whatever was
\* cancelled, lost or restarted.
TxMinedOnce ==
  \A a, b \in mined : a # b => a.txs \cap b.txs = {}

\* A transaction a server answered 202 for is either waiting in that server's
\* mempool or in its ledger, never in both and never in neither, and waits
\* nowhere else.  Transactions arrive while a block is being mined, and
\* AddBlock rebuilds the mempool.  (If that server does not crash: both are in
\* memory.  The others may.)
TxConserved ==
  \A t \in 1 .. Len(accepted) : \A s \in Server \ Mortal :
    IF s = accepted[t] THEN t \in mpool[s] <=> t \notin LedgerTxs(ledger[s])
                       ELSE t \notin mpool[s]

\* The inductive invariant behind TxMinedOnce and TxConserved: who holds which
\* transactions, in the mempools, in the miners and in the blocks on the way.
TxInv ==
  /\ TypeOK
  /\ Genesis \in mined
  /\ \A b \in mined : \A t \in b.txs : t <= Len(accepted)
  /\ \A s \in Server : \A t \in mpool[s] :
       /\ t <= Len(accepted)
       /\ accepted[t] = s
       /\ \A b \in mined : t \notin b.txs
  /\ \A s \in Server : minerPC[s] \in { "select", "hash" }
                          => candidate[s].txs \subseteq mpool[s]
  /\ \A s \in Server : task[s] \in mined
  /\ \A s \in Server : \A i \in 1 .. Len(incoming[s]) : incoming[s][i] \in mined
  /\ \A s \in Server : \A i \in 1 .. Len(ledger[s]) : ledger[s][i] \in mined
  /\ \A p \in post : p.block \in mined
  /\ TxMinedOnce

\* The transactions of a server that does not crash enter its ledger in the order
\* it admitted them, also when there are more than fit in a block or an attempt is
\* cancelled.
AdmissionOrder ==
  \A t, u \in 1 .. Len(accepted) :
    LET s == accepted[u] IN
    t < u /\ accepted[t] = s /\ s \notin Mortal /\ u \in LedgerTxs(ledger[s])
      => t \in LedgerTxs(ledger[s])

InLedger(p) == \E i \in 1 .. Len(ledger[p.to]) : ledger[p.to][i] = p.block

\* What handleReceiveBlock answers is what happened to the block it was asked
\* about: 200 means appended (and is true until the server crashes), and a block
\* that is refused, dropped, lost or not yet judged is not in the ledger.  Only after
\* a 408 may it be either.
AnswersTruthful ==
  \A p \in post :
    /\ p.status = "accepted" /\ p.to \notin Mortal => InLedger(p)
    /\ p.status \notin { "accepted", "timeout" } => ~ InLedger(p)

\* The servers implement the abstract ledgers.
Abstract == INSTANCE LedgerSpec WITH
              chain <- [s \in Server |-> TipHash(ledger[s])],
              published <- { HashOf(b) : b \in mined }

LedgerRefined == Abstract!Spec
-----------------------------------------------------------------------------
(* Liveness.                                                               *)

\* A transaction in the mempool of a server that does not crash gets into a block
\* of that server, however often blocks from elsewhere cancel the attempts (each
\* does so once).
TxEventuallyMined ==
  \A s \in Server \ Mortal : \A t \in Tx :
    t \in mpool[s] ~> t \in LedgerTxs(ledger[s])

\* A request to POST a block is answered, even by a server whose block loop
\* is stuck.
PostAnswered ==
  (\E p \in post : p.status \in { "sent", "waiting" })
    ~> (\A p \in post : p.status \notin { "sent", "waiting" })

\* A block loop that waits at Cancel because its miner has nothing to do gets
\* on with its block as soon as this server has a transaction to mine.
NextTxReleasesLoop ==
  \A s \in Server :
    (loopPC[s] = "cancel" /\ minerPC[s] = "poll" /\ mpool[s] # {})
      ~> loopPC[s] # "cancel"
-----------------------------------------------------------------------------
(* What the documentation says and the code does not do.                   *)

\* README, "Consenso Distribuido": a valid block is appended to the local
\* chain of every server; so the loop gets to judge a block it has taken.
BlockJudged ==
  \A s \in Server : loopPC[s] = "cancel" ~> loopPC[s] # "cancel"

\* Server s holds block b, or has judged it.
Seen(s, b) ==
  \/ \E i \in 1 .. Len(ledger[s]) : ledger[s][i] = b
  \/ \E p \in post : /\ p.to = s
                     /\ p.block = b
                     /\ p.status \in { "accepted", "rejected" }

Forked(l, m) == \E i \in 1 .. Len(l) : i <= Len(m) /\ l[i] # m[i]

\* internal/blockchain/blockchain.go:129, about the previous hash: "aqui que entra o
\* consenso de nakamoto sobre a cadeia mais longa (height)".  So where two ledgers
\* have come apart, a server that has judged every block of the other one holds a
\* chain at least as long.
LongestChainAdopted ==
  \A r, s \in Server :
    /\ Forked(ledger[r], ledger[s])
    /\ \A i \in 2 .. Len(ledger[r]) : Seen(s, ledger[r][i])
    => Len(ledger[s]) >= Len(ledger[r])
=============================================================================
