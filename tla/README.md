# PlanoZ in TLA+

PlanoZ is a tank card game played over three game servers (`src/server`), a
Redis cluster that carries notices to players, and console clients
(`src/client`). Purchases, trades and battle results are transactions of a
small blockchain that the servers keep between them (`src/internal/blockchain`).
This directory holds a model of the parts of PlanoZ where several goroutines,
servers or clients depend on one another, the TLC configurations that check it
on small instances, and proofs for instances of any size.

All line numbers refer to the files of the repository.

## 1. The system

| Part | Code | State | Operations |
|---|---|---|---|
| Blockchain node | `internal/blockchain/blockchain.go`, `block.go` | `Ledger`, `MPool`, `Height`, channels `IncomingBlocks` (10) and `StateChan` (unbuffered), mutex `MX` | `AddTransaction`, `MineBlock`, `AddBlock`, `CheckNewBlock`, `RunBlockchainLoop` |
| Miner | `server/miner.go`, `internal/blockchain/pow.go` | the block it works on | `RunMiner`, `ProofOfWork.Run`, `broadcastBlock` |
| Block reception | `server/handlers_blockchain.go` | one `resultChan` per request | `handleReceiveBlock` |
| Cluster health, election | `server/leadership.go`, `server/main.go` | `currentLeader`, `liveServers` | `RunHealthChecks`, `checkClusterHealth`, `electNewLeader`, `isLeader` |
| Purchase and stock | `server/handlers_api.go` 82-143 | `Boosters` | `handleLeaderBuyCard` |
| Battle and trade registration | `server/handlers_api.go` 146-243 | none of its own | `handleRegisterBattle`, `handleRegisterTrade` |
| Block listener | `server/blockchain_listener.go` | `lastProcessedHeight` | `RunBlockListener`, `processBlock`, `processPurchase`, `processTrade`, `processBattleResult` |
| Player registry | `server/handlers_api.go` 30-72, `server/utils.go` | `playerList` | `handleLeaderConnect`, `handlePlayerUpdate`, `broadcastToServers` |
| Battle and trade sessions | `server/handlers_api.go` 248-440 | `batalhasPeer`, `tradesPeer` (and `batalhas`, `trades`, never filled) | the `handleBattle*` and `handleTrade*` handlers |
| Client | `client/client.go` | `estadoAtual`, `idBatalha`, `idTroca`, `idParceiro`, `minhasCartas` | menu commands, `listenRedis`, `loopBatalha`, `loopTroca` |
| Card database | `internal/utils/cardDB/cardDB.go` | card definitions | `CalculateCardCopies`, `CreateCardPool`, `CreateBoosters` |
| Signatures | `internal/blockchain/signature.go`, `client/client.go` 115-137 | none | sign, verify |
| Redis listener, UDP ping, router, data types, deployment | `handlers_redis.go`, `utils.go` 72-83, `router.go`, `models.go`, docker files | none | pure I/O, declarations |

How they interact:

- A client posts a signed request to the server it is connected to. The handler
  builds a transaction with a fresh identifier and calls `AddTransaction`, which
  puts it into *that* server's mempool. Transactions are not sent to other
  servers; blocks are.
- The miner goroutine polls the mempool, mines a batch without holding the
  mutex, appends the block and posts it to the other servers, one goroutine and
  connection for each.
- The handler of such a post queues the block with a callback and waits at most
  five seconds for the verdict. The block loop takes the block, hands `Cancel` to
  the miner over an unbuffered channel, checks the block against the tip and
  appends or refuses it.
- The block listener walks down the ledger once a second and publishes notices
  on the Redis channels of the players found in `playerList`, which the leader
  replicates.
- Servers learn about each other by polling `/health`; each elects on its own.

What is hard about it: the miner and the block loop append to one ledger from
two goroutines with unlocked stretches in between; blocks may be lost, dropped
from a full queue or overtaken; servers keep everything in memory; answers may
come after their handler has given up; leaders are chosen from local views. The
list of hazards in `PROJECT.json` places each of these at its line.

What makes each part correct:

- *Blockchain node, miner, reception*: each ledger is a hash chain; miner and
  block loop agree on the tip; a transaction is mined once, is never lost while
  its server lives, keeps its order and gets mined; answers tell the truth; the
  queue is bounded; ledgers that share a block share history. Forks should close on
  the longest chain, and blocks be judged by every server, but neither is so.
- *Election*: at most one leader while servers only fail by stopping, and the lowest
  survivor ends up leading; otherwise every server ends up following one that runs.
- *Purchase and listener*: a booster leaves the stock for exactly one purchase,
  and its buyer, and nobody else, gets it once (which is not so: once from each server).
- *Registry*: the leader knows every player, and the lists of the others are versions of
  its own. That they end up with the newest one is not so.
- *Sessions, client*: every battle that is played is registered, once, for a
  player who asked for it (the first is not so); the menu is locked only by a loop
  that unlocks it, and comes back.
- *Signatures*: the server should accept what the client signs; it does for numbers of
  lengths that fit its cut.
- *Card database*: every model is dealt, each rarity has its share, and each card
  that was dealt is in one booster.

## 2. Modules

| Module | Models | Status |
|---|---|---|
| `Blockchain` | blockchain node, miner, block reception, for a set of servers | done |
| `LedgerSpec` | abstract specification of the ledgers | done |
| `BlockchainProofs` | theorems about `Blockchain` | done |
| `Leadership` | cluster health, election, start-up, crashes | done |
| `LeadershipProofs` | theorems about `Leadership` | done |
| `PlayerRegistry` | connecting, the replicated player list; extends `Leadership` | done |
| `Purchases` | stock, purchase handler, block listener, player's cards, on the ledgers of `LedgerSpec` | done |
| `Sessions` | clients' menus and goroutines, battle and trade handlers, results and trades on record | done |
| `SignatureCodec` | how the two numbers of a signature travel; extended by `Sessions` | done |
| `SignatureCodecProofs`, `SessionsProofs` | theorems about these two | done |
| `CardDB` | how a server generates its stock | done |
| `MCBlockchain`, `MCLeadership`, `MCPlayerRegistry`, `MCPurchases`, `MCSessions`, `MCCardDB` | TLC instances | done |
| `PlayerRegistryProofs`, `PurchasesProofs`, `CardDBProofs` | theorems about these three | done |
| `LedgerProofs` | more theorems about `Blockchain`: order, answers, the refinement of `LedgerSpec`; extends `BlockchainProofs` | done |

How they depend on one another: `Blockchain` implements `LedgerSpec` (a checked
refinement), and `Purchases` instantiates `LedgerSpec` for its ledgers in place of
the far larger `Blockchain`. `PlayerRegistry` extends `Leadership`: its steps are
those of the election and its own, over the same `leader` and `live`.
`Sessions` extends `SignatureCodec`, with which it decides whether the server
accepts a result; a result that is accepted goes into the mempool of `Blockchain`.
What `CardDB` ends with, a sequence of boosters, is the stock `Purchases` begins
with (its `StockSize`).

Every safety property of a passing run is a theorem.

### Blockchain

One copy of every variable per server (the network's requests are shared).

| Variable | Code |
|---|---|
| `accepted` | who answered 202 for the n-th transaction (identifiers are `uuid.New()`, here numbers) |
| `mpool` | `MPool`: its order is the order of the numbers |
| `ledger` | `Ledger`; `Height` is its length |
| `minerPC`, `candidate` | where `RunMiner`/`ProofOfWork.Run` are: `poll` (l.17-25), `select` (at pow.go 78), `hash` (83-95), `backoff` (the second of miner.go 38); the block under work |
| `loopPC`, `task` | where `RunBlockchainLoop` is: `recv` (200), `cancel` (blocked at 202), `check` (204), `add` (211); the block it has taken |
| `incoming` | `IncomingBlocks` |
| `post` | the requests `POST /blockchain/block` with the state of their handlers |
| `mined` | history: every block ever mined |

| Action | Code |
|---|---|
| `AddTransaction` | `AddTransaction`, called by the buy, battle and trade handlers |
| `MineStart` | the poll of `RunMiner` and the locked part of `MineBlock` |
| `TryNonce`, `NonceMisses` | one turn of `ProofOfWork.Run` |
| `MinerAppends` | a nonce that hits: return through `MineBlock`, `AddBlock`, `broadcastBlock` |
| `MinerWakes` | the end of the sleep after a cancelled attempt |
| `QueueBlock`, `QueueFull`, `HandlerTimeout` | `handleReceiveBlock` |
| `LoopReceives`, `CancelMining`, `LoopRejects`, `LoopChecks`, `LoopAppends` | `RunBlockchainLoop`; `CancelMining` is the rendezvous of its send with the miner's receive |
| `LosePost`, `CrashRestart` | the network and the process fail |

A SHA-256 hash is taken to be collision-free and is represented by what it
commits to, the chain of batches up to and including the block. So
`HashOf(b) = Append(b.prev, b.txs)`, and comparing `PreviousHash` is comparing
chains. The genesis carries the constant `GENESIS_HASH` on every server.
Timestamps and nonces are left out: a batch is mined at most once
(`TxMinedOnce`), so they never tell two blocks apart.

The append after the nonce is found (`MineBlock` returning, then `AddBlock`) is
one step. The code holds no lock there, but the only other goroutine that
changes the ledger is the block loop, and it is stuck at its send until this
miner comes back to the select.

`BackoffOutlastsValidation` names the one assumption about speed: after a
cancelled attempt the miner sleeps a second, and the loop needs milliseconds to
check and append. Under it the run `chain` and the proofs show that nothing goes
wrong. With the constant set to `FALSE` `LedgerLinked` fails: `RunMiner` appends
without looking at the tip (`miner.go` 43), and only its sleep keeps it out of
the block loop's way.

`Mortal` is the set of servers that may crash. What a server promises of its own
memory (no transaction lost, what it has answered) is claimed for the others, and
holds whatever the mortal ones do.

### LedgerSpec

What the servers promise together: a server's chain grows by one batch at a
time, either new or completing a chain that was published before; a restarted
server is back at the genesis. `Blockchain!Abstract` maps a ledger to the hash of
its tip and the blocks mined to their hashes; `chain` checks
`LedgerRefined`, with losses and crashes.

### Leadership

| Variable | Code |
|---|---|
| `running` | the process is up and its API answers `/health` |
| `leader`, `live` | `currentLeader`, `liveServers` |
| `phase` | `menu` (waiting for ENTER), `first` (the probes of `electNewLeader(nil)`), `vote` (its end), `idle` (between ticks), `check` (the probes of `checkClusterHealth`), `decide` (its end) |
| `asked`, `answered` | the probe goroutines that are done, and `liveNow` |
| `failStop` | history: nothing but deaths has happened so far, that is, all servers ran from the beginning, none was launched again and none that ran failed to answer a probe |

| Action | Code |
|---|---|
| `Launch`, `PressEnter`, `StartCheck` | `main`, the menu of the server, the ticker of `RunHealthChecks` |
| `ProbeAnswered`, `ProbeFails` | `checkServerHealth` in a goroutine per server; a probe of a server that runs fails if it takes longer than a second |
| `PublishLive` | the write to `liveServers` when all probes are over |
| `FirstElection`, `DecideLeader` | the rest of `electNewLeader` and of `checkClusterHealth`, with the write to `currentLeader` |
| `Crash` | the process dies |

Probes of one check end one by one, in any order, while others launch, check or
crash. Identifiers are the numbers 1..N, which sort as `server1`, `server2`,
`server3` do. `liveServers` is written under one mutex and `currentLeader` later
under another, in steps of their own: in between a server may follow a
leader that its broadcasts leave out.

### PlayerRegistry

| Variable | Code |
|---|---|
| `playerList` | `playerList`: the set of its keys |
| `broadcasts` | goroutines started by `handleLeaderConnect` that have not yet read `liveServers` |
| `pushes` | the calls of `sendToHost`, before and after serialising the list |
| `entries` | counter that bounds the new entries |

| Action | Code |
|---|---|
| `ConnectNewPlayer` | `handleLeaderConnect` for a player the leader does not know (for another it writes the same entry again and tells nobody) |
| `TakeMap` | the `go` statement evaluates its argument, after the unlock |
| `StartPushes` | `broadcastToServers` |
| `SendList` | `sendToHost` serialises the list and posts it |
| `PushFails` | the post does not come through: the receiver is down, or (`MayTimeOut`) runs and does not answer within two seconds; the error is dropped and nobody posts again |
| `ReceiveList` | `handlePlayerUpdate` |
| `CrashWithLists` | the process dies; lists already posted may still arrive |

The list is passed by reference all the way to `json.Marshal`, and nothing locks
it there. A broadcast therefore sends what the map holds when it is serialised,
unless `handlePlayerUpdate` has replaced the map in between, which leaves the
broadcast with the old one. `map` in `broadcasts` and `pushes` says which of the
two it is. The Go runtime may end a process that reads and writes a map at once;
that outcome is a crash of the server, which may come at any time.

A list that arrives takes the place of the receiver's, whatever its age. So lists
can be compared only while there is one leader: `Undisturbed` says that all servers
have run from the beginning and every probe was answered. A post whose time limit
is over may still arrive; whether it does or not is a choice of `ReceiveList` or
`PushFails`, and it may come arbitrarily late.

### Purchases

| Variable | Code |
|---|---|
| `chain`, `published` | the ledgers and the blocks mined, as in `LedgerSpec` |
| `mpool` | `MPool` of each server |
| `stock` | `Boosters`, in their order |
| `requests` | the requests `buy` with how far their handlers are |
| `purchase` | the data of each transaction: buyer and booster |
| `serverAPI`, `known` | which server each client talks to; `playerList` of each server, as its listener sees it |
| `last`, `pos`, `height` | `lastProcessedHeight`, and `i` and `currentHeight` of the round under way |
| `notices` | goroutines `processPurchase` that have not run |
| `inbox`, `cards` | published to a player and not yet received; `minhasCartas` |

| Action | Code |
|---|---|
| `RequestBooster` | `comprarBoosterSigned` of the client |
| `RefuseRequest`, `PickBooster`, `Admit` | `handleLeaderBuyCard`: 401 or 410; the booster taken under one mutex; the transaction added under another, 202 |
| `MineBatch`, `AdoptBlock` | the ledgers, by the actions of `LedgerSpec`, with the mempool |
| `ListenerLooks`, `ListenerProcesses` | `RunBlockListener` and `processBlock`: a round over the ledger, one block at a time, while other goroutines append |
| `Notify` | `processPurchase` |
| `ReceiveCards` | `listenRedis` of the client |
| `UpdateList` | `handlePlayerUpdate`: any list takes the place of the server's own (which lists there are is `PlayerRegistry`'s business) |

A booster is known by the server that generated it and its place there. Its
cards carry identifiers of their own, so that a booster received twice shows as
cards owned twice.

Where each client is (`SERVER_API`) is `serverAPI`, chosen in `Init`: all clients at
one server, as in the deployment of PlanoZ, compete for its stock; clients at
different servers make the ledgers fork. A list may arrive at any time or never, with
players or without them. `AdoptBlock` needs a transaction in the mempool: the block
loop gets to a block only through the miner's receive (`Blockchain!CancelMining`),
and a miner without transactions never receives.

### Sessions

The clients of one server. A client is a menu, `listenRedis` and one `loopBatalha`
or `loopTroca` for each notice received, all on the same global variables and
without a lock.

| Variable | Code |
|---|---|
| `estadoAtual`, `idParceiro`, `idBatalha` | the client's globals of these names |
| `prompt` | whether the menu waits for a command or for the name of an opponent (`client.go` 173) |
| `loops` | the goroutines `loopBatalha`, before and after their report, and `loopTroca` |
| `calls` | requests `/battle/initiate` and `/trade/initiate`, with how far their handlers are |
| `batalhasPeer`, `tradePeer` | `batalhasPeer`; `tradesPeer`, of which there is one entry only |
| `inbox` | published to a player and not yet received |
| `results`, `refused` | what `/battle/register` was asked, by its answer |
| `trades` | trades registered, and whether `processTrade` has told of them |
| `askedBattle`, `askedTrade` | history: who asked for the n-th battle and trade (identifiers are `uuid.New()`) |

| Action | Code |
|---|---|
| `ChoosePairing`, `Pair`, `Unpair`, `AskBattle`, `AskTrade` | `processarComando`, `parear`, `desparear`, `solicitarBatalha`, `solicitarTroca` |
| `StoreTrade`, `AnnounceTrade` | `handleTradeInitiate`: the entry, then `notificarClienteTroca`, under the mutex again |
| `AnnounceBattle` | `handleBattleInitiate`; nothing reads its entry in between that a client would see |
| `BeginBattle`, `BeginTrade`, `TradeConfirmed` | `listenRedis` |
| `ReportResult` | `loopBatalha` wakes up and calls `registrarResultadoBatalha`, with `handleRegisterBattle` |
| `EndLoop` | the end of `loopBatalha` and `loopTroca` |
| `EndBattle`, `EndTrade`, `RegisterTrade` | `handleBattleEnd`, `handleTradeResult`, `handleRegisterTrade` |
| `ConfirmTrade` | `processTrade` |

No code of the repository calls `/battle/end`, `/trade/result` and
`/trade/register`; `OutsideCalls` says whether somebody else does. The client sends
`id_batalha` to `/trade/initiate`, which reads `id_troca`, so the identifier of
every trade is empty and `tradePeer` is all there is of `tradesPeer`. A handler of
a move or a card looks for its battle or trade in `batalhas` or `trades`, which
nothing fills, and answers 404. `handleBattleInitiate` tells the player it calls
J2, "o jogador conectado AQUI" (`handlers_api.go` 247, 259, 263, and 366 for trades),
but clients fill in themselves: it is the asker who is told, and nobody's opponent
hears of a battle, which is why sessions of different players meet only in
`tradePeer`. Comments and clients contradict each other here, and no property says
which of the two is right.

### SignatureCodec

Positive numbers are the sequences of their bytes without leading zeros
(`Numeral`), so the module compares numbers without arithmetic. `Join` is what
`assinarRequest` sends of r and s, `Verifies` whether `verifyECDSA` cuts the same two
numbers out of it again; another pair is taken to fail ECDSA. `LengthsFit` is the
reference: it works exactly if s has as many bytes as r or one more. Most
signatures have 32 bytes for each; a number that begins with a zero byte, one in
256, is the case that may go wrong.

### CardDB

| Variable | Code |
|---|---|
| `stage` | which of the calls `main` makes (lines 129-140) is under way |
| `glossary`, `copies`, `pool`, `boosters` | `definitions`, `copies`, `pool`, `generatedBoosters` |
| `total` | `totalBoosters` |
| `unshuffled` | the index `rand.Shuffle` has got to |

`Load` and `LoadFails` are `InitializeCardsFromJSON`, then `CalculateCardCopies`,
`DealModel` (the loop of `CreateCardPool`, in the order of a Go map, which is none),
`ShuffleOne` and `Pack` (`CreateBoosters`). With the vault of PlanoZ, four models of
each rarity, and the hundred boosters `main` asks for, each common model gets 37
cards, each uncommon one 30 and each rare one 7: 296 cards, 98 boosters and two
cards left over. `DealtByRarity` and `PackedOnce` bound what rounding and cutting
lose for every vault.

## 3. Runs

| Run | Instance | Shows |
|---|---|---|
| `chain` | 2 servers, 3 transactions, 2 per block, queue of 1, losses, one server crashes and restarts, fairness | `TypeOK` (with the queue's limit), `LedgerLinked`, `ValidationExclusive`, `MinerOnTip`, `SharedBlockSharedHistory`, `TxMinedOnce`, `TxConserved`, `AdmissionOrder`, `AnswersTruthful`, `LedgerRefined`, `TxEventuallyMined`, `PostAnswered`, `NextTxReleasesLoop` |
| `leader` | 3 servers, 1 crash, launches at any time, probes may time out, fairness | `LeadershipTypeOK`, `OneLeader`, `LeaderRuns`, `LowestLeads` |
| `registry` | 3 servers, 1 crash, 2 players, posts may fail | `RegistryTypeOK`, `ListsComparable`, `LeaderKnowsAll` |
| `shop` | 2 servers with a booster each, 2 players anywhere, lists replaced by any others, fairness | `PurchasesTypeOK`, `BoosterOnce`, `CopiesBounded`, `CardsBought`, `PurchaseArrives` |
| `sessions` | 2 clients, 2 battles or trades, 1 trade on record, numbers of one and two bytes, fairness | `SessionsTypeOK`, `WinnerAsked`, `NoFreeWins`, `LockedByLoop`, `MenuReturns` |
| `stock` | every vault of up to 3 models, up to 2 boosters asked for | `StockTypeOK`, `DealtByRarity`, `PackedOnce` |
| `idle_loop_stuck` | 2 servers, 1 transaction, fairness | violation of `BlockJudged` |
| `fork_stays` | 2 servers, 4 transactions, 1 per block, nothing lost, no crashes | violation of `LongestChainAdopted` |
| `list_outdated` | 2 servers, 2 players, nothing fails | violation of `ListsUpToDate` |
| `cards_twice` | 2 servers, 2 purchases, lists replicated | violation of `CardsOnce` |
| `battle_unrecorded` | 2 clients, 2 battles, every signature accepted, fairness | violation of `BattleRegistered` |
| `signature_cut` | 2 clients, numbers of one and two bytes | violation of `SignedAccepted` |

The largest, `leader`, has about a million states, `registry` 820 thousand, `sessions`
350 thousand, `shop` 220 thousand and `chain` 27 thousand.

Deadlock checking is off everywhere: a system in which all transactions are
mined and all loops wait for input, or in which every server has died, has
really stopped.

Bounds. `MaxTx` bounds transactions, `MaxCrashes` crashes of the election;
crashes of `Blockchain` need no bound, because a restarted server returns to
states over the same finitely many transactions. Two servers and two
transactions suffice for a fork, a third makes one branch longer; three with
two per block give a full batch with a remainder and transactions that arrive
during an attempt. A queue of one fills as a queue of ten does, with fewer blocks.
With three servers nothing new happens to a ledger, since blocks come from
elsewhere one at a time; the theorems cover any number.

Three servers are the deployment's, and the fewest with an election among
survivors. One crash leaves two to settle. In `leader` it may be followed by a
launch of the same server. Two new entries (`MaxBroadcasts`) make lists overtake one
another; the third server is a receiver of its own, so that versions differ in
three places. `registry` leaves out launches and slow probes because its properties
are about the time before them; the theorems do not.

`MaxRequests` and `MaxTx` of two with one booster at each server cover two purchases
that compete for the last booster and two that make the ledgers fork; either player
may be on either list. Servers of `fork_stays` and `cards_twice` and players of the
registry's runs are interchangeable and reduced by symmetry, in runs for safety only.

`MaxAsked` of two lets battles of one player overlap, trades of two players
compete for the one entry, and a battle overlap a trade; `MaxConfirmed` of one
makes a notice arrive that no loop belongs to. Signatures of lengths one and two
are one that fits the cut and one that does not; `SignatureCut` covers the rest.
In `battle_unrecorded` every signature fits, so that it is not a refusal that
keeps the result off the record. `stock` asks for one or two boosters: their
shares (1, 1, 0 and 3, 2, 0 cards) are less than, equal to and more than the
number of models, and up to six cards are left in every order that shuffling
gives.

Fairness. `chain`: goroutines are scheduled and posts under way come to an end (weak
fairness of each step; a post may get lost instead); a search for a nonce that is
tried for ever hits in the end (strong fairness of `MinerAppends`: each nonce hits
with probability 2^-20); five-second timers expire. Admitting transactions is not
fair: nobody has to buy. `leader`: ENTER is pressed on every server (README of
PlanoZ, step 6), tickers tick, probes end within their second, and code that nothing
blocks runs on, each for every server on its own. Launches and crashes are not
fair; `LeaderRuns` holds because crashes are finitely many.
`registry` assumes none: posts may fail, and nothing is claimed to arrive.
`sessions`: goroutines run, requests and notices arrive; nobody has to use the
menu. `shop`: handlers that have taken a booster go on, miners find their
nonces (what `TxEventuallyMined` shows of `Blockchain`), listeners tick, Redis
delivers. Nothing makes a block reach another server, and `PurchaseArrives` does
not need it. It needs that the buyer stays on the list of the server asked, and says
so: if a list without the buyer arrives (an older one, or another leader's), the
listener tells nobody and the cards never come.

`TxEventuallyMined` counts on finitely many blocks from elsewhere, each of which
cancels one attempt at most. An endless stream of them could put a server's
transactions off for ever; nothing in the code would prevent it.

### What the violations show

- `idle_loop_stuck`: the block loop sends `Cancel` before it looks at the block
  (`blockchain.go` 202), and only a miner at work receives. A server with an empty
  mempool does not judge the first block it gets, answers 408 for it and, after
  ten more, 503, until it admits a transaction of its own. `NextTxReleasesLoop`
  shows that this is what releases it.
- `fork_stays`: the comment in `CheckNewBlock` (`blockchain.go` 129) says that Nakamoto
  consensus on the longest chain comes in at the comparison of previous hashes. What
  the code compares is the hash of its own tip, so a server on the shorter
  branch judges every block of the longer one and refuses each. Nothing gets lost
  and nobody crashes in this run. `SharedBlockSharedHistory` is what is left.
- `list_outdated`: "recebe a lista atualizada do lider" (`handlers_api.go` 62). The
  leader registers a player and serialises a list with that player, registers another
  and posts the longer list; the second post arrives first, and the first one then takes
  the place of the newer list. Nothing fails and nobody is sent anything again.
  `ListsComparable` and `LeaderKnowsAll` are what is left.
- `cards_twice`: every server's listener sees every block it appends, and tells the
  buyer if the buyer is on its list (`blockchain_listener.go`, comment of
  `processPurchase`: "ve se o usuario esta nesse server pra notificar"). Once the
  list is replicated the buyer is on all of them. In the run both servers have a
  transaction to mine, so that the block loop of each gets on. `CopiesBounded` is what
  is left: once from each server whose ledger carries the sale.
- `battle_unrecorded`: a client asks for a battle twice before the first notice
  arrives (the request waits at most five seconds, and the state is still
  `EstadoPareado`). `loopBatalha` reads the global `idBatalha` after its two
  seconds, so both loops report the second battle, and the first, which has been
  played, is on no record. `WinnerAsked` and `NoFreeWins` are what is left: the
  winner did ask for the battle named, and has no more wins than battles.

- `signature_cut`: the client joins r and s without leading zeros, and the server cuts
  in the middle ("3. reconstroi assinatura (r, s)", `signature.go` 113). If the lengths
  differ the wrong way, which happens once in 256 signatures, a result its player has
  signed is refused, although the server "valida transações assinadas" (README of
  PlanoZ, line 27), and the client does not look at the answer. `SignatureCut`
  proves for which lengths the cut is right.

Further limits show in what properties are claimed under. Without
`BackoffOutlastsValidation` ledgers break (see `Blockchain` above). A server launched
late leads itself only, because a check elects only if its own leader does not
answer (`leadership.go` 62), and a probe that takes longer than a second is taken
for a death: either way there may be two leaders, so `OneLeader` and `LowestLeads` are
claimed while `failStop`, and `LeaderRuns` always. It says no more than that nobody
follows a dead server for good. With two leaders, each one's list takes the place
of the other's; after a death, a new leader that never got the last list goes on from an
older one, and players it already knows are not announced again
(`handlers_api.go` 53). `ListsComparable` and `LeaderKnowsAll` are therefore claimed while
`Undisturbed`. And since posts may fail and are not repeated, no run claims that every
server hears of every player.

## 4. Proofs

`BlockchainProofs`, for every set of servers, any number of transactions, batch
size and queue capacity:

- `TypeCorrect`. `TypeOK` is strengthened by what types need: a ledger is not
  empty, a queued task is a block.
- `ValidationIsExclusive`, `MinerStaysOnTip`, `LedgersAreLinked`,
  `SharedBlocksShareHistory`, assuming `BackoffOutlastsValidation`. None of them
  is inductive: an append by the miner keeps the ledger linked only if its block
  sits on the tip, which needs that the loop has not appended since the attempt
  began, which needs that the loop appends only while the miner is parked.
  `ChainInv` is the conjunction: exclusion, the miner on the tip, the checked
  task on the tip, and every block committing to all blocks before it
  (`Committed`, stronger than `Linked`). The last gives shared history at once: a
  hash contains the history.
- `TransactionsMinedOnce`, without any assumption. Being mined once does not
  follow from looking at mined blocks: `TxInv` also says that waiting
  transactions are on no block, that what a miner works on is still waiting at
  its server, and that every block anywhere (queue, task, requests, ledgers) has
  been mined by somebody. Blocks from elsewhere then never take anything out of a
  mempool.
- `TransactionsConserved`, for servers that do not crash, whatever happens to others:
  `TxInv` together with where each transaction is.

`LedgerProofs`, on top of these, for the same constants:

- `AdmissionOrderKept`, for the transactions of servers that do not crash. `OrderInv` says that what waits in a
  mempool is younger than what its server has put into the ledger. A batch is the
  oldest of what waits, but it is taken long before it is mined and an attempt that
  was cancelled is begun again, so `BatchInv` says of the batch at work that it is
  older than the rest of the mempool. `TxInv` gives that nothing leaves a mempool
  but by that server's own blocks.
- `LedgersRefine`, that `Blockchain` implements `LedgerSpec`, assuming
  `BackoffOutlastsValidation`, with and without crashes. Each step that writes a
  ledger mines or adopts as `LedgerSpec` allows, each other one stutters. A block
  that is adopted has been mined by somebody (`PrevMined`, for what a block commits
  to), and a crash is the abstract one.
- `AnswersAreTruthful`, with crashes (an answer 200 is claimed of servers that do not)
  and without any assumption about speed, in both directions. `AnswerInv` says that a block in the queue or at the block loop
  is there once, is not in that server's ledger yet, and belongs to one request,
  which still waits or has had its 408; so that what the loop decides is what is
  answered, and only a 408 says nothing.

`LeadershipProofs`, for any number of servers:

- `LeadershipTypeCorrect`, which needs that a server that asks around has itself
  among those that answered, so that there is somebody to elect.
- `AtMostOneLeader`, of every behaviour: the condition `failStop` is part of the
  property. `FailStopInv`: while it holds, a check in progress misses no
  running server, and the leader a server follows is not above any running
  server. Servers only ever leave, so an old view has too many candidates and
  never too few. `liveServers` plays no part in it.

`PlayerRegistryProofs`, for any number of servers, players and lists under way:

- `RegistryTypeCorrect`.
- `ListsAreComparable` and `LeadersKnowAll`, of every behaviour: the condition
  `Undisturbed` is part of the properties. While it holds there is one leader
  (`FailStopInv`), it stays one (`LeaderStays`) and it alone sends lists, never to itself
  (`SendersLead`, `NotToSelf`), so that nothing takes the place of its map. A list that
  is posted takes the place of another one, so `ByAge` compares all copies, held, referred
  to or posted, and says that the leader's is the newest: a new entry then makes a
  list above all the others, and an older list that arrives last is still one of the
  versions. `SentFrozen`: what is posted no longer changes.

`PurchasesProofs`, for any number of servers, players, boosters and requests:

- `PurchasesTypeCorrect`. `PurchasesTypeOK` is strengthened by what ledgers and notices refer
  to: transactions that were admitted (`PurchaseInv`).
- `BoostersOnce`. A stock loses boosters at its front only (`StockInOrder`), so that
  how many are gone says which are gone; `HeldOrSoldOnce` counts those among
  handlers and transactions.
- `CardsAreBought`. `CardInv` follows a booster backwards, from collection to
  notice to ledger, and rests on ledgers that only grow and transactions that do not
  change.
- `CopiesAreBounded`, for any finite number of servers and whatever lists they get. A
  buyer gets a copy from each server that tells of the sale, so the copies received or
  under way are compared with `Tellers`, the servers that have gone past it in their
  ledgers (`CopiesTold`). That a server tells once needs
  that a transaction is at one place of a ledger (`TxOncePerLedger`), that the
  listener is past what it has told of (`NoticesPassed`), over rounds that end
  where the next begins (`RoundsEnd`); that one booster is one sale is `BoosterInv`.

`SignatureCodecProofs`, for numbers of any length: `SignatureCut`, that the server
finds the client's numbers exactly if `LengthsFit`. If the cut falls between r and
s, both halves are the numbers; otherwise one half is shorter than its number, or
the other is longer by a first byte that is not zero.

`SessionsProofs`, for any players, signatures and number of requests:

- `SessionsTypeCorrect`. A loop that reports names a battle, which needs that
  `idBatalha` has been set before any `loopBatalha` runs: a part of `AskedInv`.
- `WinnersAsked`. `AskedInv` says of everything that leads to a battle or trade that its
  player asked for it: handlers under way, notices published, loops, the global
  `idBatalha`, and the one entry of `tradesPeer`.
- `WinsAreNotFree`. A win is reported by one loop, a loop is begun by one notice and a
  notice is published by one request: `OnceInv` says so stage by stage (`CalledOnce`,
  `NoticedOnce`, `LoopedOnce`, `ReportedOnce`) and that what has passed a stage has
  left the one before. This maps the wins of a player one to one into the battles
  that were asked for, although a win may name another battle than the loop's.
- `MenusLockedByLoops`: inductive as it stands.

`CardDBProofs`, for any vault, number of boosters and shuffle:

- `StockTypeCorrect`. That shuffling and packing stay in the pool needs to know which
  variables are still empty at which stage (`StageInv`).
- `StockDealtByRarity`. `RarityInv`: while dealing, the pool holds the same number of
  cards for each model dealt (`DealtShare`), the number planned for its rarity
  (`CopiesPlanned`); a shuffle maps the places of a rarity one to one. Lemma `Division`
  bounds what cutting off the fraction of a share leaves.
- `StockPackedOnce`. `PackInv`: each card has a number of its own (`IdsOnce`) and the
  packs are the pool cut in order (`PacksInOrder`), so that packed cards and places of
  the pool correspond one to one. A shuffle is a permutation whatever is drawn.

Each theorem's assumptions on the constants are those of `ChainAssumption`,
`LeadershipAssumption`, `RegistryAssumption`, `PurchaseAssumption`, `ByteAssumption`,
`SessionsAssumption` and `CardDBAssumption` and the ones in its statement. The
inductive invariants named above are proved and imply what the runs check, so that
no run lists them.

Only model-checked is what must eventually happen: `TxEventuallyMined`, `PostAnswered`
and `NextTxReleasesLoop` of `Blockchain`, `LowestLeads` and `LeaderRuns` of
`Leadership`, `PurchaseArrives` of `Purchases` and `MenuReturns` of `Sessions`. They rest on fairness, hence on `ENABLED`, which the
prover does not handle.

## 5. Not modelled

- SHA-256, ECDSA, JSON and HTTP themselves.
- Duplicate and malformed requests: servers and clients of this repository send
  each request once, well-formed. A block is posted once to each server.
- `broadcastBlock`'s choice of targets: it posts to the live servers other than
  itself. The model posts to all others and lets a post get lost (`LosePost`),
  which includes not being a target.
- The two-second limit of `sendToHost` for blocks: the sender only logs its result.
- Handlers that only read (`handleGetBlockchain`, `handleGetMempool`,
  `handleHealthCheck`), `handleInventoryUpdate` (does nothing), the server's Redis
  listener (drops what it gets) and the UDP ping.
- What clients do not act on: `Rank_Update`, the notices of moves and turns, and
  the handlers that only send those; the client's views of ledger, mempool and
  cards.
- A result whose post never reaches the server: the client sends it once and does
  not look at the answer. Clients at different servers in `Sessions`: their
  sessions have nothing in common, since all a client asks goes to its own server.
  Listeners of other servers that tell of the same trade: a second
  `Troca_Confirmada` is what a second trade of the two players gives.
- The statistics of signatures: how often a number is short.
- Crashes in `Purchases`: a restarted server has a new stock and an empty ledger,
  and clients do not reconnect; the ledger's side of it is in `Blockchain`.
