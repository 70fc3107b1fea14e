----------------------------- MODULE Purchases ------------------------------
(***************************************************************************)
(* What a purchase goes through: a client asks its server for a booster    *)
(* (comprarBoosterSigned in client/client.go), the server takes one out of *)
(* its own stock and puts a transaction into its mempool                   *)
(* (handleLeaderBuyCard in server/handlers_api.go), blocks of it get into  *)
(* the ledgers, on every server a listener walks down the ledger and tells *)
(* the buyer (server/blockchain_listener.go) over Redis, and the client    *)
(* puts the cards into its collection (listenRedis).                       *)
(*                                                                         *)
(* The ledgers are those of LedgerSpec, which Blockchain implements, with  *)
(* the mempools beside them.                                               *)
(*                                                                         *)
(* Abstractions.                                                           *)
(*  - A booster is the server that generated it and its number there; its  *)
(*    cards have identifiers of their own (uuid.New()) and are never seen  *)
(*    apart, so a booster stands for them.                                 *)
(*  - AddTransaction does not refuse: the identifier is fresh, the handler *)
(*    has verified the same signature before, and the format is its own.   *)
(*  - Servers do not crash here.  Redis delivers to a client that has      *)
(*    subscribed, each channel in the order of publication.                *)
(***************************************************************************)
EXTENDS Naturals, Sequences, FiniteSets

CONSTANTS
  Server,
  Player,
  StockSize,     \* boosters each server generates
  MaxTx,         \* bound: purchases admitted
  MaxRequests    \* bound: requests to buy

ASSUME PurchaseAssumption ==
  /\ StockSize \in Nat
  /\ MaxTx \in Nat
  /\ MaxRequests \in Nat

VARIABLES
  chain, published, \* the ledgers, as in LedgerSpec
  mpool,        \* mpool[s]: the purchases waiting at s
  stock,        \* stock[s]: Boosters, the queue of boosters of s
  requests,     \* the requests to buy and where their handlers are
  purchase,     \* purchase[t]: what transaction t says
  serverAPI,    \* serverAPI[p]: the server that client p talks to
  known,        \* known[s]: the players on s's list
  last,         \* last[s]: lastProcessedHeight of s's listener
  pos, height,  \* its i and currentHeight, in the round it is in
  notices,      \* goroutines of processPurchase that have not run yet
  inbox,        \* inbox[p]: published on the channel of p, not yet received
  cards         \* cards[p]: minhasCartas, as boosters in the order received

ledgerVars == <<chain, published>>
playerVars == <<serverAPI, known>>
shopVars == <<stock, requests, purchase>>
listenerVars == <<last, pos, height>>
vars == <<ledgerVars, mpool, shopVars, playerVars, listenerVars, notices, inbox, cards>>

Ledgers == INSTANCE LedgerSpec WITH Mortal <- {}

Booster == [from : Server, bid : 0 .. StockSize]
NoBooster(p) == [from |-> serverAPI[p], bid |-> 0]

\* A request is on its way; its handler has taken a booster; it has put the
\* transaction into the mempool (202); it has refused (401, 410).
Stage == { "sent", "picked", "admitted", "refused" }
Request == [player : Player, stage : Stage, booster : Booster]

Purchase == [player : Player, booster : Booster]
Notice == [tx : Ledgers!Tx, at : Server]

PurchasesTypeOK ==
  /\ mpool \in [Server -> SUBSET (1 .. Len(purchase))]
  /\ stock \in [Server -> Seq(Booster)]
  /\ requests \in Seq(Request) /\ Len(requests) <= MaxRequests
  /\ purchase \in Seq(Purchase) /\ Len(purchase) <= MaxTx
  /\ serverAPI \in [Player -> Server]
  /\ known \in [Server -> SUBSET Player]
  /\ \A s \in Server : /\ last[s] <= pos[s] /\ pos[s] <= height[s]
                       /\ height[s] <= Len(chain[s])
  /\ notices \subseteq Notice
  /\ inbox \in [Player -> Seq(Booster)]
  /\ cards \in [Player -> Seq(Booster)]
-----------------------------------------------------------------------------
Init ==
  /\ Ledgers!Init
  /\ mpool = [s \in Server |-> {}]
  /\ stock = [s \in Server |->
                [i \in 1 .. StockSize |-> [from |-> s, bid |-> i]]]
  /\ requests = << >>
  /\ purchase = << >>
  /\ serverAPI \in [Player -> Server]
  /\ known = [s \in Server |-> { p \in Player : serverAPI[p] = s }]
  /\ last = [s \in Server |-> 0]
  /\ pos = [s \in Server |-> 0]
  /\ height = [s \in Server |-> 0]
  /\ notices = {}
  /\ inbox = [p \in Player |-> << >>]
  /\ cards = [p \in Player |-> << >>]

-----------------------------------------------------------------------------
(* The purchase.                                                           *)

\* The client posts a request.
RequestBooster(p) ==
  /\ Len(requests) < MaxRequests
  /\ requests' = Append(requests, [player |-> p, stage |-> "sent",
                                   booster |-> NoBooster(p)])
  /\ UNCHANGED <<ledgerVars, mpool, stock, purchase, playerVars, listenerVars, notices,
                 inbox, cards>>

\* The signature is refused (401), or the stock is empty (410).
RefuseRequest(i) ==
  /\ requests[i].stage = "sent"
  /\ requests' = [requests EXCEPT ![i].stage = "refused"]
  /\ UNCHANGED <<ledgerVars, mpool, stock, purchase, playerVars, listenerVars, notices,
                 inbox, cards>>

\* Mutant: the stock is not shortened.
RestForgotten(boosters) == boosters

\* What is left of a stock whose first booster is taken.
Rest(boosters) == Tail(boosters)

\* The handler takes the first booster, under the mutex.
PickBooster(i) ==
  LET s == serverAPI[requests[i].player] IN
  /\ requests[i].stage = "sent"
  /\ stock[s] # << >>
  /\ requests' = [requests EXCEPT ![i].stage = "picked",
                                  ![i].booster = Head(stock[s])]
  /\ stock' = [stock EXCEPT ![s] = Rest(@)]
  /\ UNCHANGED <<ledgerVars, mpool, purchase, playerVars, listenerVars, notices, inbox,
                 cards>>

\* It adds the transaction, under another mutex, and answers 202.
Admit(i) ==
  LET r == requests[i] IN
  /\ r.stage = "picked"
  /\ Len(purchase) < MaxTx
  /\ requests' = [requests EXCEPT ![i].stage = "admitted"]
  /\ purchase' = Append(purchase, [player |-> r.player, booster |-> r.booster])
  /\ mpool' = [mpool EXCEPT ![serverAPI[r.player]] = @ \cup {Len(purchase')}]
  /\ UNCHANGED <<ledgerVars, stock, playerVars, listenerVars, notices, inbox, cards>>
-----------------------------------------------------------------------------
(* The ledgers.                                                            *)

\* s mines the oldest of its transactions.
MineBatch(s) ==
  /\ mpool[s] # {}
  /\ Ledgers!Mine(s)
  /\ LET batch == chain'[s][Len(chain'[s])] IN
       /\ batch \subseteq mpool[s]
       /\ \A t \in batch : \A u \in mpool[s] \ batch : t < u
       /\ mpool' = [mpool EXCEPT ![s] = @ \ batch]
  /\ UNCHANGED <<shopVars, playerVars, listenerVars, notices, inbox, cards>>

\* s appends a block mined elsewhere.  The block loop comes that far only if it can
\* interrupt the miner, and a miner without transactions never listens
\* (Blockchain!CancelMining).
AdoptBlock(s) ==
  /\ mpool[s] # {}
  /\ Ledgers!Adopt(s)
  /\ UNCHANGED <<mpool, shopVars, playerVars, listenerVars, notices, inbox, cards>>
-----------------------------------------------------------------------------
(* The listener.                                                           *)

\* A new round, if the ledger has become longer.
ListenerLooks(s) ==
  /\ pos[s] = height[s]
  /\ Len(chain[s]) > last[s]
  /\ height' = [height EXCEPT ![s] = Len(chain[s])]
  /\ pos' = [pos EXCEPT ![s] = last[s]]
  /\ UNCHANGED <<ledgerVars, mpool, shopVars, playerVars, last, notices, inbox, cards>>

\* Mutant: the length the ledger has by the end of the round.
ProcessedByNow(s) == Len(chain[s])

\* Mutant: an index, not a height.
ProcessedIndex(s) == height[s] - 1

\* What lastProcessedHeight is set to at the end of a round.
Processed(s) == height[s]

\* The next block of the round: a goroutine for each of its transactions.  With
\* the last block the round is over.
ListenerProcesses(s) ==
  /\ pos[s] < height[s]
  /\ notices' = notices \cup { [tx |-> t, at |-> s] : t \in chain[s][pos[s] + 1] }
  /\ pos' = [pos EXCEPT ![s] = @ + 1]
  /\ last' = IF pos'[s] = height[s] THEN [last EXCEPT ![s] = Processed(s)] ELSE last
  /\ UNCHANGED <<ledgerVars, mpool, shopVars, playerVars, height, inbox, cards>>

\* Mutant: everybody on the list.
RecipientsAll(n) == known[n.at]

\* Whom processPurchase tells: the buyer, if on the list.
Recipients(n) == known[n.at] \cap {purchase[n.tx].player}

\* processPurchase publishes.
Notify(n) ==
  /\ notices' = notices \ {n}
  /\ inbox' = [p \in Player |-> IF p \in Recipients(n)
                                THEN Append(inbox[p], purchase[n.tx].booster)
                                ELSE inbox[p]]
  /\ UNCHANGED <<ledgerVars, mpool, shopVars, playerVars, listenerVars, cards>>

\* The client receives Compra_Sucesso and adds the cards.
ReceiveCards(p) ==
  /\ inbox[p] # << >>
  /\ cards' = [cards EXCEPT ![p] = Append(@, Head(inbox[p]))]
  /\ inbox' = [inbox EXCEPT ![p] = Tail(@)]
  /\ UNCHANGED <<ledgerVars, mpool, shopVars, playerVars, listenerVars, notices>>

\* handlePlayerUpdate: a list, of whatever age and from whatever leader, takes the
\* place of the list of s (module PlayerRegistry).
UpdateList(s, l) ==
  /\ known' = [known EXCEPT ![s] = l]
  /\ UNCHANGED <<serverAPI, ledgerVars, mpool, shopVars, listenerVars, notices, inbox, cards>>

ServerStep(s) == MineBatch(s) \/ ListenerLooks(s) \/ ListenerProcesses(s)

Next ==
  \/ \E p \in Player : RequestBooster(p) \/ ReceiveCards(p)
  \/ \E i \in 1 .. Len(requests) : RefuseRequest(i) \/ PickBooster(i) \/ Admit(i)
  \/ \E s \in Server : ServerStep(s) \/ AdoptBlock(s)
  \/ \E n \in notices : Notify(n)
  \/ \E s \in Server : \E l \in SUBSET Player : UpdateList(s, l)

Spec == Init /\ [][Next]_vars

\* Miners find their nonces (Blockchain!TxEventuallyMined), the goroutines of a
\* server run, Redis delivers.  Nothing makes a block reach another server.
FairSpec ==
  /\ Spec
  /\ \A s \in Server : /\ WF_vars(MineBatch(s)) /\ WF_vars(ListenerLooks(s))
                       /\ WF_vars(ListenerProcesses(s))
  /\ WF_vars(\E i \in 1 .. Len(requests) : Admit(i))
  /\ WF_vars(\E n \in notices : Notify(n))
  /\ \A p \in Player : WF_vars(ReceiveCards(p))
-----------------------------------------------------------------------------
Occurrences(b, boosters) ==
  Cardinality({ i \in 1 .. Len(boosters) : boosters[i] = b })

\* A booster is in the stock, or in the hands of one handler, or sold by one
\* transaction: the stock is taken from under one mutex, the transaction added
\* under another.
BoosterOnce ==
  \A s \in Server : \A k \in 1 .. StockSize :
    LET b == [from |-> s, bid |-> k] IN
      Occurrences(b, stock[s])
        + Cardinality({ i \in 1 .. Len(requests) :
                          requests[i].stage = "picked" /\ requests[i].booster = b })
        + Cardinality({ t \in 1 .. Len(purchase) : purchase[t].booster = b })
      = 1

\* "ve se o usuario esta nesse server pra notificar": one server tells the
\* buyer, so nobody gets the cards of a booster twice.
CardsOnce ==
  \A p \in Player : \A i, j \in 1 .. Len(cards[p]) :
    i # j => cards[p][i] # cards[p][j]

\* Nor more often than there are servers whose ledger carries the purchase: each of
\* them tells the buyer once at most, however rounds of its listener, new blocks
\* and new lists of players alternate.
CopiesBounded ==
  \A p \in Player : \A i \in 1 .. Len(cards[p]) :
    Occurrences(cards[p][i], cards[p])
      <= Cardinality({ s \in Server : \E t \in Ledgers!TxsOf(chain[s]) :
                                        purchase[t].booster = cards[p][i] })

\* A player only has cards that some ledger says this player has bought.
CardsBought ==
  \A p \in Player : \A i \in 1 .. Len(cards[p]) :
    \E s \in Server : \E t \in Ledgers!TxsOf(chain[s]) :
      purchase[t] = [player |-> p, booster |-> cards[p][i]]

\* Who was answered 202 gets the cards in the end, however many blocks are
\* appended while a listener is in a round and whatever lists of players come, if
\* none of those the buyer's server gets leaves the buyer out.
PurchaseArrives ==
  \A p \in Player :
    [](p \in known[serverAPI[p]]) =>
      \A i \in 1 .. MaxRequests :
        (/\ i <= Len(requests)
         /\ requests[i].player = p
         /\ requests[i].stage = "admitted")
          ~> (/\ i <= Len(requests)
              /\ Occurrences(requests[i].booster, cards[p]) > 0)
=============================================================================
