--------------------------- MODULE PurchasesProofs --------------------------
(***************************************************************************)
(* Theorems about Purchases, for any number of servers, players, boosters, *)
(* requests and transactions.                                              *)
(***************************************************************************)
EXTENDS Purchases, FiniteSetTheorems, TLAPS

USE PurchaseAssumption

-----------------------------------------------------------------------------
(* Sequences.                                                              *)

LEMMA Element ==
  ASSUME NEW S, NEW q \in Seq(S), NEW i \in 1 .. Len(q)
  PROVE  q[i] \in S
OBVIOUS

LEMMA OneMore ==
  ASSUME NEW c \in Nat, NEW k \in Nat
  PROVE  /\ k = c + 1 => k <= c + 1 /\ ~(k <= c)
         /\ k # c + 1 => (k <= c + 1 <=> k <= c)
OBVIOUS

LEMMA Appended ==
  ASSUME NEW S, NEW q \in Seq(S), NEW x \in S
  PROVE  /\ Append(q, x) \in Seq(S)
         /\ Len(q) \in Nat
         /\ Len(Append(q, x)) = Len(q) + 1
         /\ Append(q, x)[Len(q) + 1] = x
         /\ \A i \in 1 .. Len(q) : Append(q, x)[i] = q[i]
         /\ \A i \in 1 .. Len(Append(q, x)) :
              Append(q, x)[i] = x \/ (i \in 1 .. Len(q) /\ Append(q, x)[i] = q[i])
OBVIOUS

LEMMA Taken ==
  ASSUME NEW S, NEW q \in Seq(S), q # << >>
  PROVE  /\ Head(q) \in S /\ Tail(q) \in Seq(S)
         /\ Head(q) = q[1]
         /\ 1 \in 1 .. Len(q)
         /\ Len(q) \in Nat
         /\ Len(Tail(q)) = Len(q) - 1
         /\ \A i \in 1 .. Len(Tail(q)) : i + 1 \in 1 .. Len(q) /\ Tail(q)[i] = q[i + 1]
OBVIOUS

LEMMA Replaced ==
  ASSUME NEW S, NEW q \in Seq(S), NEW i \in 1 .. Len(q), NEW x \in S
  PROVE  /\ [q EXCEPT ![i] = x] \in Seq(S)
         /\ Len([q EXCEPT ![i] = x]) = Len(q)
         /\ q[i] \in S
         /\ \A j \in 1 .. Len(q) : [q EXCEPT ![i] = x][j] = IF j = i THEN x ELSE q[j]
OBVIOUS

LEMMA SeqOfMore ==
  ASSUME NEW S, NEW T, S \subseteq T, NEW q \in Seq(S)
  PROVE  q \in Seq(T)
OBVIOUS

-----------------------------------------------------------------------------
(* Types.                                                                  *)

Admitted == 1 .. Len(purchase)

\* The ledgers and the notices are about transactions that were admitted, and the
\* listeners' counters are numbers.
PurchaseInv ==
  /\ PurchasesTypeOK
  /\ chain \in [Server -> Seq(SUBSET Admitted)]
  /\ published \subseteq Seq(SUBSET Admitted)
  /\ last \in [Server -> Nat] /\ pos \in [Server -> Nat] /\ height \in [Server -> Nat]
  /\ \A n \in notices : n.tx \in Admitted

LEMMA PurchaseInit == Init => PurchaseInv
<1> SUFFICES ASSUME Init PROVE PurchaseInv
  OBVIOUS
<1>1. Ledgers!GenesisChain \in Seq(SUBSET Admitted) /\ Len(Ledgers!GenesisChain) = 1
  BY DEF Ledgers!GenesisChain
<1>2. chain = [s \in Server |-> Ledgers!GenesisChain] /\ published = { Ledgers!GenesisChain }
  BY DEF Init, Ledgers!Init
<1> HIDE DEF Ledgers!GenesisChain
<1>3. chain \in [Server -> Seq(SUBSET Admitted)] /\ published \subseteq Seq(SUBSET Admitted)
  BY <1>1, <1>2
<1>4. last \in [Server -> Nat] /\ pos \in [Server -> Nat] /\ height \in [Server -> Nat]
  BY DEF Init
<1>5. \A s \in Server : /\ last[s] <= pos[s] /\ pos[s] <= height[s]
                        /\ height[s] <= Len(chain[s])
  BY <1>1, <1>2 DEF Init
<1>6. stock \in [Server -> Seq(Booster)]
  <2>1. \A s \in Server : [i \in 1 .. StockSize |-> [from |-> s, bid |-> i]] \in Seq(Booster)
    BY DEF Booster
  <2> QED
    BY <2>1 DEF Init
<1>7. requests \in Seq(Request) /\ Len(requests) <= MaxRequests
      /\ purchase \in Seq(Purchase) /\ Len(purchase) <= MaxTx
  BY DEF Init
<1>8. inbox \in [Player -> Seq(Booster)] /\ cards \in [Player -> Seq(Booster)]
  BY DEF Init
<1> QED
  BY <1>3, <1>4, <1>5, <1>6, <1>7, <1>8 DEF PurchaseInv, PurchasesTypeOK, Init

\* Blocks that are appended carry what was admitted, and ledgers lose nothing.
LedgersGrow ==
  /\ chain' \in [Server -> Seq(SUBSET Admitted)]
  /\ published' \subseteq Seq(SUBSET Admitted)
  /\ \A s \in Server : /\ Len(chain[s]) <= Len(chain'[s])
                       /\ \A i \in 1 .. Len(chain[s]) : chain'[s][i] = chain[s][i]

LEMMA MinedGrows ==
  ASSUME PurchaseInv, NEW s \in Server, MineBatch(s)
  PROVE  LedgersGrow /\ mpool' \in [Server -> SUBSET Admitted]
<1>1. mpool \in [Server -> SUBSET Admitted]
  BY DEF PurchaseInv, PurchasesTypeOK, Admitted
<1>2. Len(chain[s]) \in Nat /\ chain[s] \in Seq(SUBSET Admitted)
  BY DEF PurchaseInv
<1>3. PICK batch \in SUBSET Ledgers!Tx :
        /\ chain' = [chain EXCEPT ![s] = Append(@, batch)]
        /\ published' = published \cup { Append(chain[s], batch) }
  BY DEF MineBatch, Ledgers!Mine
<1>4. chain'[s] = Append(chain[s], batch)
  BY <1>3 DEF PurchaseInv
<1>5. chain'[s][Len(chain'[s])] = batch
  BY <1>2, <1>4
<1>6. batch \subseteq mpool[s] /\ mpool' = [mpool EXCEPT ![s] = @ \ batch]
  BY <1>5 DEF MineBatch
<1>7. batch \in SUBSET Admitted
  BY <1>1, <1>6
<1>8. Append(chain[s], batch) \in Seq(SUBSET Admitted)
      /\ Len(chain[s]) <= Len(Append(chain[s], batch))
      /\ \A i \in 1 .. Len(chain[s]) : Append(chain[s], batch)[i] = chain[s][i]
  BY <1>2, <1>7, Appended
<1>9. chain' \in [Server -> Seq(SUBSET Admitted)] /\ published' \subseteq Seq(SUBSET Admitted)
  BY <1>3, <1>8 DEF PurchaseInv
<1>10. \A r \in Server : chain'[r] = IF r = s THEN Append(chain[s], batch) ELSE chain[r]
  BY <1>3 DEF PurchaseInv
<1>11. \A r \in Server : Len(chain[r]) \in Nat
  BY DEF PurchaseInv
<1>12. LedgersGrow
  BY <1>8, <1>9, <1>10, <1>11 DEF LedgersGrow
<1> QED
  BY <1>1, <1>6, <1>12

LEMMA AdoptedGrows ==
  ASSUME PurchaseInv, NEW s \in Server, AdoptBlock(s)
  PROVE  LedgersGrow
<1>1. PICK c \in published : /\ Len(c) = Len(chain[s]) + 1
                             /\ SubSeq(c, 1, Len(chain[s])) = chain[s]
                             /\ chain' = [chain EXCEPT ![s] = c]
                             /\ published' = published
  BY DEF AdoptBlock, Ledgers!Adopt
<1>2. c \in Seq(SUBSET Admitted) /\ chain[s] \in Seq(SUBSET Admitted)
  BY DEF PurchaseInv
<1>3. chain' \in [Server -> Seq(SUBSET Admitted)] /\ published' \subseteq Seq(SUBSET Admitted)
  BY <1>1, <1>2 DEF PurchaseInv
<1>4. Len(chain[s]) \in Nat /\ Len(chain[s]) <= Len(c)
      /\ \A i \in 1 .. Len(chain[s]) : c[i] = SubSeq(c, 1, Len(chain[s]))[i]
  BY <1>1, <1>2
<1>5. \A r \in Server : chain'[r] = IF r = s THEN c ELSE chain[r]
  BY <1>1 DEF PurchaseInv
<1>6. \A r \in Server : Len(chain[r]) \in Nat
  BY DEF PurchaseInv
<1> QED
  BY <1>1, <1>3, <1>4, <1>5, <1>6 DEF LedgersGrow

\* The listeners' counters stay below the length of a ledger that grows.
LEMMA CountersKept ==
  ASSUME PurchaseInv, LedgersGrow, UNCHANGED listenerVars
  PROVE  \A s \in Server : /\ last'[s] <= pos'[s] /\ pos'[s] <= height'[s]
                           /\ height'[s] <= Len(chain'[s])
<1> SUFFICES ASSUME NEW s \in Server
             PROVE  /\ last'[s] <= pos'[s] /\ pos'[s] <= height'[s]
                    /\ height'[s] <= Len(chain'[s])
  OBVIOUS
<1>1. UNCHANGED <<last, pos, height>>
  BY DEF listenerVars
<1>2. last[s] <= pos[s] /\ pos[s] <= height[s] /\ height[s] <= Len(chain[s])
  BY DEF PurchaseInv, PurchasesTypeOK
<1>3. height[s] \in Nat /\ Len(chain[s]) \in Nat /\ Len(chain'[s]) \in Nat
      /\ Len(chain[s]) <= Len(chain'[s])
  BY DEF PurchaseInv, LedgersGrow
<1> QED
  BY <1>1, <1>2, <1>3

LEMMA PurchaseNext == PurchaseInv /\ [Next]_vars => PurchaseInv'
<1> SUFFICES ASSUME PurchaseInv, [Next]_vars PROVE PurchaseInv'
  OBVIOUS
<1> USE DEF ledgerVars, playerVars, shopVars, listenerVars
<1>1. ASSUME NEW p \in Player, RequestBooster(p) PROVE PurchaseInv'
  <2> DEFINE r == [player |-> p, stage |-> "sent", booster |-> NoBooster(p)]
  <2>1. r \in Request
    BY DEF Request, Stage, NoBooster, Booster, PurchaseInv, PurchasesTypeOK
  <2>2. requests' = Append(requests, r) /\ Len(requests) < MaxRequests
    BY <1>1 DEF RequestBooster
  <2>3. requests \in Seq(Request)
    BY DEF PurchaseInv, PurchasesTypeOK
  <2> HIDE DEF r
  <2>4. requests' \in Seq(Request) /\ Len(requests') <= MaxRequests
    BY <2>1, <2>2, <2>3, Appended
  <2> QED
    BY <1>1, <2>4 DEF PurchaseInv, PurchasesTypeOK, RequestBooster, Admitted
<1>2. ASSUME NEW i \in 1 .. Len(requests), RefuseRequest(i) PROVE PurchaseInv'
  <2>1. requests \in Seq(Request) /\ requests[i] \in Request
    BY DEF PurchaseInv, PurchasesTypeOK
  <2>2. [requests[i] EXCEPT !.stage = "refused"] \in Request
    BY <2>1 DEF Request, Stage
  <2>3. requests' = [requests EXCEPT ![i] = [requests[i] EXCEPT !.stage = "refused"]]
    BY <1>2 DEF RefuseRequest
  <2>4. requests' \in Seq(Request) /\ Len(requests') = Len(requests)
    BY <2>1, <2>2, <2>3, Replaced
  <2> QED
    BY <1>2, <2>4 DEF PurchaseInv, PurchasesTypeOK, RefuseRequest, Admitted
<1>3. ASSUME NEW i \in 1 .. Len(requests), PickBooster(i) PROVE PurchaseInv'
  <2> DEFINE s == serverAPI[requests[i].player]
             r == [requests[i] EXCEPT !.stage = "picked", !.booster = Head(stock[s])]
  <2>1. requests \in Seq(Request) /\ requests[i] \in Request
    BY DEF PurchaseInv, PurchasesTypeOK
  <2>2. s \in Server
    BY <2>1 DEF PurchaseInv, PurchasesTypeOK, Request
  <2>3. stock[s] \in Seq(Booster) /\ stock[s] # << >>
    BY <1>3, <2>2 DEF PurchaseInv, PurchasesTypeOK, PickBooster
  <2>4. Head(stock[s]) \in Booster /\ Rest(stock[s]) \in Seq(Booster)
    BY <2>3, Taken DEF Rest
  <2>5. requests' = [requests EXCEPT ![i] = r]
        /\ stock' = [stock EXCEPT ![s] = Rest(stock[s])]
    BY <1>3 DEF PickBooster
  <2>6. r \in Request
    BY <2>1, <2>4 DEF Request, Stage
  <2> HIDE DEF r, s
  <2>7. requests' \in Seq(Request) /\ Len(requests') = Len(requests)
    BY <2>1, <2>5, <2>6, Replaced
  <2>8. stock' \in [Server -> Seq(Booster)]
    BY <2>2, <2>4, <2>5 DEF PurchaseInv, PurchasesTypeOK
  <2> QED
    BY <1>3, <2>7, <2>8 DEF PurchaseInv, PurchasesTypeOK, PickBooster, Admitted
<1>4. ASSUME NEW i \in 1 .. Len(requests), Admit(i) PROVE PurchaseInv'
  <2> DEFINE r == [requests[i] EXCEPT !.stage = "admitted"]
             a == [player |-> requests[i].player, booster |-> requests[i].booster]
             s == serverAPI[requests[i].player]
  <2>1. requests \in Seq(Request) /\ requests[i] \in Request
    BY DEF PurchaseInv, PurchasesTypeOK
  <2>2. r \in Request /\ a \in Purchase /\ s \in Server
    BY <2>1 DEF Request, Stage, Purchase, PurchaseInv, PurchasesTypeOK
  <2>3. /\ requests' = [requests EXCEPT ![i] = r]
        /\ purchase' = Append(purchase, a)
        /\ mpool' = [mpool EXCEPT ![s] = @ \cup {Len(purchase')}]
        /\ Len(purchase) < MaxTx
    BY <1>4 DEF Admit
  <2> HIDE DEF r, a, s
  <2>4. requests' \in Seq(Request) /\ Len(requests') = Len(requests)
    BY <2>1, <2>2, <2>3, Replaced
  <2>5. /\ purchase' \in Seq(Purchase) /\ Len(purchase) \in Nat
        /\ Len(purchase') = Len(purchase) + 1 /\ Len(purchase') <= MaxTx
    BY <2>2, <2>3, Appended DEF PurchaseInv, PurchasesTypeOK
  <2>6. Admitted \subseteq Admitted' /\ Len(purchase') \in Admitted'
    BY <2>5 DEF Admitted
  <2>10. \A n \in notices : n.tx \in Admitted'
    BY <2>6 DEF PurchaseInv
  <2>7. mpool' \in [Server -> SUBSET Admitted']
    BY <2>2, <2>3, <2>6 DEF PurchaseInv, PurchasesTypeOK, Admitted
  <2>8. chain \in [Server -> Seq(SUBSET Admitted')]
        /\ published \subseteq Seq(SUBSET Admitted')
    <3>1. SUBSET Admitted \subseteq SUBSET (Admitted')
      BY <2>6
    <3>2. \A q \in Seq(SUBSET Admitted) : q \in Seq(SUBSET (Admitted'))
      BY <3>1, SeqOfMore
    <3> QED
      BY <3>2 DEF PurchaseInv
  <2>9. UNCHANGED <<ledgerVars, stock, playerVars, listenerVars, notices, inbox, cards>>
    BY <1>4 DEF Admit
  <2> QED
    BY <2>4, <2>5, <2>7, <2>8, <2>9, <2>10 DEF PurchaseInv, PurchasesTypeOK, Admitted
<1>5. ASSUME NEW s \in Server, MineBatch(s) PROVE PurchaseInv'
  <2>1. UNCHANGED <<shopVars, playerVars, listenerVars, notices, inbox, cards>>
    BY <1>5 DEF MineBatch
  <2>2. LedgersGrow /\ mpool' \in [Server -> SUBSET Admitted]
    BY <1>5, MinedGrows
  <2> QED
    BY <2>1, <2>2, CountersKept DEF PurchaseInv, PurchasesTypeOK, Admitted, LedgersGrow
<1>6. ASSUME NEW s \in Server, AdoptBlock(s) PROVE PurchaseInv'
  <2>1. UNCHANGED <<mpool, shopVars, playerVars, listenerVars, notices, inbox, cards>>
    BY <1>6 DEF AdoptBlock
  <2>2. LedgersGrow
    BY <1>6, AdoptedGrows
  <2> QED
    BY <2>1, <2>2, CountersKept DEF PurchaseInv, PurchasesTypeOK, Admitted, LedgersGrow
<1>7. ASSUME NEW s \in Server, ListenerLooks(s) PROVE PurchaseInv'
  <2>1. Len(chain[s]) \in Nat /\ last[s] \in Nat /\ last[s] <= Len(chain[s])
    BY <1>7 DEF ListenerLooks, PurchaseInv
  <2>2. /\ height' = [height EXCEPT ![s] = Len(chain[s])]
        /\ pos' = [pos EXCEPT ![s] = last[s]] /\ last' = last
        /\ UNCHANGED <<ledgerVars, mpool, shopVars, playerVars, notices, inbox, cards>>
    BY <1>7 DEF ListenerLooks
  <2>3. pos' \in [Server -> Nat] /\ height' \in [Server -> Nat]
    BY <2>1, <2>2 DEF PurchaseInv
  <2>4. \A r \in Server : /\ last'[r] <= pos'[r] /\ pos'[r] <= height'[r]
                          /\ height'[r] <= Len(chain'[r])
    BY <2>1, <2>2 DEF PurchaseInv, PurchasesTypeOK
  <2> QED
    BY <2>2, <2>3, <2>4 DEF PurchaseInv, PurchasesTypeOK, Admitted
<1>8. ASSUME NEW s \in Server, ListenerProcesses(s) PROVE PurchaseInv'
  <2>1. /\ pos[s] \in Nat /\ height[s] \in Nat /\ last[s] \in Nat
        /\ pos[s] + 1 <= height[s] /\ last[s] <= pos[s] /\ height[s] <= Len(chain[s])
        /\ Len(chain[s]) \in Nat
    BY <1>8 DEF ListenerProcesses, PurchaseInv, PurchasesTypeOK
  <2>2. /\ pos' = [pos EXCEPT ![s] = pos[s] + 1] /\ height' = height
        /\ last' = IF pos'[s] = height[s] THEN [last EXCEPT ![s] = height[s]] ELSE last
        /\ UNCHANGED <<ledgerVars, mpool, shopVars, playerVars, inbox, cards>>
    BY <1>8 DEF ListenerProcesses, Processed
  <2>3. pos' \in [Server -> Nat] /\ last' \in [Server -> Nat]
    BY <2>1, <2>2 DEF PurchaseInv
  <2>4. \A r \in Server : /\ last'[r] <= pos'[r] /\ pos'[r] <= height'[r]
                          /\ height'[r] <= Len(chain'[r])
    <3> SUFFICES ASSUME NEW r \in Server
                 PROVE  /\ last'[r] <= pos'[r] /\ pos'[r] <= height'[r]
                        /\ height'[r] <= Len(chain'[r])
      OBVIOUS
    <3>1. CASE r = s
      <4>1. pos'[s] = pos[s] + 1
        BY <2>2 DEF PurchaseInv
      <4>2. last'[s] = IF pos'[s] = height[s] THEN height[s] ELSE last[s]
        BY <2>2 DEF PurchaseInv
      <4> QED
        BY <2>1, <2>2, <3>1, <4>1, <4>2
    <3>2. CASE r # s
      <4>1. pos'[r] = pos[r] /\ last'[r] = last[r]
        BY <2>2, <3>2 DEF PurchaseInv
      <4> QED
        BY <2>2, <4>1 DEF PurchaseInv, PurchasesTypeOK
    <3> QED
      BY <3>1, <3>2
  <2>5. notices' \subseteq Notice /\ \A n \in notices' : n.tx \in Admitted
    <3>1. chain[s][pos[s] + 1] \subseteq Admitted
      BY <2>1 DEF PurchaseInv
    <3>2. Admitted \subseteq Ledgers!Tx
      BY DEF Admitted, Ledgers!Tx, PurchaseInv, PurchasesTypeOK
    <3>3. \A t \in chain[s][pos[s] + 1] :
            t \in Admitted /\ [tx |-> t, at |-> s] \in Notice
      BY <3>1, <3>2 DEF Notice
    <3>4. notices' = notices \cup { [tx |-> t, at |-> s] : t \in chain[s][pos[s] + 1] }
      BY <1>8 DEF ListenerProcesses
    <3> QED
      BY <3>3, <3>4 DEF PurchaseInv, PurchasesTypeOK
  <2> QED
    BY <2>2, <2>3, <2>4, <2>5 DEF PurchaseInv, PurchasesTypeOK, Admitted
<1>9. ASSUME NEW n \in notices, Notify(n) PROVE PurchaseInv'
  <2>1. n.tx \in 1 .. Len(purchase) /\ purchase \in Seq(Purchase)
    BY DEF PurchaseInv, PurchasesTypeOK, Admitted
  <2>2. purchase[n.tx].booster \in Booster
    <3>1. purchase[n.tx] \in Purchase
      BY <2>1, Element
    <3> QED
      BY <3>1 DEF Purchase
  <2>3. inbox' \in [Player -> Seq(Booster)]
    <3>1. \A p \in Player : inbox[p] \in Seq(Booster)
                            /\ Append(inbox[p], purchase[n.tx].booster) \in Seq(Booster)
      BY <2>2, Appended DEF PurchaseInv, PurchasesTypeOK
    <3> QED
      BY <1>9, <3>1 DEF Notify
  <2> QED
    BY <1>9, <2>3 DEF PurchaseInv, PurchasesTypeOK, Notify, Admitted
<1>10. ASSUME NEW p \in Player, ReceiveCards(p) PROVE PurchaseInv'
  <2>1. inbox[p] \in Seq(Booster) /\ inbox[p] # << >> /\ cards[p] \in Seq(Booster)
    BY <1>10 DEF PurchaseInv, PurchasesTypeOK, ReceiveCards
  <2>2. Head(inbox[p]) \in Booster /\ Tail(inbox[p]) \in Seq(Booster)
        /\ Append(cards[p], Head(inbox[p])) \in Seq(Booster)
    BY <2>1, Taken, Appended
  <2>3. cards' \in [Player -> Seq(Booster)] /\ inbox' \in [Player -> Seq(Booster)]
    BY <1>10, <2>2 DEF PurchaseInv, PurchasesTypeOK, ReceiveCards
  <2> QED
    BY <1>10, <2>3 DEF PurchaseInv, PurchasesTypeOK, ReceiveCards, Admitted
<1>11. ASSUME NEW s \in Server, NEW l \in SUBSET Player, UpdateList(s, l) PROVE PurchaseInv'
  <2>1. known' \in [Server -> SUBSET Player]
    BY <1>11 DEF PurchaseInv, PurchasesTypeOK, UpdateList
  <2> QED
    BY <1>11, <2>1 DEF PurchaseInv, PurchasesTypeOK, UpdateList, Admitted
<1>12. ASSUME UNCHANGED vars PROVE PurchaseInv'
  BY <1>12 DEF PurchaseInv, PurchasesTypeOK, Admitted, vars
<1> QED
  BY <1>1, <1>2, <1>3, <1>4, <1>5, <1>6, <1>7, <1>8, <1>9, <1>10, <1>11, <1>12
     DEF Next, ServerStep

\* No request, transaction, notice or message is ever of another form than the
\* handlers give it, the bounds are respected, and a listener's counters never
\* pass the end of its ledger.
THEOREM PurchasesTypeCorrect == Spec => []PurchasesTypeOK
<1>1. PurchaseInv => PurchasesTypeOK
  BY DEF PurchaseInv
<1> QED
  BY <1>1, PurchaseInit, PurchaseNext, PTL DEF Spec

\* No step takes a block out of a ledger.
LEMMA LedgersKept ==
  ASSUME PurchaseInv, [Next]_vars
  PROVE  \A s \in Server : /\ Len(chain[s]) <= Len(chain'[s])
                           /\ \A i \in 1 .. Len(chain[s]) : chain'[s][i] = chain[s][i]
<1> USE DEF ledgerVars
<1>1. ASSUME NEW s \in Server, ServerStep(s) \/ AdoptBlock(s)
      PROVE  LedgersGrow \/ UNCHANGED chain
  <2>1. CASE MineBatch(s)
    BY <2>1, MinedGrows
  <2>2. CASE AdoptBlock(s)
    BY <2>2, AdoptedGrows
  <2> QED
    BY <1>1, <2>1, <2>2 DEF ServerStep, ListenerLooks, ListenerProcesses
<1>2. ASSUME NEW p \in Player, RequestBooster(p) \/ ReceiveCards(p) PROVE UNCHANGED chain
  BY <1>2 DEF RequestBooster, ReceiveCards
<1>3. ASSUME NEW i \in 1 .. Len(requests), RefuseRequest(i) \/ PickBooster(i) \/ Admit(i)
      PROVE  UNCHANGED chain
  BY <1>3 DEF RefuseRequest, PickBooster, Admit
<1>4. ASSUME NEW n \in notices, Notify(n) PROVE UNCHANGED chain
  BY <1>4 DEF Notify
<1>5. ASSUME NEW s \in Server, NEW l \in SUBSET Player, UpdateList(s, l) PROVE UNCHANGED chain
  BY <1>5 DEF UpdateList
<1>6. UNCHANGED vars => UNCHANGED chain
  BY DEF vars
<1>7. LedgersGrow \/ UNCHANGED chain
  BY <1>1, <1>2, <1>3, <1>4, <1>5, <1>6 DEF Next
<1>8. \A s \in Server : Len(chain[s]) \in Nat
  BY DEF PurchaseInv
<1> QED
  BY <1>7, <1>8 DEF LedgersGrow

-----------------------------------------------------------------------------
(* Boosters.                                                               *)

\* The handlers that hold booster b, and the transactions that sell it.
Hands(b) ==
  { i \in 1 .. Len(requests) : requests[i].stage = "picked" /\ requests[i].booster = b }
Sales(b) == { t \in 1 .. Len(purchase) : purchase[t].booster = b }

Numbered(s, k) == [from |-> s, bid |-> k]

\* How many boosters s has taken out of its stock.
TakenOut(s) == StockSize - Len(stock[s])

\* A stock is what is left of it, in its order: boosters leave at the front only.
StockInOrder ==
  \A s \in Server :
    /\ Len(stock[s]) <= StockSize
    /\ \A i \in 1 .. Len(stock[s]) : stock[s][i] = Numbered(s, TakenOut(s) + i)

\* The boosters that were taken out are held or sold, each once, the others not.
HeldOrSoldOnce ==
  \A s \in Server : \A k \in 1 .. StockSize :
    Cardinality(Hands(Numbered(s, k))) + Cardinality(Sales(Numbered(s, k)))
      = IF k <= TakenOut(s) THEN 1 ELSE 0

BoosterInv == PurchaseInv /\ StockInOrder /\ HeldOrSoldOnce

LEMMA HandsAndSalesFinite ==
  ASSUME PurchaseInv, NEW b
  PROVE  /\ IsFiniteSet(Hands(b)) /\ Cardinality(Hands(b)) \in Nat
         /\ IsFiniteSet(Sales(b)) /\ Cardinality(Sales(b)) \in Nat
<1>1. Len(requests) \in Nat /\ Len(purchase) \in Nat
  BY DEF PurchaseInv, PurchasesTypeOK
<1>2. IsFiniteSet(1 .. Len(requests)) /\ IsFiniteSet(1 .. Len(purchase))
  BY <1>1, FS_Interval
<1>3. Hands(b) \subseteq 1 .. Len(requests) /\ Sales(b) \subseteq 1 .. Len(purchase)
  BY DEF Hands, Sales
<1>4. IsFiniteSet(Hands(b)) /\ IsFiniteSet(Sales(b))
  BY <1>2, <1>3, FS_Subset
<1> QED
  BY <1>4, FS_CardinalityType

LEMMA BoosterInit == Init => StockInOrder /\ HeldOrSoldOnce
<1> SUFFICES ASSUME Init PROVE StockInOrder /\ HeldOrSoldOnce
  OBVIOUS
<1>1. \A s \in Server : Len(stock[s]) = StockSize
  BY DEF Init
<1>2. \A s \in Server : TakenOut(s) = 0
  BY <1>1 DEF TakenOut
<1>3. \A s \in Server : \A i \in 1 .. StockSize : stock[s][i] = Numbered(s, i)
  BY DEF Init, Numbered
<1>4. StockInOrder
  BY <1>1, <1>2, <1>3 DEF StockInOrder
<1>5. \A b : Hands(b) = {} /\ Sales(b) = {}
  BY DEF Hands, Sales, Init
<1>6. Cardinality({}) = 0
  BY FS_EmptySet
<1>7. HeldOrSoldOnce
  BY <1>2, <1>5, <1>6 DEF HeldOrSoldOnce
<1> QED
  BY <1>4, <1>7

\* Steps that leave the stock, what is held and what is sold alone.
LEMMA BoostersLeftAlone ==
  ASSUME StockInOrder, HeldOrSoldOnce, UNCHANGED stock,
         \A b : Hands(b)' = Hands(b), \A b : Sales(b)' = Sales(b)
  PROVE  StockInOrder' /\ HeldOrSoldOnce'
BY DEF StockInOrder, HeldOrSoldOnce, TakenOut, Numbered

LEMMA BoosterNext == BoosterInv /\ [Next]_vars => BoosterInv'
<1> SUFFICES ASSUME BoosterInv, [Next]_vars PROVE BoosterInv'
  OBVIOUS
<1> USE DEF ledgerVars, playerVars, shopVars, listenerVars
<1>0. PurchaseInv /\ PurchaseInv'
  BY PurchaseNext DEF BoosterInv
<1>1. requests \in Seq(Request) /\ purchase \in Seq(Purchase)
      /\ Len(requests) \in Nat /\ Len(purchase) \in Nat
  BY <1>0 DEF PurchaseInv, PurchasesTypeOK
<1>2. ASSUME UNCHANGED <<stock, requests, purchase>> PROVE StockInOrder' /\ HeldOrSoldOnce'
  <2>1. (\A b : Hands(b)' = Hands(b)) /\ (\A b : Sales(b)' = Sales(b))
    BY <1>2 DEF Hands, Sales
  <2> QED
    BY <1>2, <2>1, BoostersLeftAlone DEF BoosterInv
<1>3. ASSUME NEW p \in Player, RequestBooster(p) PROVE StockInOrder' /\ HeldOrSoldOnce'
  <2>1. PICK r : r.stage = "sent" /\ requests' = Append(requests, r) /\ r \in Request
    <3> DEFINE r == [player |-> p, stage |-> "sent", booster |-> NoBooster(p)]
    <3>1. r \in Request
      BY <1>0 DEF Request, Stage, NoBooster, Booster, PurchaseInv, PurchasesTypeOK
    <3> QED
      BY <1>3, <3>1 DEF RequestBooster
  <2>2. Len(requests') = Len(requests) + 1 /\ requests'[Len(requests) + 1].stage = "sent"
        /\ \A i \in 1 .. Len(requests) : requests'[i] = requests[i]
    BY <1>1, <2>1, Appended
  <2>3. \A b : Hands(b)' = Hands(b)
    BY <1>1, <2>2 DEF Hands
  <2>4. UNCHANGED <<stock, purchase>>
    BY <1>3 DEF RequestBooster
  <2>5. \A b : Sales(b)' = Sales(b)
    BY <2>4 DEF Sales
  <2> QED
    BY <2>3, <2>4, <2>5, BoostersLeftAlone DEF BoosterInv
<1>4. ASSUME NEW i \in 1 .. Len(requests), RefuseRequest(i)
      PROVE  StockInOrder' /\ HeldOrSoldOnce'
  <2>1. requests[i].stage = "sent" /\ UNCHANGED <<stock, purchase>>
        /\ requests' = [requests EXCEPT ![i] = [requests[i] EXCEPT !.stage = "refused"]]
    BY <1>4 DEF RefuseRequest
  <2>2. requests[i] \in Request
    BY <1>1, Element
  <2>3. [requests[i] EXCEPT !.stage = "refused"] \in Request
        /\ [requests[i] EXCEPT !.stage = "refused"].stage = "refused"
    BY <2>2 DEF Request, Stage
  <2>4. Len(requests') = Len(requests) /\ requests'[i].stage = "refused"
        /\ \A j \in 1 .. Len(requests) : j # i => requests'[j] = requests[j]
    BY <1>1, <2>1, <2>3, Replaced
  <2>5. \A b : Hands(b)' = Hands(b)
    BY <2>1, <2>4 DEF Hands
  <2>6. \A b : Sales(b)' = Sales(b)
    BY <2>1 DEF Sales
  <2> QED
    BY <2>1, <2>5, <2>6, BoostersLeftAlone DEF BoosterInv
<1>5. ASSUME NEW i \in 1 .. Len(requests), PickBooster(i)
      PROVE  StockInOrder' /\ HeldOrSoldOnce'
  <2> DEFINE s == serverAPI[requests[i].player]
             r == [requests[i] EXCEPT !.stage = "picked", !.booster = Head(stock[s])]
  <2>1. requests[i] \in Request /\ requests[i].stage = "sent"
    BY <1>1, <1>5, Element DEF PickBooster
  <2>2. s \in Server
    BY <1>0, <2>1 DEF PurchaseInv, PurchasesTypeOK, Request
  <2>3. stock[s] \in Seq(Booster) /\ stock[s] # << >>
    BY <1>0, <1>5, <2>2 DEF PurchaseInv, PurchasesTypeOK, PickBooster
  <2>4. /\ requests' = [requests EXCEPT ![i] = r]
        /\ stock' = [stock EXCEPT ![s] = Tail(stock[s])]
        /\ purchase' = purchase
    BY <1>5 DEF PickBooster, Rest
  <2>5. /\ Head(stock[s]) \in Booster /\ Head(stock[s]) = stock[s][1]
        /\ 1 \in 1 .. Len(stock[s]) /\ Len(stock[s]) \in Nat
        /\ Len(Tail(stock[s])) = Len(stock[s]) - 1
        /\ \A j \in 1 .. Len(Tail(stock[s])) :
             j + 1 \in 1 .. Len(stock[s]) /\ Tail(stock[s])[j] = stock[s][j + 1]
    BY <2>3, Taken
  <2>6. r \in Request /\ r.stage = "picked" /\ r.booster = Head(stock[s])
    BY <2>1, <2>5 DEF Request, Stage
  <2> HIDE DEF r, s
  <2>7. Len(requests') = Len(requests) /\ requests'[i] = r
        /\ \A j \in 1 .. Len(requests) : j # i => requests'[j] = requests[j]
    BY <1>1, <2>4, <2>6, Replaced
  <2>8. stock'[s] = Tail(stock[s]) /\ \A q \in Server : q # s => stock'[q] = stock[q]
    BY <1>0, <2>2, <2>4 DEF PurchaseInv, PurchasesTypeOK
  <2>9. TakenOut(s) \in Nat /\ Len(stock[s]) <= StockSize
    <3>1. Len(stock[s]) <= StockSize
      BY <2>2 DEF BoosterInv, StockInOrder
    <3>2. Len(stock[s]) \in Nat
      BY <2>5
    <3> QED
      BY <3>1, <3>2 DEF TakenOut
  <2>10. /\ Len(stock'[s]) = Len(stock[s]) - 1 /\ Len(stock[s]) \in Nat
         /\ StockSize - Len(stock'[s]) = TakenOut(s) + 1
    <3>1. Len(stock'[s]) = Len(stock[s]) - 1 /\ Len(stock[s]) \in Nat
      BY <2>5, <2>8
    <3> QED
      BY <3>1 DEF TakenOut
  <2>11. Head(stock[s]) = Numbered(s, TakenOut(s) + 1)
    BY <2>2, <2>5 DEF BoosterInv, StockInOrder
  <2>12. StockInOrder'
    <3> SUFFICES ASSUME NEW q \in Server
                 PROVE  /\ Len(stock'[q]) <= StockSize
                        /\ \A j \in 1 .. Len(stock'[q]) :
                             stock'[q][j] = Numbered(q, (StockSize - Len(stock'[q])) + j)
      BY DEF StockInOrder, TakenOut, Numbered
    <3>1. CASE q = s
      <4>1. \A j \in 1 .. Len(Tail(stock[s])) :
              Tail(stock[s])[j] = Numbered(s, TakenOut(s) + (j + 1))
        BY <2>2, <2>5 DEF BoosterInv, StockInOrder
      <4>2. \A j \in 1 .. Len(Tail(stock[s])) :
              TakenOut(s) + (j + 1) = (TakenOut(s) + 1) + j
        BY <2>9
      <4>3. \A j \in 1 .. Len(Tail(stock[s])) :
              Tail(stock[s])[j] = Numbered(s, (TakenOut(s) + 1) + j)
        BY <4>1, <4>2
      <4>4. Len(stock'[s]) <= StockSize
        BY <2>9, <2>10
      <4> QED
        BY <2>8, <2>10, <3>1, <4>3, <4>4
    <3>2. CASE q # s
      BY <2>8, <3>2 DEF BoosterInv, StockInOrder, TakenOut
    <3> QED
      BY <3>1, <3>2
  <2>13. HeldOrSoldOnce'
    <3> SUFFICES ASSUME NEW q \in Server, NEW k \in 1 .. StockSize, NEW b, b = Numbered(q, k)
                 PROVE  Cardinality(Hands(b)') + Cardinality(Sales(b)')
                          = IF k <= StockSize - Len(stock'[q]) THEN 1 ELSE 0
      BY DEF HeldOrSoldOnce, TakenOut, Numbered
    <3>1. Cardinality(Hands(b)) + Cardinality(Sales(b))
            = IF k <= TakenOut(q) THEN 1 ELSE 0
      BY DEF BoosterInv, HeldOrSoldOnce
    <3>2. Sales(b)' = Sales(b)
      BY <2>4 DEF Sales
    <3>3. /\ IsFiniteSet(Hands(b)) /\ Cardinality(Hands(b)) \in Nat
          /\ Cardinality(Sales(b)) \in Nat
      BY <1>0, HandsAndSalesFinite
    <3>4. CASE b = Head(stock[s])
      <4>1. q = s /\ k = TakenOut(s) + 1
        BY <2>11, <3>4 DEF Numbered
      <4>2. Hands(b)' = Hands(b) \cup {i} /\ i \notin Hands(b)
        BY <2>1, <2>6, <2>7, <3>4 DEF Hands
      <4>3. Cardinality(Hands(b)') = Cardinality(Hands(b)) + 1
        <5>1. Cardinality(Hands(b) \cup {i})
                = IF i \in Hands(b) THEN Cardinality(Hands(b)) ELSE Cardinality(Hands(b)) + 1
          BY <3>3, FS_AddElement
        <5> QED
          BY <4>2, <5>1
      <4>4. k <= StockSize - Len(stock'[q]) /\ ~(k <= TakenOut(q))
        <5>1. StockSize - Len(stock'[q]) = TakenOut(q) + 1 /\ k = TakenOut(q) + 1
          BY <2>10, <4>1
        <5>2. k \in Nat /\ TakenOut(q) \in Nat
          BY <2>9, <4>1
        <5> QED
          BY <5>1, <5>2, OneMore
      <4>5. Cardinality(Hands(b)) + Cardinality(Sales(b)) = 0
        BY <3>1, <4>4
      <4>6. Cardinality(Hands(b)') + Cardinality(Sales(b)') = 1
        BY <3>2, <3>3, <4>3, <4>5
      <4> QED
        BY <4>4, <4>6
    <3>5. CASE b # Head(stock[s])
      <4>1. Hands(b)' = Hands(b)
        BY <2>1, <2>6, <2>7, <3>5 DEF Hands
      <4>2. q = s => k # TakenOut(s) + 1
        BY <2>11, <3>5
      <4>3. (k <= StockSize - Len(stock'[q])) <=> (k <= TakenOut(q))
        <5>1. CASE q = s
          <6>1. StockSize - Len(stock'[q]) = TakenOut(q) + 1 /\ k # TakenOut(q) + 1
            BY <2>10, <4>2, <5>1
          <6>2. k \in Nat /\ TakenOut(q) \in Nat
            BY <2>9, <5>1
          <6> QED
            BY <6>1, <6>2, OneMore
        <5>2. CASE q # s
          BY <2>8, <5>2 DEF TakenOut
        <5> QED
          BY <5>1, <5>2
      <4> QED
        BY <3>1, <3>2, <4>1, <4>3
    <3> QED
      BY <3>4, <3>5
  <2> QED
    BY <2>12, <2>13
<1>6. ASSUME NEW i \in 1 .. Len(requests), Admit(i) PROVE StockInOrder' /\ HeldOrSoldOnce'
  <2> DEFINE r == [requests[i] EXCEPT !.stage = "admitted"]
             a == [player |-> requests[i].player, booster |-> requests[i].booster]
             t == Len(purchase) + 1
  <2>1. requests[i] \in Request /\ requests[i].stage = "picked"
    BY <1>1, <1>6, Element DEF Admit
  <2>2. r \in Request /\ r.stage = "admitted" /\ a \in Purchase
        /\ a.booster = requests[i].booster
    BY <2>1 DEF Request, Stage, Purchase
  <2>3. /\ requests' = [requests EXCEPT ![i] = r]
        /\ purchase' = Append(purchase, a)
        /\ stock' = stock
    BY <1>6 DEF Admit
  <2> HIDE DEF r, a
  <2>4. Len(requests') = Len(requests) /\ requests'[i] = r
        /\ \A j \in 1 .. Len(requests) : j # i => requests'[j] = requests[j]
    BY <1>1, <2>2, <2>3, Replaced
  <2>5. Len(purchase') = t /\ purchase'[t] = a
        /\ \A u \in 1 .. Len(purchase) : purchase'[u] = purchase[u]
    BY <1>1, <2>2, <2>3, Appended
  <2>6. StockInOrder'
    BY <2>3 DEF BoosterInv, StockInOrder, TakenOut, Numbered
  <2>7. HeldOrSoldOnce'
    <3> SUFFICES ASSUME NEW q \in Server, NEW k \in 1 .. StockSize, NEW b, b = Numbered(q, k)
                 PROVE  Cardinality(Hands(b)') + Cardinality(Sales(b)')
                          = IF k <= TakenOut(q) THEN 1 ELSE 0
      BY <2>3 DEF HeldOrSoldOnce, TakenOut, Numbered
    <3>1. Cardinality(Hands(b)) + Cardinality(Sales(b))
            = IF k <= TakenOut(q) THEN 1 ELSE 0
      BY DEF BoosterInv, HeldOrSoldOnce
    <3>2. /\ IsFiniteSet(Hands(b)) /\ Cardinality(Hands(b)) \in Nat
          /\ IsFiniteSet(Sales(b)) /\ Cardinality(Sales(b)) \in Nat
      BY <1>0, HandsAndSalesFinite
    <3>3. CASE b = requests[i].booster
      <4>1. Hands(b)' = Hands(b) \ {i} /\ i \in Hands(b)
        BY <2>1, <2>2, <2>4, <3>3 DEF Hands
      <4>2. Sales(b)' = Sales(b) \cup {t} /\ t \notin Sales(b)
        BY <1>1, <2>2, <2>5, <3>3 DEF Sales
      <4>3. Cardinality(Hands(b)') = Cardinality(Hands(b)) - 1
        <5>1. Cardinality(Hands(b) \ {i})
                = IF i \in Hands(b) THEN Cardinality(Hands(b)) - 1 ELSE Cardinality(Hands(b))
          BY <3>2, FS_RemoveElement
        <5> QED
          BY <4>1, <5>1
      <4>4. Cardinality(Sales(b)') = Cardinality(Sales(b)) + 1
        <5>1. Cardinality(Sales(b) \cup {t})
                = IF t \in Sales(b) THEN Cardinality(Sales(b)) ELSE Cardinality(Sales(b)) + 1
          BY <3>2, FS_AddElement
        <5> QED
          BY <4>2, <5>1
      <4> QED
        BY <3>1, <3>2, <4>3, <4>4
    <3>4. CASE b # requests[i].booster
      <4>1. Hands(b)' = Hands(b)
        BY <2>2, <2>4, <3>4 DEF Hands
      <4>2. Sales(b)' = Sales(b)
        BY <1>1, <2>2, <2>5, <3>4 DEF Sales
      <4> QED
        BY <3>1, <4>1, <4>2
    <3> QED
      BY <3>3, <3>4
  <2> QED
    BY <2>6, <2>7
<1>7. ASSUME NEW s \in Server, ServerStep(s) \/ AdoptBlock(s)
      PROVE  UNCHANGED <<stock, requests, purchase>>
  BY <1>7 DEF ServerStep, MineBatch, ListenerLooks, ListenerProcesses, AdoptBlock
<1>8. ASSUME NEW n \in notices, Notify(n) PROVE UNCHANGED <<stock, requests, purchase>>
  BY <1>8 DEF Notify
<1>9. ASSUME NEW s \in Server, NEW l \in SUBSET Player, UpdateList(s, l)
      PROVE  UNCHANGED <<stock, requests, purchase>>
  BY <1>9 DEF UpdateList
<1>10. ASSUME NEW p \in Player, ReceiveCards(p)
       PROVE  UNCHANGED <<stock, requests, purchase>>
  BY <1>10 DEF ReceiveCards
<1>11. UNCHANGED vars => UNCHANGED <<stock, requests, purchase>>
  BY DEF vars
<1>12. StockInOrder' /\ HeldOrSoldOnce'
  BY <1>2, <1>3, <1>4, <1>5, <1>6, <1>7, <1>8, <1>9, <1>10, <1>11 DEF Next
<1> QED
  BY <1>0, <1>12 DEF BoosterInv

\* Every booster of every server's stock is there, or in the hands of one handler,
\* or sold by one transaction: handleLeaderBuyCard loses none and sells none twice,
\* however the handlers of many requests interleave between the two mutexes.
THEOREM BoostersOnce == Spec => []BoosterOnce
<1>1. BoosterInv => BoosterOnce
  <2> SUFFICES ASSUME BoosterInv, NEW s \in Server, NEW k \in 1 .. StockSize,
                      NEW b, b = [from |-> s, bid |-> k]
               PROVE  Occurrences(b, stock[s]) + Cardinality(Hands(b))
                        + Cardinality(Sales(b)) = 1
    BY DEF BoosterOnce, Hands, Sales
  <2> DEFINE InStock == { i \in 1 .. Len(stock[s]) : stock[s][i] = b }
             c == TakenOut(s)
  <2>1. Len(stock[s]) \in Nat /\ Len(stock[s]) <= StockSize
    BY DEF BoosterInv, PurchaseInv, PurchasesTypeOK, StockInOrder
  <2>2. c \in Nat /\ Len(stock[s]) = StockSize - c
    BY <2>1 DEF TakenOut
  <2>3. \A i \in 1 .. Len(stock[s]) : stock[s][i] = b <=> c + i = k
    <3>1. \A i \in 1 .. Len(stock[s]) : stock[s][i] = [from |-> s, bid |-> c + i]
      BY DEF BoosterInv, StockInOrder, Numbered
    <3>2. \A i \in 1 .. Len(stock[s]) : c + i \in Nat
      BY <2>1, <2>2
    <3> HIDE DEF c
    <3> SUFFICES ASSUME NEW i \in 1 .. Len(stock[s]) PROVE stock[s][i] = b <=> c + i = k
      OBVIOUS
    <3>3. stock[s][i] = [from |-> s, bid |-> c + i]
      BY <3>1
    <3>4. [from |-> s, bid |-> c + i] = [from |-> s, bid |-> k] <=> c + i = k
      OBVIOUS
    <3> QED
      BY <3>3, <3>4
  <2>4. Cardinality(Hands(b)) + Cardinality(Sales(b)) = IF k <= c THEN 1 ELSE 0
    BY DEF BoosterInv, HeldOrSoldOnce, Numbered
  <2>5. Cardinality(Hands(b)) \in Nat /\ Cardinality(Sales(b)) \in Nat
    BY HandsAndSalesFinite DEF BoosterInv
  <2> HIDE DEF c
  <2>6. Cardinality(InStock) = IF k <= c THEN 0 ELSE 1
    <3>1. CASE k <= c
      <4>1. InStock = {}
        BY <2>2, <2>3, <3>1
      <4> QED
        BY <3>1, <4>1, FS_EmptySet
    <3>2. CASE k > c
      <4>1. InStock = { k - c }
        BY <2>2, <2>3, <3>2
      <4>2. ~(k <= c)
        BY <2>2, <3>2
      <4> QED
        BY <4>1, <4>2, FS_Singleton
    <3> QED
      BY <2>2, <3>1, <3>2
  <2>7. Occurrences(b, stock[s]) = Cardinality(InStock)
    BY DEF Occurrences
  <2> HIDE DEF InStock
  <2> QED
    BY <2>4, <2>5, <2>6, <2>7
<1>2. Init => BoosterInv
  BY PurchaseInit, BoosterInit DEF BoosterInv
<1> QED
  BY <1>1, <1>2, BoosterNext, PTL DEF Spec

-----------------------------------------------------------------------------
(* Cards.                                                                  *)

\* Transaction t is in some ledger, and it is the purchase of b by p.
OnLedger(t) == \E s \in Server : t \in Ledgers!TxsOf(chain[s])
Bought(p, b) == \E t : OnLedger(t) /\ purchase[t] = [player |-> p, booster |-> b]

\* Whatever is on its way to a player, or has arrived, is of a ledger.
NoticesBought == \A n \in notices : OnLedger(n.tx)
InboxBought == \A p \in Player : \A i \in 1 .. Len(inbox[p]) : Bought(p, inbox[p][i])
CollectionBought == \A p \in Player : \A i \in 1 .. Len(cards[p]) : Bought(p, cards[p][i])

CardInv == PurchaseInv /\ NoticesBought /\ InboxBought /\ CollectionBought

LEMMA OnLedgerAdmitted ==
  ASSUME PurchaseInv, NEW t, OnLedger(t)
  PROVE  t \in Admitted
<1>1. PICK s \in Server : t \in Ledgers!TxsOf(chain[s])
  BY DEF OnLedger
<1>2. PICK i \in 1 .. Len(chain[s]) : t \in chain[s][i]
  BY <1>1 DEF Ledgers!TxsOf
<1>3. chain[s] \in Seq(SUBSET Admitted)
  BY DEF PurchaseInv
<1>4. chain[s][i] \in SUBSET Admitted
  BY <1>3, Element
<1> QED
  BY <1>2, <1>4

\* What is on a ledger stays there.
LEMMA OnLedgerStays ==
  ASSUME PurchaseInv, [Next]_vars, NEW t, OnLedger(t)
  PROVE  OnLedger(t)'
<1>1. PICK s \in Server : t \in Ledgers!TxsOf(chain[s])
  BY DEF OnLedger
<1>2. PICK i \in 1 .. Len(chain[s]) : t \in chain[s][i]
  BY <1>1 DEF Ledgers!TxsOf
<1>3. chain'[s][i] = chain[s][i] /\ Len(chain[s]) <= Len(chain'[s])
  BY LedgersKept
<1>4. Len(chain[s]) \in Nat /\ Len(chain'[s]) \in Nat
  BY PurchaseNext DEF PurchaseInv
<1>5. i \in 1 .. Len(chain'[s])
  BY <1>3, <1>4
<1> QED
  BY <1>2, <1>3, <1>5 DEF OnLedger, Ledgers!TxsOf

\* What a transaction says does not change.
LEMMA PurchaseStays ==
  ASSUME PurchaseInv, [Next]_vars, NEW t \in Admitted
  PROVE  purchase'[t] = purchase[t]
<1> USE DEF shopVars
<1>1. ASSUME NEW i \in 1 .. Len(requests), Admit(i) PROVE purchase'[t] = purchase[t]
  <2> DEFINE a == [player |-> requests[i].player, booster |-> requests[i].booster]
  <2>1. requests[i] \in Request /\ purchase \in Seq(Purchase)
    BY Element DEF PurchaseInv, PurchasesTypeOK
  <2>2. a \in Purchase /\ purchase' = Append(purchase, a)
    BY <1>1, <2>1 DEF Admit, Request, Purchase
  <2> HIDE DEF a
  <2> QED
    BY <2>1, <2>2, Appended DEF Admitted
<1>2. ASSUME NEW i \in 1 .. Len(requests), RefuseRequest(i) \/ PickBooster(i)
      PROVE  purchase' = purchase
  BY <1>2 DEF RefuseRequest, PickBooster
<1>3. ASSUME NEW p \in Player, RequestBooster(p) \/ ReceiveCards(p)
      PROVE  purchase' = purchase
  BY <1>3 DEF RequestBooster, ReceiveCards
<1>4. ASSUME NEW s \in Server, ServerStep(s) \/ AdoptBlock(s) PROVE purchase' = purchase
  BY <1>4 DEF ServerStep, MineBatch, ListenerLooks, ListenerProcesses, AdoptBlock
<1>5. ASSUME NEW n \in notices, Notify(n) PROVE purchase' = purchase
  BY <1>5 DEF Notify
<1>6. ASSUME NEW s \in Server, NEW l \in SUBSET Player, UpdateList(s, l) PROVE purchase' = purchase
  BY <1>6 DEF UpdateList
<1>7. UNCHANGED vars => purchase' = purchase
  BY DEF vars
<1> QED
  BY <1>1, <1>2, <1>3, <1>4, <1>5, <1>6, <1>7 DEF Next

LEMMA BoughtStays ==
  ASSUME PurchaseInv, [Next]_vars, NEW p, NEW b, Bought(p, b)
  PROVE  Bought(p, b)'
<1>1. PICK t : OnLedger(t) /\ purchase[t] = [player |-> p, booster |-> b]
  BY DEF Bought
<1>2. OnLedger(t)' /\ purchase'[t] = purchase[t]
  BY <1>1, OnLedgerStays, OnLedgerAdmitted, PurchaseStays
<1> QED
  BY <1>1, <1>2 DEF Bought

\* A step that starts no notice, sends nothing and delivers nothing.
LEMMA CardsLeftAlone ==
  ASSUME PurchaseInv, [Next]_vars, NoticesBought, InboxBought, CollectionBought,
         UNCHANGED <<notices, inbox, cards>>
  PROVE  NoticesBought' /\ InboxBought' /\ CollectionBought'
<1>1. NoticesBought'
  <2> SUFFICES ASSUME NEW n \in notices PROVE OnLedger(n.tx)'
    BY DEF NoticesBought
  <2>1. OnLedger(n.tx)
    BY DEF NoticesBought
  <2> QED
    BY <2>1, OnLedgerStays
<1>2. InboxBought'
  <2> SUFFICES ASSUME NEW p \in Player, NEW i \in 1 .. Len(inbox[p]),
                      NEW b, b = inbox[p][i]
               PROVE  Bought(p, b)'
    BY DEF InboxBought, Bought, OnLedger
  <2> QED
    BY BoughtStays DEF InboxBought
<1>3. CollectionBought'
  <2> SUFFICES ASSUME NEW p \in Player, NEW i \in 1 .. Len(cards[p]),
                      NEW b, b = cards[p][i]
               PROVE  Bought(p, b)'
    BY DEF CollectionBought, Bought, OnLedger
  <2> QED
    BY BoughtStays DEF CollectionBought
<1> QED
  BY <1>1, <1>2, <1>3

LEMMA CardInit == Init => NoticesBought /\ InboxBought /\ CollectionBought
BY DEF Init, NoticesBought, InboxBought, CollectionBought

LEMMA CardNext == CardInv /\ [Next]_vars => CardInv'
<1> SUFFICES ASSUME CardInv, [Next]_vars PROVE CardInv'
  OBVIOUS
<1> DEFINE Kept == NoticesBought' /\ InboxBought' /\ CollectionBought'
<1> USE DEF ledgerVars, playerVars, shopVars, listenerVars
<1>0. PurchaseInv /\ PurchaseInv'
  BY PurchaseNext DEF CardInv
<1>1. UNCHANGED <<notices, inbox, cards>> => Kept
  BY <1>0, CardsLeftAlone DEF CardInv
<1>2. ASSUME NEW s \in Server, ListenerProcesses(s) PROVE Kept
  <2>1. /\ notices' = notices \cup { [tx |-> t, at |-> s] : t \in chain[s][pos[s] + 1] }
        /\ UNCHANGED <<chain, purchase, inbox, cards>> /\ pos[s] < height[s]
    BY <1>2 DEF ListenerProcesses
  <2>2. pos[s] + 1 \in 1 .. Len(chain[s])
    <3>1. pos[s] \in Nat /\ height[s] \in Nat /\ Len(chain[s]) \in Nat
      BY <1>0 DEF PurchaseInv
    <3>2. height[s] <= Len(chain[s])
      BY <1>0 DEF PurchaseInv, PurchasesTypeOK
    <3> QED
      BY <2>1, <3>1, <3>2
  <2>3. \A t \in chain[s][pos[s] + 1] : OnLedger(t)
    BY <2>2 DEF OnLedger, Ledgers!TxsOf
  <2>4. \A t : OnLedger(t)' <=> OnLedger(t)
    BY <2>1 DEF OnLedger, Ledgers!TxsOf
  <2>5. NoticesBought'
    BY <2>1, <2>3, <2>4 DEF CardInv, NoticesBought
  <2>6. InboxBought'
    BY <2>1 DEF CardInv, InboxBought, Bought, OnLedger
  <2>7. CollectionBought'
    BY <2>1 DEF CardInv, CollectionBought, Bought, OnLedger
  <2> QED
    BY <2>5, <2>6, <2>7
<1>3. ASSUME NEW n \in notices, Notify(n) PROVE Kept
  <2>1. /\ notices' = notices \ {n} /\ UNCHANGED <<chain, purchase, cards>>
        /\ inbox' = [p \in Player |-> IF p \in Recipients(n)
                                      THEN Append(inbox[p], purchase[n.tx].booster)
                                      ELSE inbox[p]]
    BY <1>3 DEF Notify
  <2>2. NoticesBought' /\ CollectionBought'
    BY <2>1 DEF CardInv, NoticesBought, CollectionBought, Bought, OnLedger
  <2>3. OnLedger(n.tx)
    BY DEF CardInv, NoticesBought
  <2>4. purchase[n.tx] \in Purchase
    <3>1. n.tx \in 1 .. Len(purchase) /\ purchase \in Seq(Purchase)
      BY <1>0 DEF PurchaseInv, PurchasesTypeOK, Admitted
    <3> QED
      BY <3>1, Element
  <2>5. \A p \in Recipients(n) : Bought(p, purchase[n.tx].booster)
    BY <2>3, <2>4 DEF Recipients, Bought, Purchase
  <2>6. ASSUME NEW p \in Player, NEW i \in 1 .. Len(inbox'[p]), NEW b, b = inbox'[p][i]
        PROVE  Bought(p, b)
    <3>1. inbox[p] \in Seq(Booster) /\ purchase[n.tx].booster \in Booster
      BY <1>0, <2>4 DEF PurchaseInv, PurchasesTypeOK, Purchase
    <3>2. CASE p \in Recipients(n)
      <4>1. inbox'[p] = Append(inbox[p], purchase[n.tx].booster)
        BY <2>1, <3>2
      <4>2. b = purchase[n.tx].booster \/ (i \in 1 .. Len(inbox[p]) /\ b = inbox[p][i])
        BY <2>6, <3>1, <4>1, Appended
      <4> QED
        BY <2>5, <3>2, <4>2 DEF CardInv, InboxBought
    <3>3. CASE p \notin Recipients(n)
      BY <2>1, <2>6, <3>3 DEF CardInv, InboxBought
    <3> QED
      BY <3>2, <3>3
  <2>7. InboxBought'
    BY <2>1, <2>6 DEF InboxBought, Bought, OnLedger
  <2> QED
    BY <2>2, <2>7
<1>4. ASSUME NEW p \in Player, ReceiveCards(p) PROVE Kept
  <2>1. /\ cards' = [cards EXCEPT ![p] = Append(cards[p], Head(inbox[p]))]
        /\ inbox' = [inbox EXCEPT ![p] = Tail(inbox[p])]
        /\ inbox[p] # << >> /\ UNCHANGED <<notices, chain, purchase>>
    BY <1>4 DEF ReceiveCards
  <2>2. inbox[p] \in Seq(Booster) /\ cards[p] \in Seq(Booster)
    BY <1>0 DEF PurchaseInv, PurchasesTypeOK
  <2>3. /\ Head(inbox[p]) \in Booster /\ Head(inbox[p]) = inbox[p][1]
        /\ 1 \in 1 .. Len(inbox[p])
        /\ \A i \in 1 .. Len(Tail(inbox[p])) :
             i + 1 \in 1 .. Len(inbox[p]) /\ Tail(inbox[p])[i] = inbox[p][i + 1]
    BY <2>1, <2>2, Taken
  <2>4. Bought(p, Head(inbox[p]))
    BY <2>3 DEF CardInv, InboxBought
  <2>5. /\ inbox'[p] = Tail(inbox[p]) /\ cards'[p] = Append(cards[p], Head(inbox[p]))
        /\ \A q \in Player : q # p => inbox'[q] = inbox[q] /\ cards'[q] = cards[q]
    BY <1>0, <2>1 DEF PurchaseInv, PurchasesTypeOK
  <2>6. ASSUME NEW q \in Player, NEW i \in 1 .. Len(inbox'[q]), NEW b, b = inbox'[q][i]
        PROVE  Bought(q, b)
    <3>1. CASE q = p
      <4>1. i + 1 \in 1 .. Len(inbox[p]) /\ b = inbox[p][i + 1]
        BY <2>3, <2>5, <2>6, <3>1
      <4> QED
        BY <3>1, <4>1 DEF CardInv, InboxBought
    <3>2. CASE q # p
      BY <2>5, <2>6, <3>2 DEF CardInv, InboxBought
    <3> QED
      BY <3>1, <3>2
  <2>7. ASSUME NEW q \in Player, NEW i \in 1 .. Len(cards'[q]), NEW b, b = cards'[q][i]
        PROVE  Bought(q, b)
    <3>1. CASE q = p
      <4>1. b = Head(inbox[p]) \/ (i \in 1 .. Len(cards[p]) /\ b = cards[p][i])
        BY <2>2, <2>3, <2>5, <2>7, <3>1, Appended
      <4> QED
        BY <2>4, <3>1, <4>1 DEF CardInv, CollectionBought
    <3>2. CASE q # p
      BY <2>5, <2>7, <3>2 DEF CardInv, CollectionBought
    <3> QED
      BY <3>1, <3>2
  <2>8. NoticesBought'
    BY <2>1 DEF CardInv, NoticesBought, OnLedger
  <2>9. InboxBought'
    BY <2>1, <2>6 DEF InboxBought, Bought, OnLedger
  <2>10. CollectionBought'
    BY <2>1, <2>7 DEF CollectionBought, Bought, OnLedger
  <2> QED
    BY <2>8, <2>9, <2>10
<1>5. ASSUME NEW p \in Player, RequestBooster(p) PROVE Kept
  BY <1>1, <1>5 DEF RequestBooster
<1>6. ASSUME NEW i \in 1 .. Len(requests), RefuseRequest(i) \/ PickBooster(i) \/ Admit(i)
      PROVE  Kept
  BY <1>1, <1>6 DEF RefuseRequest, PickBooster, Admit
<1>7. ASSUME NEW s \in Server, MineBatch(s) \/ ListenerLooks(s) \/ AdoptBlock(s) PROVE Kept
  BY <1>1, <1>7 DEF MineBatch, ListenerLooks, AdoptBlock
<1>8. ASSUME NEW s \in Server, NEW l \in SUBSET Player, UpdateList(s, l) PROVE Kept
  BY <1>1, <1>8 DEF UpdateList
<1>9. UNCHANGED vars => Kept
  BY <1>1 DEF vars
<1> HIDE DEF Kept
<1>10. Kept
  BY <1>2, <1>3, <1>4, <1>5, <1>6, <1>7, <1>8, <1>9 DEF Next, ServerStep
<1> QED
  BY <1>0, <1>10 DEF CardInv, Kept

\* No client ever holds cards that some ledger does not say it has bought: what the
\* listeners announce was appended, what was appended stays, and what a transaction
\* says does not change on the way.
THEOREM CardsAreBought == Spec => []CardsBought
<1>1. CardInv => CardsBought
  <2> SUFFICES ASSUME CardInv, NEW p \in Player, NEW i \in 1 .. Len(cards[p]),
                      NEW b, b = cards[p][i]
               PROVE  \E s \in Server : \E t \in Ledgers!TxsOf(chain[s]) :
                        purchase[t] = [player |-> p, booster |-> b]
    BY DEF CardsBought
  <2>1. Bought(p, b)
    BY DEF CardInv, CollectionBought
  <2> QED
    BY <2>1 DEF Bought, OnLedger
<1>2. Init => CardInv
  BY PurchaseInit, CardInit DEF CardInv
<1> QED
  BY <1>1, <1>2, CardNext, PTL DEF Spec

-----------------------------------------------------------------------------
(* Copies.                                                                 *)

FromStock(b) == \E s \in Server, k \in 1 .. StockSize : b = Numbered(s, k)

\* What is sold comes out of a stock: NoBooster is never in it.
SoldReal ==
  /\ \A i \in 1 .. Len(requests) :
       requests[i].stage = "picked" => FromStock(requests[i].booster)
  /\ \A t \in Admitted : FromStock(purchase[t].booster)

\* A transaction is in one block of a ledger.
TxOncePerLedger ==
  \A c \in published : \A i, j \in 1 .. Len(c) : c[i] \cap c[j] # {} => i = j
LedgersPublished == \A s \in Server : chain[s] \in published

\* The listener of s has been through the block that carries t.
Passed(s, t) == \E k \in 1 .. pos[s] : t \in chain[s][k]

\* It takes up where it stopped, and its goroutines are about what it has seen.
RoundsEnd == \A s \in Server : pos[s] = height[s] => last[s] = pos[s]
NoticesPassed == \A n \in notices : Passed(n.at, n.tx)

OnceInv ==
  /\ BoosterInv /\ SoldReal
  /\ TxOncePerLedger /\ LedgersPublished
  /\ RoundsEnd /\ NoticesPassed

\* A booster is sold by one transaction.
LEMMA OneSale ==
  ASSUME BoosterInv, SoldReal, NEW t \in Admitted, NEW u \in Admitted,
         purchase[t].booster = purchase[u].booster
  PROVE  t = u
<1>1. PICK s \in Server, k \in 1 .. StockSize : purchase[t].booster = Numbered(s, k)
  BY DEF SoldReal, FromStock
<1> DEFINE b == Numbered(s, k)
<1>2. t \in Sales(b) /\ u \in Sales(b)
  BY <1>1 DEF Sales, Admitted
<1>3. Cardinality(Hands(b)) + Cardinality(Sales(b)) = IF k <= TakenOut(s) THEN 1 ELSE 0
  BY DEF BoosterInv, HeldOrSoldOnce
<1>4. /\ Cardinality(Hands(b)) \in Nat
      /\ IsFiniteSet(Sales(b)) /\ Cardinality(Sales(b)) \in Nat
  BY HandsAndSalesFinite DEF BoosterInv
<1> HIDE DEF b
<1>5. Cardinality(Sales(b)) = 0 \/ Cardinality(Sales(b)) = 1
  BY <1>3, <1>4
<1>6. Cardinality(Sales(b)) # 0
  BY <1>2, <1>4, FS_EmptySet
<1>7. PICK x : Sales(b) = {x}
  BY <1>4, <1>5, <1>6, FS_Singleton
<1> QED
  BY <1>2, <1>7

LEMMA SoldRealNext ==
  ASSUME BoosterInv, SoldReal, [Next]_vars
  PROVE  SoldReal'
<1> USE DEF ledgerVars, playerVars, shopVars, listenerVars
<1>0. PurchaseInv
  BY DEF BoosterInv
<1>1. requests \in Seq(Request) /\ purchase \in Seq(Purchase)
      /\ Len(requests) \in Nat /\ Len(purchase) \in Nat
  BY <1>0 DEF PurchaseInv, PurchasesTypeOK
<1>2. ASSUME UNCHANGED <<requests, purchase>> PROVE SoldReal'
  BY <1>2 DEF SoldReal, FromStock, Numbered, Admitted
<1>3. ASSUME NEW p \in Player, RequestBooster(p) PROVE SoldReal'
  <2>1. PICK r : r.stage = "sent" /\ requests' = Append(requests, r) /\ r \in Request
    <3> DEFINE r == [player |-> p, stage |-> "sent", booster |-> NoBooster(p)]
    <3>1. r \in Request
      BY <1>0 DEF Request, Stage, NoBooster, Booster, PurchaseInv, PurchasesTypeOK
    <3> QED
      BY <1>3, <3>1 DEF RequestBooster
  <2>2. \A i \in 1 .. Len(requests') :
          requests'[i].stage = "picked"
            => i \in 1 .. Len(requests) /\ requests'[i] = requests[i]
    BY <1>1, <2>1, Appended
  <2>3. purchase' = purchase
    BY <1>3 DEF RequestBooster
  <2> QED
    BY <2>2, <2>3 DEF SoldReal, FromStock, Numbered, Admitted
<1>4. ASSUME NEW i \in 1 .. Len(requests), RefuseRequest(i) PROVE SoldReal'
  <2>1. purchase' = purchase
        /\ requests' = [requests EXCEPT ![i] = [requests[i] EXCEPT !.stage = "refused"]]
    BY <1>4 DEF RefuseRequest
  <2>1a. requests[i] \in Request
    BY <1>1, Element
  <2>2. [requests[i] EXCEPT !.stage = "refused"] \in Request
        /\ [requests[i] EXCEPT !.stage = "refused"].stage = "refused"
    BY <2>1a DEF Request, Stage
  <2>3. Len(requests') = Len(requests) /\ requests'[i].stage = "refused"
        /\ \A j \in 1 .. Len(requests) : j # i => requests'[j] = requests[j]
    BY <1>1, <2>1, <2>2, Replaced
  <2>20. \A j \in 1 .. Len(requests') :
           requests'[j].stage = "picked" => FromStock(requests'[j].booster)
    BY <2>3 DEF SoldReal
  <2>21. \A t \in 1 .. Len(purchase') : FromStock(purchase'[t].booster)
    BY <2>1 DEF SoldReal, Admitted
  <2> QED
    BY <2>20, <2>21 DEF SoldReal, FromStock, Numbered, Admitted
<1>5. ASSUME NEW i \in 1 .. Len(requests), PickBooster(i) PROVE SoldReal'
  <2> DEFINE s == serverAPI[requests[i].player]
             r == [requests[i] EXCEPT !.stage = "picked", !.booster = Head(stock[s])]
  <2>1. requests[i] \in Request
    BY <1>1, Element
  <2>2. s \in Server
    BY <1>0, <2>1 DEF PurchaseInv, PurchasesTypeOK, Request
  <2>3. stock[s] \in Seq(Booster) /\ stock[s] # << >>
    BY <1>0, <1>5, <2>2 DEF PurchaseInv, PurchasesTypeOK, PickBooster
  <2>4. purchase' = purchase /\ requests' = [requests EXCEPT ![i] = r]
    BY <1>5 DEF PickBooster
  <2>5. Head(stock[s]) \in Booster /\ Head(stock[s]) = stock[s][1] /\ 1 \in 1 .. Len(stock[s])
    BY <2>3, Taken
  <2>6. r \in Request /\ r.booster = Head(stock[s])
    BY <2>1, <2>5 DEF Request, Stage
  <2> HIDE DEF r, s
  <2>7. Len(requests') = Len(requests) /\ requests'[i] = r
        /\ \A j \in 1 .. Len(requests) : j # i => requests'[j] = requests[j]
    BY <1>1, <2>4, <2>6, Replaced
  <2>8. Head(stock[s]) = Numbered(s, TakenOut(s) + 1) /\ Len(stock[s]) <= StockSize
    BY <2>2, <2>5 DEF BoosterInv, StockInOrder
  <2>9. TakenOut(s) + 1 \in 1 .. StockSize
    <3>1. Len(stock[s]) \in Nat /\ Len(stock[s]) # 0
      BY <2>3
    <3> QED
      BY <2>8, <3>1 DEF TakenOut
  <2>10. FromStock(r.booster)
    BY <2>2, <2>6, <2>8, <2>9 DEF FromStock
  <2>20. \A j \in 1 .. Len(requests') :
           requests'[j].stage = "picked" => FromStock(requests'[j].booster)
    BY <2>7, <2>10 DEF SoldReal
  <2>21. \A t \in 1 .. Len(purchase') : FromStock(purchase'[t].booster)
    BY <2>4 DEF SoldReal, Admitted
  <2> QED
    BY <2>20, <2>21 DEF SoldReal, FromStock, Numbered, Admitted
<1>6. ASSUME NEW i \in 1 .. Len(requests), Admit(i) PROVE SoldReal'
  <2> DEFINE r == [requests[i] EXCEPT !.stage = "admitted"]
             a == [player |-> requests[i].player, booster |-> requests[i].booster]
  <2>1. requests[i] \in Request /\ requests[i].stage = "picked"
    BY <1>1, <1>6, Element DEF Admit
  <2>2. r \in Request /\ r.stage = "admitted" /\ a \in Purchase
        /\ a.booster = requests[i].booster
    BY <2>1 DEF Request, Stage, Purchase
  <2>3. requests' = [requests EXCEPT ![i] = r] /\ purchase' = Append(purchase, a)
    BY <1>6 DEF Admit
  <2> HIDE DEF r, a
  <2>4. Len(requests') = Len(requests) /\ requests'[i] = r
        /\ \A j \in 1 .. Len(requests) : j # i => requests'[j] = requests[j]
    BY <1>1, <2>2, <2>3, Replaced
  <2>5. \A u \in 1 .. Len(purchase') :
          purchase'[u] = a \/ (u \in 1 .. Len(purchase) /\ purchase'[u] = purchase[u])
    BY <1>1, <2>2, <2>3, Appended
  <2>6. FromStock(a.booster)
    BY <2>1, <2>2 DEF SoldReal
  <2>20. \A j \in 1 .. Len(requests') :
           requests'[j].stage = "picked" => FromStock(requests'[j].booster)
    BY <2>2, <2>4 DEF SoldReal
  <2>21. \A t \in 1 .. Len(purchase') : FromStock(purchase'[t].booster)
    BY <2>5, <2>6 DEF SoldReal, Admitted
  <2> QED
    BY <2>20, <2>21 DEF SoldReal, FromStock, Numbered, Admitted
<1>7. ASSUME NEW s \in Server, ServerStep(s) \/ AdoptBlock(s)
      PROVE  UNCHANGED <<requests, purchase>>
  BY <1>7 DEF ServerStep, MineBatch, ListenerLooks, ListenerProcesses, AdoptBlock
<1>8. ASSUME NEW n \in notices, Notify(n) PROVE UNCHANGED <<requests, purchase>>
  BY <1>8 DEF Notify
<1>9. ASSUME NEW p \in Player, ReceiveCards(p)
      PROVE  UNCHANGED <<requests, purchase>>
  BY <1>9 DEF ReceiveCards
<1>10. ASSUME NEW s \in Server, NEW l \in SUBSET Player, UpdateList(s, l)
       PROVE  UNCHANGED <<requests, purchase>>
  BY <1>10 DEF UpdateList
<1>11. UNCHANGED vars => UNCHANGED <<requests, purchase>>
  BY DEF vars
<1> QED
  BY <1>2, <1>3, <1>4, <1>5, <1>6, <1>7, <1>8, <1>9, <1>10, <1>11 DEF Next

LEMMA LedgerOnceNext ==
  ASSUME PurchaseInv, TxOncePerLedger, LedgersPublished, [Next]_vars
  PROVE  TxOncePerLedger' /\ LedgersPublished'
<1> USE DEF ledgerVars
<1>1. ASSUME NEW s \in Server, MineBatch(s) PROVE TxOncePerLedger' /\ LedgersPublished'
  <2>1. PICK batch \in SUBSET Ledgers!Tx :
          /\ \A c \in published : batch \cap Ledgers!TxsOf(c) = {}
          /\ chain' = [chain EXCEPT ![s] = Append(@, batch)]
          /\ published' = published \cup { Append(chain[s], batch) }
    BY <1>1 DEF MineBatch, Ledgers!Mine
  <2>2. chain[s] \in published /\ chain[s] \in Seq(SUBSET Admitted)
    BY DEF LedgersPublished, PurchaseInv
  <2>3. \A i \in 1 .. Len(chain[s]) : batch \cap chain[s][i] = {}
    BY <2>1, <2>2 DEF Ledgers!TxsOf
  <2>4. ASSUME NEW i \in 1 .. Len(Append(chain[s], batch)),
               NEW j \in 1 .. Len(Append(chain[s], batch)),
               Append(chain[s], batch)[i] \cap Append(chain[s], batch)[j] # {}
        PROVE  i = j
    <3>1. \A k \in 1 .. Len(Append(chain[s], batch)) :
            \/ k \in 1 .. Len(chain[s]) /\ Append(chain[s], batch)[k] = chain[s][k]
            \/ k = Len(chain[s]) + 1 /\ Append(chain[s], batch)[k] = batch
      BY <2>2
    <3>2. \A k, l \in 1 .. Len(chain[s]) : chain[s][k] \cap chain[s][l] # {} => k = l
      BY <2>2 DEF TxOncePerLedger
    <3> QED
      BY <2>3, <2>4, <3>1, <3>2
  <2>5. TxOncePerLedger'
    BY <2>1, <2>4 DEF TxOncePerLedger
  <2>6. LedgersPublished'
    BY <2>1 DEF LedgersPublished, PurchaseInv
  <2> QED
    BY <2>5, <2>6
<1>2. ASSUME NEW s \in Server, AdoptBlock(s) PROVE TxOncePerLedger' /\ LedgersPublished'
  <2>1. PICK c \in published : chain' = [chain EXCEPT ![s] = c] /\ published' = published
    BY <1>2 DEF AdoptBlock, Ledgers!Adopt
  <2> QED
    BY <2>1 DEF TxOncePerLedger, LedgersPublished, PurchaseInv
<1>3. ASSUME UNCHANGED <<chain, published>> PROVE TxOncePerLedger' /\ LedgersPublished'
  BY <1>3 DEF TxOncePerLedger, LedgersPublished
<1>4. ASSUME NEW s \in Server, ListenerLooks(s) \/ ListenerProcesses(s)
      PROVE  UNCHANGED <<chain, published>>
  BY <1>4 DEF ListenerLooks, ListenerProcesses
<1>5. ASSUME NEW p \in Player, RequestBooster(p) \/ ReceiveCards(p)
      PROVE  UNCHANGED <<chain, published>>
  BY <1>5 DEF RequestBooster, ReceiveCards
<1>6. ASSUME NEW i \in 1 .. Len(requests), RefuseRequest(i) \/ PickBooster(i) \/ Admit(i)
      PROVE  UNCHANGED <<chain, published>>
  BY <1>6 DEF RefuseRequest, PickBooster, Admit
<1>7. ASSUME NEW n \in notices, Notify(n) PROVE UNCHANGED <<chain, published>>
  BY <1>7 DEF Notify
<1>8. ASSUME NEW s \in Server, NEW l \in SUBSET Player, UpdateList(s, l)
      PROVE  UNCHANGED <<chain, published>>
  BY <1>8 DEF UpdateList
<1>9. UNCHANGED vars => UNCHANGED <<chain, published>>
  BY DEF vars
<1> QED
  BY <1>1, <1>2, <1>3, <1>4, <1>5, <1>6, <1>7, <1>8, <1>9 DEF Next, ServerStep

\* What a step does to the listeners: one of them looks, or processes a block, or
\* none does anything.
LEMMA ListenerSteps ==
  ASSUME [Next]_vars
  PROVE  \/ \E s \in Server : ListenerLooks(s)
         \/ \E s \in Server : ListenerProcesses(s)
         \/ UNCHANGED listenerVars /\ notices' \subseteq notices
<1>1. ASSUME NEW s \in Server, MineBatch(s) \/ AdoptBlock(s)
      PROVE  UNCHANGED listenerVars /\ notices' = notices
  BY <1>1 DEF MineBatch, AdoptBlock
<1>2. ASSUME NEW p \in Player, RequestBooster(p) \/ ReceiveCards(p)
      PROVE  UNCHANGED listenerVars /\ notices' = notices
  BY <1>2 DEF RequestBooster, ReceiveCards
<1>3. ASSUME NEW i \in 1 .. Len(requests), RefuseRequest(i) \/ PickBooster(i) \/ Admit(i)
      PROVE  UNCHANGED listenerVars /\ notices' = notices
  BY <1>3 DEF RefuseRequest, PickBooster, Admit
<1>4. ASSUME NEW n \in notices, Notify(n)
      PROVE  UNCHANGED listenerVars /\ notices' \subseteq notices
  BY <1>4 DEF Notify
<1>5. ASSUME NEW s \in Server, NEW l \in SUBSET Player, UpdateList(s, l)
      PROVE  UNCHANGED listenerVars /\ notices' = notices
  BY <1>5 DEF UpdateList
<1>6. UNCHANGED vars => UNCHANGED listenerVars /\ notices' = notices
  BY DEF vars
<1> QED
  BY <1>1, <1>2, <1>3, <1>4, <1>5, <1>6 DEF Next, ServerStep

\* A listener never goes back.
LEMMA PosGrows ==
  ASSUME PurchaseInv, RoundsEnd, [Next]_vars
  PROVE  /\ RoundsEnd'
         /\ \A s \in Server : pos[s] <= pos'[s]
<1> USE DEF listenerVars
<1>0. /\ last \in [Server -> Nat] /\ pos \in [Server -> Nat] /\ height \in [Server -> Nat]
      /\ \A s \in Server : last[s] <= pos[s] /\ pos[s] <= height[s] /\ Len(chain[s]) \in Nat
  BY DEF PurchaseInv, PurchasesTypeOK
<1>1. ASSUME NEW s \in Server, ListenerLooks(s)
      PROVE  RoundsEnd' /\ pos' = pos
  <2>1. /\ pos[s] = height[s] /\ Len(chain[s]) > last[s]
        /\ height' = [height EXCEPT ![s] = Len(chain[s])]
        /\ pos' = [pos EXCEPT ![s] = last[s]]
        /\ last' = last
    BY <1>1 DEF ListenerLooks
  <2>2. last[s] = pos[s]
    BY <2>1 DEF RoundsEnd
  <2>3. pos' = pos
    BY <1>0, <2>1, <2>2
  <2>4. pos[s] # height'[s]
    BY <1>0, <2>1, <2>2
  <2>5. \A r \in Server : r # s => height'[r] = height[r]
    BY <1>0, <2>1
  <2> QED
    BY <2>1, <2>3, <2>4, <2>5 DEF RoundsEnd
<1>2. ASSUME NEW s \in Server, ListenerProcesses(s)
      PROVE  RoundsEnd' /\ \A r \in Server : pos[r] <= pos'[r]
  <2>1. /\ pos' = [pos EXCEPT ![s] = pos[s] + 1]
        /\ last' = IF pos'[s] = height[s] THEN [last EXCEPT ![s] = height[s]] ELSE last
        /\ height' = height
    BY <1>2 DEF ListenerProcesses, Processed
  <2>2. pos'[s] = pos[s] + 1 /\ \A r \in Server : r # s => pos'[r] = pos[r]
    BY <1>0, <2>1
  <2>3. \A r \in Server : r # s => last'[r] = last[r]
    BY <1>0, <2>1
  <2>4. pos'[s] = height[s] => last'[s] = height[s]
    BY <1>0, <2>1
  <2>5. RoundsEnd'
    BY <2>1, <2>2, <2>3, <2>4 DEF RoundsEnd
  <2>6. \A r \in Server : pos[r] \in Nat
    BY <1>0
  <2> QED
    BY <2>2, <2>5, <2>6
<1>3. CASE UNCHANGED listenerVars
  BY <1>0, <1>3 DEF RoundsEnd
<1> QED
  BY <1>0, <1>1, <1>2, <1>3, ListenerSteps

LEMMA PassedStays ==
  ASSUME PurchaseInv, RoundsEnd, [Next]_vars, NEW s \in Server, NEW t, Passed(s, t)
  PROVE  Passed(s, t)'
<1>1. PICK k \in 1 .. pos[s] : t \in chain[s][k]
  BY DEF Passed
<1>2. pos[s] <= height[s] /\ height[s] <= Len(chain[s]) /\ pos[s] <= pos'[s]
  BY PosGrows DEF PurchaseInv, PurchasesTypeOK
<1>3. /\ pos[s] \in Nat /\ height[s] \in Nat /\ Len(chain[s]) \in Nat
      /\ pos'[s] \in Nat
  BY PurchaseNext DEF PurchaseInv
<1>4. k \in 1 .. Len(chain[s]) /\ k \in 1 .. pos'[s]
  BY <1>2, <1>3
<1>5. chain'[s][k] = chain[s][k]
  BY <1>4, LedgersKept
<1> QED
  BY <1>1, <1>4, <1>5 DEF Passed

\* The goroutines that a listener starts for a block are about its transactions.
LEMMA Announced ==
  ASSUME PurchaseInv, NEW s \in Server, ListenerProcesses(s), NEW n \in notices',
         n \notin notices
  PROVE  /\ n.at = s /\ n.tx \in chain[s][pos[s] + 1] /\ n = [tx |-> n.tx, at |-> s]
         /\ pos[s] + 1 \in 1 .. pos'[s] /\ pos[s] + 1 \in 1 .. Len(chain[s])
         /\ chain' = chain
<1>1. /\ pos[s] < height[s]
      /\ notices' = notices \cup { [tx |-> t, at |-> s] : t \in chain[s][pos[s] + 1] }
      /\ pos' = [pos EXCEPT ![s] = pos[s] + 1]
      /\ chain' = chain
  BY DEF ListenerProcesses, ledgerVars
<1>2. pos[s] \in Nat /\ height[s] \in Nat /\ Len(chain[s]) \in Nat /\ height[s] <= Len(chain[s])
  BY DEF PurchaseInv, PurchasesTypeOK
<1>3. pos'[s] = pos[s] + 1
  BY <1>1 DEF PurchaseInv
<1>4. pos[s] + 1 \in 1 .. pos'[s] /\ pos[s] + 1 \in 1 .. Len(chain[s])
  BY <1>1, <1>2, <1>3
<1>5. PICK t \in chain[s][pos[s] + 1] : n = [tx |-> t, at |-> s]
  BY <1>1
<1> QED
  BY <1>1, <1>4, <1>5

LEMMA NoticesPassedNext ==
  ASSUME PurchaseInv, RoundsEnd, NoticesPassed, [Next]_vars
  PROVE  NoticesPassed'
<1> SUFFICES ASSUME NEW n \in notices' PROVE Passed(n.at, n.tx)'
  BY DEF NoticesPassed
<1>1. CASE n \in notices
  <2>1. n.at \in Server /\ Passed(n.at, n.tx)
    BY <1>1 DEF PurchaseInv, PurchasesTypeOK, Notice, NoticesPassed
  <2>2. PICK s \in Server : s = n.at
    BY <2>1
  <2>3. PICK t : t = n.tx
    OBVIOUS
  <2>4. Passed(s, t)'
    BY <2>1, <2>2, <2>3, PassedStays
  <2> QED
    BY <2>2, <2>3, <2>4
<1>2. CASE n \notin notices
  <2>1. PICK s \in Server : ListenerProcesses(s)
    BY <1>2, ListenerSteps DEF ListenerLooks
  <2> QED
    BY <1>2, <2>1, Announced DEF Passed
<1> QED
  BY <1>1, <1>2

\* The goroutine of s for t has run.
Told(s, t) == Passed(s, t) /\ [tx |-> t, at |-> s] \notin notices

\* It never runs again, as t is in no other block of the ledger of s.
LEMMA ToldStays ==
  ASSUME OnceInv, [Next]_vars, NEW s \in Server, NEW t, Told(s, t)
  PROVE  Told(s, t)'
<1>0. PurchaseInv /\ RoundsEnd /\ Passed(s, t)
  BY DEF OnceInv, BoosterInv, Told
<1>1. Passed(s, t)'
  BY <1>0, PassedStays
<1>2. SUFFICES ASSUME [tx |-> t, at |-> s] \in notices' PROVE FALSE
  BY <1>1 DEF Told
<1>3. PICK r \in Server : ListenerProcesses(r)
  BY <1>2, ListenerSteps DEF Told, ListenerLooks
<1>4. r = s /\ t \in chain[s][pos[s] + 1] /\ pos[s] + 1 \in 1 .. Len(chain[s])
  BY <1>0, <1>2, <1>3, Announced DEF Told
<1>5. PICK k \in 1 .. pos[s] : t \in chain[s][k]
  BY <1>0 DEF Passed
<1>6. pos[s] \in Nat /\ Len(chain[s]) \in Nat
  BY <1>0 DEF PurchaseInv
<1>7. k \in 1 .. Len(chain[s]) /\ k # pos[s] + 1
  BY <1>4, <1>6
<1>8. chain[s] \in published /\ chain[s][k] \cap chain[s][pos[s] + 1] # {}
  BY <1>4, <1>5 DEF OnceInv, LedgersPublished
<1> QED
  BY <1>4, <1>7, <1>8 DEF OnceInv, TxOncePerLedger

\* The servers that are done with telling player p of booster b.
Tellers(p, b) ==
  { s \in Server : \E t \in Admitted : /\ purchase[t] = [player |-> p, booster |-> b]
                                       /\ Told(s, t) }

LEMMA AdmittedGrows ==
  ASSUME PurchaseInv, [Next]_vars
  PROVE  Admitted \subseteq Admitted'
<1> USE DEF shopVars
<1>0. Len(purchase) \in Nat /\ purchase \in Seq(Purchase)
  BY DEF PurchaseInv, PurchasesTypeOK
<1>1. ASSUME NEW i \in 1 .. Len(requests), Admit(i) PROVE Len(purchase') = Len(purchase) + 1
  <2> DEFINE a == [player |-> requests[i].player, booster |-> requests[i].booster]
  <2>1. purchase' = Append(purchase, a)
    BY <1>1 DEF Admit
  <2> HIDE DEF a
  <2> QED
    BY <1>0, <2>1
<1>2. ASSUME NEW i \in 1 .. Len(requests), RefuseRequest(i) \/ PickBooster(i)
      PROVE  purchase' = purchase
  BY <1>2 DEF RefuseRequest, PickBooster
<1>3. ASSUME NEW p \in Player, RequestBooster(p) \/ ReceiveCards(p)
      PROVE  purchase' = purchase
  BY <1>3 DEF RequestBooster, ReceiveCards
<1>4. ASSUME NEW s \in Server, ServerStep(s) \/ AdoptBlock(s) PROVE purchase' = purchase
  BY <1>4 DEF ServerStep, MineBatch, ListenerLooks, ListenerProcesses, AdoptBlock
<1>5. ASSUME NEW n \in notices, Notify(n) PROVE purchase' = purchase
  BY <1>5 DEF Notify
<1>6. ASSUME NEW s \in Server, NEW l \in SUBSET Player, UpdateList(s, l) PROVE purchase' = purchase
  BY <1>6 DEF UpdateList
<1>7. UNCHANGED vars => purchase' = purchase
  BY DEF vars
<1>8. Len(purchase') = Len(purchase) + 1 \/ purchase' = purchase
  BY <1>1, <1>2, <1>3, <1>4, <1>5, <1>6, <1>7 DEF Next
<1> QED
  BY <1>0, <1>8 DEF Admitted

LEMMA TellersGrow ==
  ASSUME OnceInv, [Next]_vars, NEW p, NEW b
  PROVE  Tellers(p, b) \subseteq Tellers(p, b)'
<1>0. PurchaseInv
  BY DEF OnceInv, BoosterInv
<1> SUFFICES ASSUME NEW s \in Tellers(p, b) PROVE s \in Tellers(p, b)'
  OBVIOUS
<1>1. PICK t \in Admitted : purchase[t] = [player |-> p, booster |-> b] /\ Told(s, t)
  BY DEF Tellers
<1>2. s \in Server
  BY DEF Tellers
<1>3. Told(s, t)'
  BY <1>1, <1>2, ToldStays
<1>4. t \in Admitted' /\ purchase'[t] = purchase[t]
  BY <1>0, AdmittedGrows, PurchaseStays
<1> QED
  BY <1>1, <1>2, <1>3, <1>4 DEF Tellers

Places(b, q) == { i \in 1 .. Len(q) : q[i] = b }

LEMMA PlacesFinite ==
  ASSUME NEW S, NEW q \in Seq(S), NEW b
  PROVE  /\ IsFiniteSet(Places(b, q)) /\ Cardinality(Places(b, q)) \in Nat
         /\ Occurrences(b, q) = Cardinality(Places(b, q))
<1>1. IsFiniteSet(1 .. Len(q))
  BY FS_Interval
<1>2. Places(b, q) \subseteq 1 .. Len(q)
  BY DEF Places
<1>3. IsFiniteSet(Places(b, q))
  BY <1>1, <1>2, FS_Subset
<1> QED
  BY <1>3, FS_CardinalityType DEF Occurrences, Places

LEMMA OccurrencesAppend ==
  ASSUME NEW S, NEW q \in Seq(S), NEW x \in S, NEW b
  PROVE  Occurrences(b, Append(q, x))
           = IF x = b THEN Occurrences(b, q) + 1 ELSE Occurrences(b, q)
<1> DEFINE l == Len(q) + 1
<1>1. /\ Append(q, x) \in Seq(S) /\ Len(q) \in Nat /\ Len(Append(q, x)) = l
      /\ Append(q, x)[l] = x
      /\ \A i \in 1 .. Len(q) : Append(q, x)[i] = q[i]
  BY Appended
<1>2. /\ IsFiniteSet(Places(b, q))
      /\ Occurrences(b, q) = Cardinality(Places(b, q))
      /\ Occurrences(b, Append(q, x)) = Cardinality(Places(b, Append(q, x)))
  BY <1>1, PlacesFinite
<1>3. l \notin Places(b, q)
  BY <1>1 DEF Places
<1>4. CASE x = b
  <2>1. Places(b, Append(q, x)) = Places(b, q) \cup {l}
    BY <1>1, <1>4 DEF Places
  <2>2. Cardinality(Places(b, q) \cup {l})
          = IF l \in Places(b, q) THEN Cardinality(Places(b, q))
            ELSE Cardinality(Places(b, q)) + 1
    BY <1>2, FS_AddElement
  <2> QED
    BY <1>2, <1>3, <1>4, <2>1, <2>2
<1>5. CASE x # b
  <2>1. Places(b, Append(q, x)) = Places(b, q)
    BY <1>1, <1>5 DEF Places
  <2> QED
    BY <1>2, <1>5, <2>1
<1> QED
  BY <1>4, <1>5

LEMMA OccurrencesTail ==
  ASSUME NEW S, NEW q \in Seq(S), q # << >>, NEW b
  PROVE  (IF Head(q) = b THEN Occurrences(b, Tail(q)) + 1 ELSE Occurrences(b, Tail(q)))
           <= Occurrences(b, q)
<1>1. /\ Head(q) = q[1] /\ 1 \in 1 .. Len(q)
      /\ Tail(q) \in Seq(S)
      /\ \A i \in 1 .. Len(Tail(q)) : i + 1 \in 1 .. Len(q) /\ Tail(q)[i] = q[i + 1]
  BY Taken
<1> DEFINE T == Places(b, Tail(q))
           Q == Places(b, q) \ {1}
           f == [i \in T |-> i + 1]
<1>2. /\ IsFiniteSet(T) /\ Cardinality(T) \in Nat
      /\ Occurrences(b, Tail(q)) = Cardinality(T)
  BY <1>1, PlacesFinite
<1>3. /\ IsFiniteSet(Places(b, q)) /\ Cardinality(Places(b, q)) \in Nat
      /\ Occurrences(b, q) = Cardinality(Places(b, q))
  BY PlacesFinite
<1>4. IsFiniteSet(Q) /\ Cardinality(Q) \in Nat
      /\ Cardinality(Q) = IF 1 \in Places(b, q) THEN Cardinality(Places(b, q)) - 1
                          ELSE Cardinality(Places(b, q))
  <2>1. IsFiniteSet(Q)
    BY <1>3, FS_RemoveElement
  <2>2. Cardinality(Places(b, q) \ {1})
          = IF 1 \in Places(b, q) THEN Cardinality(Places(b, q)) - 1
            ELSE Cardinality(Places(b, q))
    BY <1>3, FS_RemoveElement
  <2> QED
    BY <2>1, <2>2, FS_CardinalityType
<1>5. 1 \in Places(b, q) <=> Head(q) = b
  BY <1>1 DEF Places
<1>6. Cardinality(T) <= Cardinality(Q)
  <2>1. T \subseteq 1 .. Len(Tail(q)) /\ Len(Tail(q)) \in Nat
    BY <1>1 DEF Places
  <2>2. \A i \in T : i + 1 \in Q
    BY <1>1, <2>1 DEF Places
  <2>3. \A i, j \in T : i + 1 = j + 1 => i = j
    BY <2>1
  <2> HIDE DEF T, Q
  <2>4. f \in Injection(T, Q)
    BY <2>2, <2>3 DEF Injection, IsInjective
  <2> QED
    BY <1>4, <2>4, FS_Injection
<1> HIDE DEF T, Q
<1> QED
  BY <1>2, <1>3, <1>4, <1>5, <1>6

\* Each copy of a booster that p has got, or is about to get, is one server's.
CopiesTold ==
  \A p \in Player : \A b \in Booster :
    Occurrences(b, inbox[p]) + Occurrences(b, cards[p]) <= Cardinality(Tellers(p, b))

LEMMA TellersFinite ==
  ASSUME IsFiniteSet(Server), NEW p, NEW b
  PROVE  /\ IsFiniteSet(Tellers(p, b)) /\ Cardinality(Tellers(p, b)) \in Nat
         /\ IsFiniteSet(Tellers(p, b)') /\ Cardinality(Tellers(p, b)') \in Nat
<1>1. Tellers(p, b) \subseteq Server /\ Tellers(p, b)' \subseteq Server
  BY DEF Tellers
<1>2. IsFiniteSet(Tellers(p, b)) /\ IsFiniteSet(Tellers(p, b)')
  BY <1>1, FS_Subset
<1> QED
  BY <1>2, FS_CardinalityType

LEMMA OnceNext == OnceInv /\ [Next]_vars => OnceInv'
<1> SUFFICES ASSUME OnceInv, [Next]_vars PROVE OnceInv'
  OBVIOUS
<1>1. BoosterInv /\ PurchaseInv
  BY DEF OnceInv, BoosterInv
<1>2. BoosterInv'
  BY <1>1, BoosterNext
<1>3. SoldReal'
  BY <1>1, SoldRealNext DEF OnceInv
<1>4. TxOncePerLedger' /\ LedgersPublished'
  BY <1>1, LedgerOnceNext DEF OnceInv
<1>5. RoundsEnd' /\ NoticesPassed'
  BY <1>1, PosGrows, NoticesPassedNext DEF OnceInv
<1> QED
  BY <1>2, <1>3, <1>4, <1>5 DEF OnceInv

\* A goroutine that tells p makes a teller of a server that was none.
LEMMA NotifyTells ==
  ASSUME IsFiniteSet(Server), OnceInv, NEW n \in notices, Notify(n),
         NEW p \in Player, NEW b \in Booster
  PROVE  Occurrences(b, inbox'[p]) - Occurrences(b, inbox[p])
           <= Cardinality(Tellers(p, b)') - Cardinality(Tellers(p, b))
<1> USE DEF ledgerVars, shopVars, playerVars, listenerVars
<1>0. PurchaseInv /\ [Next]_vars
  BY DEF OnceInv, BoosterInv, Next
<1>1. inbox[p] \in Seq(Booster) /\ Occurrences(b, inbox[p]) \in Nat
  BY <1>0, PlacesFinite DEF PurchaseInv, PurchasesTypeOK
<1>2. /\ IsFiniteSet(Tellers(p, b)) /\ Cardinality(Tellers(p, b)) \in Nat
      /\ IsFiniteSet(Tellers(p, b)') /\ Cardinality(Tellers(p, b)') \in Nat
  BY TellersFinite
<1>3. Tellers(p, b) \subseteq Tellers(p, b)'
  BY <1>0, TellersGrow
<1>4. /\ inbox'[p] = IF p \in Recipients(n) THEN Append(inbox[p], purchase[n.tx].booster)
                     ELSE inbox[p]
      /\ notices' = notices \ {n}
      /\ UNCHANGED <<chain, pos, purchase>>
  BY DEF Notify
<1>5. PICK s \in Server, t \in Admitted : n = [tx |-> t, at |-> s]
  <2>1. n.tx \in Admitted /\ n \in Notice
    BY <1>0 DEF PurchaseInv, PurchasesTypeOK
  <2> QED
    BY <2>1 DEF Notice
<1>6. n.tx = t /\ n.at = s
  BY <1>5
<1>7. PICK c : c = purchase[t].booster
  OBVIOUS
<1>8. purchase[t] \in Purchase /\ c \in Booster
  <2>1. purchase \in Seq(Purchase) /\ t \in 1 .. Len(purchase)
    BY <1>0 DEF PurchaseInv, PurchasesTypeOK, Admitted
  <2>2. purchase[t] \in Purchase
    BY <2>1, Element
  <2> QED
    BY <1>7, <2>2 DEF Purchase
<1>9. CASE p \in Recipients(n) /\ c = b
  <2>1. p = purchase[t].player
    BY <1>6, <1>9 DEF Recipients
  <2>2. purchase[t] = [player |-> p, booster |-> b]
    BY <1>7, <1>8, <1>9, <2>1 DEF Purchase
  <2>3. s \notin Tellers(p, b)
    <3> SUFFICES ASSUME s \in Tellers(p, b) PROVE FALSE
      OBVIOUS
    <3>1. PICK u \in Admitted : purchase[u] = [player |-> p, booster |-> b] /\ Told(s, u)
      BY DEF Tellers
    <3>2. u = t
      BY <2>2, <3>1, OneSale DEF OnceInv
    <3> QED
      BY <1>5, <3>1, <3>2 DEF Told
  <2>4. s \in Tellers(p, b)'
    <3>1. Passed(s, t)
      BY <1>6 DEF OnceInv, NoticesPassed
    <3>2. Told(s, t)'
      BY <1>4, <1>5, <3>1 DEF Told, Passed
    <3>3. Admitted' = Admitted
      BY <1>4 DEF Admitted
    <3> QED
      BY <1>4, <2>1, <2>2, <3>2, <3>3 DEF Tellers
  <2>5. Cardinality(Tellers(p, b) \cup {s}) = Cardinality(Tellers(p, b)) + 1
    <3>1. Cardinality(Tellers(p, b) \cup {s})
            = IF s \in Tellers(p, b) THEN Cardinality(Tellers(p, b))
              ELSE Cardinality(Tellers(p, b)) + 1
      BY <1>2, FS_AddElement
    <3> QED
      BY <2>3, <3>1
  <2>6. Tellers(p, b) \cup {s} \subseteq Tellers(p, b)'
    BY <1>3, <2>4
  <2>7. Cardinality(Tellers(p, b) \cup {s}) <= Cardinality(Tellers(p, b)')
    BY <1>2, <2>6, FS_Subset
  <2>8. Occurrences(b, Append(inbox[p], c)) = Occurrences(b, inbox[p]) + 1
    BY <1>1, <1>8, <1>9, OccurrencesAppend
  <2>9. inbox'[p] = Append(inbox[p], c)
    BY <1>4, <1>6, <1>7, <1>9
  <2> QED
    BY <1>1, <1>2, <2>5, <2>7, <2>8, <2>9
<1>10. CASE ~ (p \in Recipients(n) /\ c = b)
  <2>1. Occurrences(b, inbox'[p]) = Occurrences(b, inbox[p])
    <3>1. CASE p \in Recipients(n)
      <4>1. inbox'[p] = Append(inbox[p], c)
        BY <1>4, <1>6, <1>7, <3>1
      <4> QED
        BY <1>1, <1>8, <1>10, <3>1, <4>1, OccurrencesAppend
    <3> QED
      BY <1>4, <3>1
  <2>2. Cardinality(Tellers(p, b)) <= Cardinality(Tellers(p, b)')
    BY <1>2, <1>3, FS_Subset
  <2> QED
    BY <1>1, <1>2, <2>1, <2>2
<1> QED
  BY <1>9, <1>10

LEMMA CopiesNext ==
  IsFiniteSet(Server) /\ OnceInv /\ CopiesTold /\ [Next]_vars => CopiesTold'
<1> SUFFICES ASSUME IsFiniteSet(Server), OnceInv, CopiesTold, [Next]_vars,
                    NEW p \in Player, NEW b \in Booster
             PROVE  Occurrences(b, inbox'[p]) + Occurrences(b, cards'[p])
                      <= Cardinality(Tellers(p, b)')
  BY DEF CopiesTold, Occurrences, Booster
<1>0. PurchaseInv /\ PurchaseInv'
  BY PurchaseNext DEF OnceInv, BoosterInv
<1>1. /\ inbox \in [Player -> Seq(Booster)] /\ inbox' \in [Player -> Seq(Booster)]
      /\ cards \in [Player -> Seq(Booster)] /\ cards' \in [Player -> Seq(Booster)]
  BY <1>0 DEF PurchaseInv, PurchasesTypeOK, Booster
<1>2. /\ Occurrences(b, inbox[p]) \in Nat /\ Occurrences(b, inbox'[p]) \in Nat
      /\ Occurrences(b, cards[p]) \in Nat /\ Occurrences(b, cards'[p]) \in Nat
  BY <1>1, PlacesFinite
<1>3. Cardinality(Tellers(p, b)) \in Nat /\ Cardinality(Tellers(p, b)') \in Nat
  BY TellersFinite
<1>4. Cardinality(Tellers(p, b)) <= Cardinality(Tellers(p, b)')
  <2>1. Tellers(p, b) \subseteq Tellers(p, b)' /\ IsFiniteSet(Tellers(p, b)')
    BY TellersGrow, TellersFinite
  <2> QED
    BY <2>1, FS_Subset
<1>5. Occurrences(b, inbox[p]) + Occurrences(b, cards[p]) <= Cardinality(Tellers(p, b))
  BY DEF CopiesTold
<1> DEFINE Goal == Occurrences(b, inbox'[p]) + Occurrences(b, cards'[p])
                     <= Cardinality(Tellers(p, b)')
<1>6. ASSUME UNCHANGED <<inbox, cards>> PROVE Goal
  BY <1>2, <1>3, <1>4, <1>5, <1>6
<1>7. ASSUME NEW n \in notices, Notify(n) PROVE Goal
  <2>1. cards' = cards
    BY <1>7 DEF Notify
  <2>2. Occurrences(b, inbox'[p]) - Occurrences(b, inbox[p])
          <= Cardinality(Tellers(p, b)') - Cardinality(Tellers(p, b))
    BY <1>7, NotifyTells
  <2> QED
    BY <1>2, <1>3, <1>5, <2>1, <2>2
<1>8. ASSUME NEW q \in Player, ReceiveCards(q) PROVE Goal
  <2>1. /\ inbox[q] # << >>
        /\ cards' = [cards EXCEPT ![q] = Append(cards[q], Head(inbox[q]))]
        /\ inbox' = [inbox EXCEPT ![q] = Tail(inbox[q])]
    BY <1>8 DEF ReceiveCards
  <2>2. CASE q = p
    <3>1. inbox[p] \in Seq(Booster) /\ inbox[p] # << >> /\ cards[p] \in Seq(Booster)
      BY <1>1, <2>1, <2>2
    <3>2. cards'[p] = Append(cards[p], Head(inbox[p])) /\ inbox'[p] = Tail(inbox[p])
      BY <1>1, <2>1, <2>2
    <3>3. PICK x : x = Head(inbox[p])
      OBVIOUS
    <3>4. x \in Booster
      BY <3>1, <3>3, Taken
    <3>5. Occurrences(b, cards'[p])
            = IF x = b THEN Occurrences(b, cards[p]) + 1 ELSE Occurrences(b, cards[p])
      BY <3>1, <3>2, <3>3, <3>4, OccurrencesAppend
    <3>6. (IF x = b THEN Occurrences(b, inbox'[p]) + 1 ELSE Occurrences(b, inbox'[p]))
            <= Occurrences(b, inbox[p])
      BY <3>1, <3>2, <3>3, OccurrencesTail
    <3> QED
      BY <1>2, <1>3, <1>4, <1>5, <3>5, <3>6
  <2>3. CASE q # p
    <3>1. cards'[p] = cards[p] /\ inbox'[p] = inbox[p]
      BY <1>1, <2>1, <2>3
    <3> QED
      BY <1>2, <1>3, <1>4, <1>5, <3>1
  <2> QED
    BY <2>2, <2>3
<1>9. ASSUME NEW q \in Player, RequestBooster(q) PROVE UNCHANGED <<inbox, cards>>
  BY <1>9 DEF RequestBooster
<1>10. ASSUME NEW i \in 1 .. Len(requests), RefuseRequest(i) \/ PickBooster(i) \/ Admit(i)
       PROVE  UNCHANGED <<inbox, cards>>
  BY <1>10 DEF RefuseRequest, PickBooster, Admit
<1>11. ASSUME NEW s \in Server, ServerStep(s) \/ AdoptBlock(s) PROVE UNCHANGED <<inbox, cards>>
  BY <1>11 DEF ServerStep, MineBatch, ListenerLooks, ListenerProcesses, AdoptBlock
<1>12. ASSUME NEW s \in Server, NEW l \in SUBSET Player, UpdateList(s, l)
       PROVE  UNCHANGED <<inbox, cards>>
  BY <1>12 DEF UpdateList
<1>13. UNCHANGED vars => UNCHANGED <<inbox, cards>>
  BY DEF vars
<1> HIDE DEF Goal
<1>14. Goal
  BY <1>6, <1>7, <1>8, <1>9, <1>10, <1>11, <1>12, <1>13 DEF Next
<1> QED
  BY <1>14 DEF Goal

LEMMA OnceInit == Init => OnceInv /\ CopiesTold
<1> SUFFICES ASSUME Init PROVE OnceInv /\ CopiesTold
  OBVIOUS
<1>1. BoosterInv
  BY PurchaseInit, BoosterInit DEF BoosterInv
<1>2. SoldReal
  BY DEF Init, SoldReal, Admitted
<1>3. TxOncePerLedger /\ LedgersPublished
  BY DEF Init, Ledgers!Init, Ledgers!GenesisChain, TxOncePerLedger, LedgersPublished
<1>4. RoundsEnd /\ NoticesPassed
  BY DEF Init, RoundsEnd, NoticesPassed
<1>5. CopiesTold
  <2> SUFFICES ASSUME NEW p \in Player, NEW b \in Booster
               PROVE  Occurrences(b, inbox[p]) + Occurrences(b, cards[p])
                        <= Cardinality(Tellers(p, b))
    BY DEF CopiesTold
  <2>1. Places(b, << >>) = {}
    BY DEF Places
  <2>2. Occurrences(b, << >>) = 0
    BY <2>1, FS_EmptySet DEF Occurrences, Places
  <2>3. inbox[p] = << >> /\ cards[p] = << >>
    BY DEF Init
  <2>4. Tellers(p, b) = {}
    BY DEF Tellers, Init, Admitted
  <2> QED
    BY <2>2, <2>3, <2>4, FS_EmptySet
<1> QED
  BY <1>1, <1>2, <1>3, <1>4, <1>5 DEF OnceInv

\* A client never holds more copies of a booster than there are servers whose ledger
\* carries its sale, whatever lists of players replace one another: a server tells
\* it at most once, when its listener passes the one block of its ledger that
\* carries the one transaction that sells the booster.
THEOREM CopiesAreBounded ==
  ASSUME IsFiniteSet(Server)
  PROVE  Spec => []CopiesBounded
<1> DEFINE Inv == OnceInv /\ CopiesTold
<1>1. Inv => CopiesBounded
  <2> SUFFICES ASSUME Inv, NEW p \in Player, NEW i \in 1 .. Len(cards[p]),
                      NEW b, b = cards[p][i]
               PROVE  Occurrences(b, cards[p])
                        <= Cardinality({ s \in Server : \E t \in Ledgers!TxsOf(chain[s]) :
                                                          purchase[t].booster = b })
    BY DEF CopiesBounded
  <2>1. inbox[p] \in Seq(Booster) /\ cards[p] \in Seq(Booster)
    BY DEF OnceInv, BoosterInv, PurchaseInv, PurchasesTypeOK
  <2>2. b \in Booster
    BY <2>1, Element
  <2>3. Occurrences(b, inbox[p]) \in Nat /\ Occurrences(b, cards[p]) \in Nat
    BY <2>1, PlacesFinite
  <2>4. Occurrences(b, inbox[p]) + Occurrences(b, cards[p]) <= Cardinality(Tellers(p, b))
    BY <2>2 DEF CopiesTold
  <2> DEFINE K == { s \in Server : \E t \in Ledgers!TxsOf(chain[s]) :
                                   purchase[t].booster = b }
  <2>5. Tellers(p, b) \subseteq K /\ IsFiniteSet(K)
    <3>1. ASSUME NEW s \in Server, NEW t, Passed(s, t)
          PROVE  t \in Ledgers!TxsOf(chain[s])
      <4>1. pos[s] \in Nat /\ Len(chain[s]) \in Nat /\ pos[s] <= Len(chain[s])
        <5>1. PurchaseInv
          BY DEF OnceInv, BoosterInv
        <5>2. pos[s] \in Nat /\ height[s] \in Nat /\ Len(chain[s]) \in Nat
          BY <5>1 DEF PurchaseInv
        <5>3. pos[s] <= height[s] /\ height[s] <= Len(chain[s])
          BY <5>1 DEF PurchaseInv, PurchasesTypeOK
        <5> QED
          BY <5>2, <5>3
      <4>2. PICK k \in 1 .. pos[s] : t \in chain[s][k]
        BY <3>1 DEF Passed
      <4>3. k \in 1 .. Len(chain[s])
        BY <4>1
      <4> QED
        BY <4>2, <4>3 DEF Ledgers!TxsOf
    <3>2. ASSUME NEW s \in Tellers(p, b) PROVE s \in K
      <4>1. PICK t \in Admitted : /\ purchase[t] = [player |-> p, booster |-> b]
                                  /\ Told(s, t)
        BY DEF Tellers
      <4>2. s \in Server
        BY DEF Tellers
      <4>3. purchase[t].booster = b
        BY <4>1
      <4>4. t \in Ledgers!TxsOf(chain[s])
        BY <3>1, <4>1, <4>2 DEF Told
      <4> QED
        BY <4>2, <4>3, <4>4
    <3>3. K \subseteq Server
      OBVIOUS
    <3> QED
      BY <3>2, <3>3, FS_Subset
  <2>6. Cardinality(Tellers(p, b)) <= Cardinality(K) /\ Cardinality(K) \in Nat
    BY <2>5, FS_Subset, FS_CardinalityType
  <2>7. Cardinality(Tellers(p, b)) \in Nat
    BY TellersFinite
  <2> HIDE DEF K
  <2>8. Occurrences(b, cards[p]) <= Cardinality(K)
    BY <2>3, <2>4, <2>6, <2>7
  <2> QED
    BY <2>8 DEF K
<1>2. Init => Inv
  BY OnceInit
<1>3. Inv /\ [Next]_vars => Inv'
  BY OnceNext, CopiesNext
<1> QED
  BY <1>1, <1>2, <1>3, PTL DEF Spec
=============================================================================
