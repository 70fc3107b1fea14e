---------------------------- MODULE CardDBProofs -----------------------------
(***************************************************************************)
(* Theorems about CardDB, for any vault and any number of boosters.        *)
(***************************************************************************)
EXTENDS CardDB, FunctionTheorems, FiniteSetTheorems, TLAPS

USE CardDBAssumption

-----------------------------------------------------------------------------
(* Arithmetic.                                                             *)

LEMMA Larger ==
  ASSUME NEW x \in Int, NEW y \in Int
  PROVE  Max({x, y}) = IF x >= y THEN x ELSE y
BY DEF Max

LEMMA Division ==
  ASSUME NEW s \in Nat, NEW m \in Nat \ {0}
  PROVE  /\ s \div m \in Nat
         /\ (s \div m) * m <= s
         /\ (s \div m) * m > s - m
OBVIOUS

LEMMA OneMoreTime ==
  ASSUME NEW c \in Nat, NEW m \in Nat
  PROVE  c * m \in Nat /\ c * (m + 1) = c * m + c
OBVIOUS

-----------------------------------------------------------------------------
(* Sequences.                                                              *)

LEMMA Element ==
  ASSUME NEW S, NEW q \in Seq(S), NEW i \in 1 .. Len(q)
  PROVE  q[i] \in S
OBVIOUS

LEMMA Joined ==
  ASSUME NEW S, NEW p \in Seq(S), NEW q \in Seq(S)
  PROVE  /\ p \o q \in Seq(S)
         /\ Len(p) \in Nat /\ Len(q) \in Nat
         /\ Len(p \o q) = Len(p) + Len(q)
         /\ \A i \in 1 .. Len(p) : (p \o q)[i] = p[i]
         /\ \A i \in 1 .. Len(q) : (p \o q)[Len(p) + i] = q[i]
         /\ \A i \in 1 .. Len(p \o q) :
              \/ i \in 1 .. Len(p)
              \/ \E k \in 1 .. Len(q) : i = Len(p) + k
<1>1. /\ p \o q \in Seq(S)
      /\ Len(p) \in Nat /\ Len(q) \in Nat
      /\ Len(p \o q) = Len(p) + Len(q)
      /\ \A i \in 1 .. Len(p) : (p \o q)[i] = p[i]
      /\ \A i \in 1 .. Len(q) : (p \o q)[Len(p) + i] = q[i]
  OBVIOUS
<1>2. ASSUME NEW i \in 1 .. Len(p \o q), i \notin 1 .. Len(p)
      PROVE  \E k \in 1 .. Len(q) : i = Len(p) + k
  <2>1. i - Len(p) \in 1 .. Len(q) /\ i = Len(p) + (i - Len(p))
    BY <1>1, <1>2
  <2> QED
    BY <2>1
<1> QED
  BY <1>1, <1>2

-----------------------------------------------------------------------------
(* Types.                                                                  *)

\* Nothing is there before the stage that makes it.
StageInv ==
  /\ stage = "load" => DOMAIN glossary = {}
  /\ stage \in { "load", "count" } => DOMAIN copies = {}
  /\ stage \in { "load", "count" } => pool = << >>
  /\ stage \in { "load", "count", "deal", "shuffle" } => boosters = << >>

CardInv == StockTypeOK /\ StageInv

LEMMA ModelsOf ==
  ASSUME CardInv, NEW r
  PROVE  /\ Models(r) \subseteq DOMAIN glossary
         /\ IsFiniteSet(Models(r)) /\ Cardinality(Models(r)) \in Nat
         /\ Models(r) # {} => Cardinality(Models(r)) \in Nat \ {0}
<1>1. Models(r) \subseteq DOMAIN glossary /\ DOMAIN glossary \subseteq Model
  BY DEF Models, CardInv, StockTypeOK
<1>2. IsFiniteSet(Models(r))
  BY <1>1, FS_Subset
<1> QED
  BY <1>1, <1>2, FS_CardinalityType, FS_EmptySet

LEMMA ShareIsNat ==
  ASSUME CardInv, NEW r \in Rarity
  PROVE  Share(r) \in Nat
<1>1. total \in Nat
  BY DEF CardInv, StockTypeOK
<1>2. total * CardsPerBooster \in Nat
  BY <1>1 DEF CardsPerBooster
<1> DEFINE c == total * CardsPerBooster
<1>3. c \in Nat
  BY <1>2
<1>4. Share(r) = CASE r = "comum" -> (c * 5) \div 10
                   [] r = "incomum" -> (c * 4) \div 10
                   [] r = "rara" -> c \div 10
  BY DEF Share
<1> HIDE DEF c
<1>5. (c * 5) \div 10 \in Nat /\ (c * 4) \div 10 \in Nat /\ c \div 10 \in Nat
  BY <1>3
<1> QED
  BY <1>4, <1>5 DEF Rarity

\* Each model of a rarity gets its part of the share, and at least one copy.
LEMMA PerCardIs ==
  ASSUME CardInv, NEW r \in Rarity, Models(r) # {}
  PROVE  /\ PerCard(r) \in Nat \ {0}
         /\ LET part == Share(r) \div Cardinality(Models(r))
            IN part \in Nat /\ PerCard(r) = IF 1 >= part THEN 1 ELSE part
<1> DEFINE part == Share(r) \div Cardinality(Models(r))
<1>1. part \in Nat
  BY ShareIsNat, ModelsOf, Division
<1>2. PerCard(r) = Max({1, part})
  BY DEF PerCard
<1> HIDE DEF part
<1>3. PerCard(r) = IF 1 >= part THEN 1 ELSE part
  BY <1>1, <1>2, Larger
<1> QED
  BY <1>1, <1>3 DEF part

LEMMA CountsAsRarity ==
  ASSUME NEW m
  PROVE  CountsAs(m) \in Rarity
BY DEF CountsAs, Rarity

LEMMA InstancesAre ==
  ASSUME CardInv, NEW m \in DOMAIN copies
  PROVE  /\ Instances(m) \in Seq(Card)
         /\ copies[m] \in Nat \ {0}
         /\ Len(Instances(m)) = copies[m]
         /\ \A i \in 1 .. copies[m] : Instances(m)[i] = [id |-> Len(pool) + i, model |-> m]
<1>1. copies[m] \in Nat \ {0} /\ m \in Model /\ Len(pool) \in Nat
  BY DEF CardInv, StockTypeOK
<1>2. \A i \in 1 .. copies[m] : [id |-> Len(pool) + i, model |-> m] \in Card
  BY <1>1 DEF Card
<1> QED
  BY <1>1, <1>2 DEF Instances

LEMMA SwappedIs ==
  ASSUME NEW S, NEW q \in Seq(S), NEW i \in 1 .. Len(q), NEW j \in 1 .. Len(q)
  PROVE  /\ [q EXCEPT ![i] = q[j], ![j] = q[i]] \in Seq(S)
         /\ Len([q EXCEPT ![i] = q[j], ![j] = q[i]]) = Len(q)
         /\ \A k \in 1 .. Len(q) :
              [q EXCEPT ![i] = q[j], ![j] = q[i]][k]
                = IF k = j THEN q[i] ELSE IF k = i THEN q[j] ELSE q[k]
OBVIOUS

\* The cards of a pack lie in the pool.
LEMMA InPool ==
  ASSUME NEW n \in Nat, NEW l \in Nat, n < l \div CardsPerBooster,
         NEW k \in 1 .. CardsPerBooster
  PROVE  n * CardsPerBooster + k \in 1 .. l
BY DEF CardsPerBooster

LEMMA CardInit == Init => CardInv
<1> SUFFICES ASSUME Init PROVE CardInv
  OBVIOUS
<1>1. DOMAIN << >> = {}
  OBVIOUS
<1> QED
  BY <1>1 DEF Init, CardInv, StockTypeOK, StageInv

LEMMA CardNext == CardInv /\ [Next]_vars => CardInv'
<1> SUFFICES ASSUME CardInv, [Next]_vars PROVE CardInv'
  OBVIOUS
<1> USE DEF CardInv
<1>0. Len(pool) \in Nat /\ Len(boosters) \in Nat
  BY DEF StockTypeOK
<1>1. ASSUME NEW g \in Vault, Load(g) PROVE CardInv'
  <2>1. DOMAIN g \subseteq Model /\ \A m \in DOMAIN g : g[m] \in Rarity \cup { "outra" }
    BY DEF Vault
  <2> QED
    BY <1>1, <2>1 DEF Load, StockTypeOK, StageInv
<1>2. CASE LoadFails
  BY <1>2 DEF LoadFails, StockTypeOK, StageInv
<1>3. CASE CalculateCardCopies
  <2>1. copies' = [m \in UNION { Models(r) : r \in Rarity } |-> PerCard(CountsAs(m))]
        /\ stage = "count" /\ stage' = "deal"
        /\ UNCHANGED <<glossary, total, pool, unshuffled, boosters>>
    BY <1>3 DEF CalculateCardCopies
  <2>2. ASSUME NEW m \in DOMAIN copies'
        PROVE  m \in DOMAIN glossary /\ copies'[m] \in Nat \ {0}
    <3>1. PICK r \in Rarity : m \in Models(r)
      BY <2>1
    <3>2. CountsAs(m) = r /\ m \in DOMAIN glossary
      BY <3>1 DEF Models
    <3>3. PerCard(r) \in Nat \ {0}
      BY <3>1, PerCardIs
    <3> QED
      BY <2>1, <3>2, <3>3
  <2> QED
    BY <2>1, <2>2 DEF StockTypeOK, StageInv
<1>4. ASSUME NEW m \in DOMAIN copies, DealModel(m) PROVE CardInv'
  <2>1. /\ pool' = pool \o Instances(m)
        /\ stage = "deal"
        /\ UNCHANGED <<stage, glossary, total, copies, unshuffled, boosters>>
    BY <1>4 DEF DealModel
  <2>2. pool \in Seq(Card) /\ Instances(m) \in Seq(Card)
    BY InstancesAre DEF StockTypeOK
  <2>3. pool' \in Seq(Card) /\ Len(pool') \in Nat /\ Len(pool) <= Len(pool')
    BY <2>1, <2>2, Joined
  <2>4. unshuffled' \in 0 .. Len(pool')
    BY <1>0, <2>1, <2>3 DEF StockTypeOK
  <2> QED
    BY <2>1, <2>3, <2>4 DEF StockTypeOK, StageInv
<1>5. CASE DealingDone
  BY <1>0, <1>5 DEF DealingDone, StockTypeOK, StageInv
<1>6. ASSUME NEW j \in 1 .. unshuffled, ShuffleOne(j) PROVE CardInv'
  <2>1. /\ stage = "shuffle" /\ unshuffled > 1
        /\ pool' = Swapped(unshuffled, j)
        /\ unshuffled' = unshuffled - 1
        /\ UNCHANGED <<stage, glossary, total, copies, boosters>>
    BY <1>6 DEF ShuffleOne
  <2>2. unshuffled \in 0 .. Len(pool) /\ pool \in Seq(Card)
    BY DEF StockTypeOK
  <2>3. unshuffled \in 1 .. Len(pool) /\ j \in 1 .. Len(pool)
    BY <1>0, <2>1, <2>2
  <2>4. pool' \in Seq(Card) /\ Len(pool') = Len(pool)
    BY <2>1, <2>2, <2>3, SwappedIs DEF Swapped
  <2>5. unshuffled' \in 0 .. Len(pool')
    BY <1>0, <2>1, <2>2, <2>4
  <2> QED
    BY <2>1, <2>4, <2>5 DEF StockTypeOK, StageInv
<1>7. CASE ShuffleDone
  BY <1>7 DEF ShuffleDone, StockTypeOK, StageInv
<1>8. CASE Pack
  <2> DEFINE n == Len(boosters)
             p == [k \in 1 .. CardsPerBooster |-> pool[n * CardsPerBooster + k]]
  <2>1. /\ stage = "pack" /\ n < Len(pool) \div CardsPerBooster
        /\ boosters' = Append(boosters, p)
        /\ UNCHANGED <<stage, glossary, total, copies, pool, unshuffled>>
    BY <1>8 DEF Pack
  <2>2. \A k \in 1 .. CardsPerBooster : pool[n * CardsPerBooster + k] \in Card
    <3> HIDE DEF n
    <3> SUFFICES ASSUME NEW k \in 1 .. CardsPerBooster
                 PROVE  pool[n * CardsPerBooster + k] \in Card
      OBVIOUS
    <3>1. n * CardsPerBooster + k \in 1 .. Len(pool)
      BY <1>0, <2>1, InPool DEF n
    <3> QED
      BY <3>1, Element DEF StockTypeOK
  <2>3. p \in [1 .. CardsPerBooster -> Card]
    BY <2>2
  <2> HIDE DEF n, p
  <2>4. boosters' \in Seq([1 .. CardsPerBooster -> Card])
    BY <2>1, <2>3 DEF StockTypeOK
  <2> QED
    BY <2>1, <2>4 DEF StockTypeOK, StageInv
<1>9. CASE PackingDone
  BY <1>9 DEF PackingDone, StockTypeOK, StageInv
<1>10. CASE UNCHANGED vars
  BY <1>10 DEF vars, StockTypeOK, StageInv
<1> QED
  BY <1>1, <1>2, <1>3, <1>4, <1>5, <1>6, <1>7, <1>8, <1>9, <1>10 DEF Next

\* Types: each model of the vault gets at least one copy, Shuffle never looks beyond
\* the pool, and no pack reaches beyond it either.
THEOREM StockTypeCorrect == Spec => []StockTypeOK
<1>1. CardInv => StockTypeOK
  BY DEF CardInv
<1> QED
  BY <1>1, CardInit, CardNext, PTL DEF Spec

-----------------------------------------------------------------------------
(* Packs.                                                                  *)

\* Each card was dealt under a number of its own.
IdsOnce ==
  /\ \A i \in 1 .. Len(pool) : pool[i].id \in 1 .. Len(pool)
  /\ \A i, j \in 1 .. Len(pool) : pool[i].id = pool[j].id => i = j

\* The packs are cut off the pool one after the other, to its end.
PacksInOrder ==
  /\ Len(boosters) <= Len(pool) \div CardsPerBooster
  /\ \A b \in 1 .. Len(boosters) : \A k \in 1 .. CardsPerBooster :
       boosters[b][k] = pool[(b - 1) * CardsPerBooster + k]
PackedAll == stage = "ready" => Len(boosters) = Len(pool) \div CardsPerBooster

PackInv == CardInv /\ IdsOnce /\ PacksInOrder /\ PackedAll

\* What DealModel does to the pool.
LEMMA DealtPool ==
  ASSUME CardInv, NEW m \in DOMAIN copies, DealModel(m)
  PROVE  /\ Len(pool) \in Nat /\ copies[m] \in Nat \ {0}
         /\ Len(pool') = Len(pool) + copies[m]
         /\ \A i \in 1 .. Len(pool) : pool'[i] = pool[i]
         /\ \A i \in 1 .. Len(pool') :
              i \notin 1 .. Len(pool) => pool'[i] = [id |-> i, model |-> m]
<1>1. pool' = pool \o Instances(m) /\ pool \in Seq(Card)
  BY DEF DealModel, CardInv, StockTypeOK
<1>2. /\ Instances(m) \in Seq(Card) /\ copies[m] \in Nat \ {0}
      /\ Len(Instances(m)) = copies[m]
      /\ \A k \in 1 .. copies[m] : Instances(m)[k] = [id |-> Len(pool) + k, model |-> m]
  BY InstancesAre
<1>3. PICK w : w = Instances(m)
  OBVIOUS
<1>4. /\ Len(pool) \in Nat
      /\ Len(pool \o w) = Len(pool) + Len(w)
      /\ \A i \in 1 .. Len(pool) : (pool \o w)[i] = pool[i]
      /\ \A k \in 1 .. Len(w) : (pool \o w)[Len(pool) + k] = w[k]
      /\ \A i \in 1 .. Len(pool \o w) :
           i \in 1 .. Len(pool) \/ \E k \in 1 .. Len(w) : i = Len(pool) + k
  BY <1>1, <1>2, <1>3, Joined
<1>5. ASSUME NEW i \in 1 .. Len(pool'), i \notin 1 .. Len(pool)
      PROVE  pool'[i] = [id |-> i, model |-> m]
  <2>1. PICK k \in 1 .. Len(w) : i = Len(pool) + k
    BY <1>1, <1>3, <1>4, <1>5
  <2>2. w[k] = [id |-> Len(pool) + k, model |-> m]
    BY <1>2, <1>3
  <2> QED
    BY <1>1, <1>3, <1>4, <2>1, <2>2
<1> QED
  BY <1>1, <1>2, <1>3, <1>4, <1>5

LEMMA IdsOnceDealt ==
  ASSUME CardInv, IdsOnce, NEW m \in DOMAIN copies, DealModel(m)
  PROVE  IdsOnce'
<1>1. /\ Len(pool) \in Nat /\ Len(pool') \in Nat /\ Len(pool) <= Len(pool')
      /\ \A i \in 1 .. Len(pool) : pool'[i] = pool[i]
      /\ \A i \in 1 .. Len(pool') :
           i \notin 1 .. Len(pool) => pool'[i] = [id |-> i, model |-> m]
  BY DealtPool
<1>2. \A i \in 1 .. Len(pool') :
        \/ /\ i \in 1 .. Len(pool) /\ pool'[i].id = pool[i].id
           /\ pool[i].id \in 1 .. Len(pool)
        \/ i \notin 1 .. Len(pool) /\ pool'[i].id = i
  <2>1. ASSUME NEW i \in 1 .. Len(pool)
        PROVE  pool'[i].id = pool[i].id /\ pool[i].id \in 1 .. Len(pool)
    BY <1>1 DEF IdsOnce
  <2>2. ASSUME NEW i \in 1 .. Len(pool'), i \notin 1 .. Len(pool)
        PROVE  pool'[i].id = i
    <3>1. pool'[i] = [id |-> i, model |-> m]
      BY <1>1, <2>2
    <3> QED
      BY <3>1
  <2> QED
    BY <2>1, <2>2
<1>3. \A i \in 1 .. Len(pool') : pool'[i].id \in 1 .. Len(pool')
  BY <1>1, <1>2
<1>4. \A i, j \in 1 .. Len(pool') : pool'[i].id = pool'[j].id => i = j
  BY <1>2 DEF IdsOnce
<1> QED
  BY <1>3, <1>4 DEF IdsOnce

LEMMA IdsOnceShuffled ==
  ASSUME CardInv, IdsOnce, NEW j \in 1 .. unshuffled, ShuffleOne(j)
  PROVE  IdsOnce'
<1>1. /\ unshuffled > 1 /\ pool' = Swapped(unshuffled, j)
      /\ unshuffled \in 0 .. Len(pool) /\ pool \in Seq(Card) /\ Len(pool) \in Nat
  BY DEF ShuffleOne, CardInv, StockTypeOK
<1>2. PICK u \in 1 .. Len(pool) : u = unshuffled
  BY <1>1
<1>3. j \in 1 .. Len(pool)
  BY <1>1
<1>4. PICK q : q = pool'
  OBVIOUS
<1>5. /\ Len(q) = Len(pool)
      /\ \A k \in 1 .. Len(pool) :
           q[k] = IF k = j THEN pool[u] ELSE IF k = u THEN pool[j] ELSE pool[k]
  BY <1>1, <1>2, <1>3, <1>4, SwappedIs DEF Swapped
<1>6. \A k \in 1 .. Len(q) : q[k].id \in 1 .. Len(q)
  BY <1>3, <1>5 DEF IdsOnce
<1>7. ASSUME NEW k \in 1 .. Len(q), NEW l \in 1 .. Len(q), q[k].id = q[l].id
      PROVE  k = l
  <2>1. \A x, y \in 1 .. Len(pool) : pool[x].id = pool[y].id => x = y
    BY DEF IdsOnce
  <2>2. k \in 1 .. Len(pool) /\ l \in 1 .. Len(pool)
    BY <1>5
  <2>3. PICK x \in 1 .. Len(pool) :
          q[k] = pool[x] /\ x = IF k = j THEN u ELSE IF k = u THEN j ELSE k
    BY <1>3, <1>5, <2>2
  <2>4. PICK y \in 1 .. Len(pool) :
          q[l] = pool[y] /\ y = IF l = j THEN u ELSE IF l = u THEN j ELSE l
    BY <1>3, <1>5, <2>2
  <2>5. x = y
    BY <1>7, <2>1, <2>3, <2>4
  <2> QED
    BY <2>3, <2>4, <2>5
<1> QED
  BY <1>4, <1>6, <1>7 DEF IdsOnce

LEMMA PackNext == PackInv /\ [Next]_vars => PackInv'
<1> SUFFICES ASSUME PackInv, [Next]_vars PROVE PackInv'
  OBVIOUS
<1>0. CardInv /\ CardInv'
  BY CardNext DEF PackInv
<1>1. /\ pool \in Seq(Card) /\ Len(pool) \in Nat /\ Len(boosters) \in Nat
      /\ boosters \in Seq([1 .. CardsPerBooster -> Card])
  BY <1>0 DEF CardInv, StockTypeOK
<1>2. ASSUME UNCHANGED <<pool, boosters>>, stage' # "ready"
      PROVE  IdsOnce' /\ PacksInOrder' /\ PackedAll'
  BY <1>2 DEF PackInv, IdsOnce, PacksInOrder, PackedAll
<1>3. ASSUME boosters' = << >>, stage' # "ready"
      PROVE  PacksInOrder' /\ PackedAll'
  <2>1. pool' \in Seq(Card)
    BY <1>0 DEF CardInv, StockTypeOK
  <2>2. Len(pool') \in Nat
    BY <2>1
  <2>3. Len(pool') \div CardsPerBooster \in Nat
    BY <2>2 DEF CardsPerBooster
  <2> QED
    BY <1>3, <2>3 DEF PacksInOrder, PackedAll
<1>4. ASSUME NEW g \in Vault, Load(g) PROVE UNCHANGED <<pool, boosters>> /\ stage' # "ready"
  BY <1>4 DEF Load
<1>5. CASE LoadFails
  <2>1. pool = << >> /\ boosters = << >> /\ UNCHANGED <<pool, boosters>>
    BY <1>0, <1>5 DEF LoadFails, CardInv, StageInv
  <2>2. Len(<< >>) = 0 \div CardsPerBooster /\ Len(<< >>) = 0
    BY DEF CardsPerBooster
  <2> QED
    BY <1>0, <2>1, <2>2 DEF PackInv, IdsOnce, PacksInOrder, PackedAll
<1>6. CalculateCardCopies \/ DealingDone \/ ShuffleDone
        => UNCHANGED <<pool, boosters>> /\ stage' # "ready"
  BY DEF CalculateCardCopies, DealingDone, ShuffleDone
<1>7. ASSUME NEW m \in DOMAIN copies, DealModel(m)
      PROVE  IdsOnce' /\ PacksInOrder' /\ PackedAll'
  <2>1. boosters' = << >> /\ stage' # "ready"
    BY <1>0, <1>7 DEF DealModel, CardInv, StageInv
  <2> QED
    BY <1>0, <1>3, <1>7, <2>1, IdsOnceDealt DEF PackInv
<1>8. ASSUME NEW j \in 1 .. unshuffled, ShuffleOne(j)
      PROVE  IdsOnce' /\ PacksInOrder' /\ PackedAll'
  <2>1. boosters' = << >> /\ stage' # "ready"
    BY <1>0, <1>8 DEF ShuffleOne, CardInv, StageInv
  <2> QED
    BY <1>0, <1>3, <1>8, <2>1, IdsOnceShuffled DEF PackInv
<1>9. CASE Pack
  <2> DEFINE n == Len(boosters)
             p == [k \in 1 .. CardsPerBooster |-> pool[n * CardsPerBooster + k]]
  <2>1. /\ stage = "pack" /\ n < Len(pool) \div CardsPerBooster
        /\ boosters' = Append(boosters, p)
        /\ UNCHANGED <<stage, pool>>
    BY <1>9 DEF Pack
  <2>2. \A k \in 1 .. CardsPerBooster : p[k] = pool[n * CardsPerBooster + k]
    OBVIOUS
  <2> HIDE DEF p
  <2>3. /\ Len(boosters') = n + 1 /\ boosters'[n + 1] = p
        /\ \A b \in 1 .. n : boosters'[b] = boosters[b]
    BY <1>1, <2>1
  <2>4. Len(boosters') <= Len(pool) \div CardsPerBooster
    BY <1>1, <2>1, <2>3 DEF CardsPerBooster
  <2>5. n \in Nat
    BY <1>1
  <2> HIDE DEF n
  <2>6. ASSUME NEW b \in 1 .. (n + 1), NEW k \in 1 .. CardsPerBooster
        PROVE  boosters'[b][k] = pool[(b - 1) * CardsPerBooster + k]
    <3>1. CASE b = n + 1
      <4>1. (n + 1) - 1 = n
        BY <2>5
      <4> QED
        BY <2>2, <2>3, <3>1, <4>1
    <3>2. CASE b # n + 1
      <4>1. b \in 1 .. n
        BY <2>5, <3>2
      <4> QED
        BY <2>3, <4>1 DEF PackInv, PacksInOrder, n
    <3> QED
      BY <3>1, <3>2
  <2>7. PacksInOrder'
    BY <2>1, <2>3, <2>4, <2>6 DEF PacksInOrder
  <2> QED
    BY <1>0, <2>1, <2>7 DEF PackInv, IdsOnce, PackedAll
<1>10. CASE PackingDone
  BY <1>0, <1>10 DEF PackingDone, PackInv, IdsOnce, PacksInOrder, PackedAll
<1>11. CASE UNCHANGED vars
  BY <1>0, <1>11 DEF vars, PackInv, IdsOnce, PacksInOrder, PackedAll
<1>12. CASE CalculateCardCopies \/ DealingDone \/ ShuffleDone
  BY <1>0, <1>2, <1>6, <1>12 DEF PackInv
<1>13. ASSUME NEW g \in Vault, Load(g) PROVE PackInv'
  BY <1>0, <1>2, <1>4, <1>13 DEF PackInv
<1>14. ASSUME NEW m \in DOMAIN copies, DealModel(m) PROVE PackInv'
  BY <1>0, <1>7, <1>14 DEF PackInv
<1>15. ASSUME NEW j \in 1 .. unshuffled, ShuffleOne(j) PROVE PackInv'
  BY <1>0, <1>8, <1>15 DEF PackInv
<1> QED
  BY <1>5, <1>9, <1>10, <1>11, <1>12, <1>13, <1>14, <1>15 DEF Next

\* Place k of pack b in the pool.
Place(b, k) == (b - 1) * CardsPerBooster + k

\* The places of the first l packs are the first 3l of the pool.
LEMMA Places ==
  ASSUME NEW l \in Nat
  PROVE  /\ \A b \in 1 .. l : \A k \in 1 .. CardsPerBooster :
              Place(b, k) \in 1 .. l * CardsPerBooster
         /\ \A i \in 1 .. l * CardsPerBooster :
              \E b \in 1 .. l : \E k \in 1 .. CardsPerBooster : i = Place(b, k)
         /\ \A b, c \in 1 .. l : \A k, j \in 1 .. CardsPerBooster :
              Place(b, k) = Place(c, j) => b = c /\ k = j
<1> USE DEF Place, CardsPerBooster
<1>1. \A b \in 1 .. l : \A k \in 1 .. 3 : (b - 1) * 3 + k \in 1 .. l * 3
  OBVIOUS
<1>2. ASSUME NEW i \in 1 .. l * 3
      PROVE  \E b \in 1 .. l : \E k \in 1 .. 3 : i = (b - 1) * 3 + k
  <2> DEFINE b == ((i - 1) \div 3) + 1
             k == ((i - 1) % 3) + 1
  <2>1. b \in 1 .. l /\ k \in 1 .. 3
    OBVIOUS
  <2>2. i = (b - 1) * 3 + k
    OBVIOUS
  <2> HIDE DEF b, k
  <2> QED
    BY <2>1, <2>2
<1>3. \A b, c \in 1 .. l : \A k, j \in 1 .. 3 :
        (b - 1) * 3 + k = (c - 1) * 3 + j => b = c /\ k = j
  OBVIOUS
<1> QED
  BY <1>1, <1>2, <1>3

\* Each card that was dealt ends up in one pack, but for fewer than three: dealing
\* gives each a number of its own, a shuffle in place is a permutation, and the packs
\* are cut one after the other.
THEOREM StockPackedOnce == Spec => []PackedOnce
<1>1. PackInv => PackedOnce
  <2> SUFFICES ASSUME PackInv, stage = "ready",
                      NEW packed,
                      packed = { boosters[x[1]][x[2]].id : x \in InBoosters }
               PROVE  /\ Cardinality(packed) = Cardinality(InBoosters)
                      /\ packed \subseteq 1 .. Len(pool)
                      /\ Len(pool) - Cardinality(packed) < CardsPerBooster
    BY DEF PackedOnce
  <2> DEFINE l == Len(boosters)
             n == l * CardsPerBooster
             place == [x \in InBoosters |-> Place(x[1], x[2])]
             number == [i \in 1 .. n |-> pool[i].id]
  <2>1. /\ Len(pool) \in Nat /\ l \in Nat
        /\ l = Len(pool) \div CardsPerBooster
    BY DEF PackInv, PackedAll, CardInv, StockTypeOK
  <2>2. n \in Nat /\ n <= Len(pool) /\ Len(pool) - n < CardsPerBooster
    BY <2>1 DEF CardsPerBooster
  <2>3. \A x \in InBoosters :
          x = <<x[1], x[2]>> /\ x[1] \in 1 .. l /\ x[2] \in 1 .. CardsPerBooster
    BY DEF InBoosters
  <2>4. \A b \in 1 .. l : \A k \in 1 .. CardsPerBooster :
          <<b, k>> \in InBoosters /\ boosters[b][k] = pool[Place(b, k)]
    BY DEF InBoosters, PackInv, PacksInOrder, Place
  <2> HIDE DEF l
  <2>5. place \in Bijection(InBoosters, 1 .. n)
    <3>1. \A x \in InBoosters : Place(x[1], x[2]) \in 1 .. n
      BY <2>1, <2>3, Places
    <3>2. ASSUME NEW x \in InBoosters, NEW y \in InBoosters, place[x] = place[y]
          PROVE  x = y
      <4>1. x[1] = y[1] /\ x[2] = y[2]
        BY <2>1, <2>3, <3>2, Places
      <4> QED
        BY <2>3, <4>1
    <3>3. ASSUME NEW i \in 1 .. n PROVE \E x \in InBoosters : place[x] = i
      <4>1. PICK b \in 1 .. l : \E k \in 1 .. CardsPerBooster : i = Place(b, k)
        BY <2>1, Places
      <4>2. PICK k \in 1 .. CardsPerBooster : i = Place(b, k)
        BY <4>1
      <4>3. <<b, k>> \in InBoosters /\ place[<<b, k>>] = i
        BY <2>4, <4>2
      <4> QED
        BY <4>3
    <3> HIDE DEF n
    <3>4. place \in [InBoosters -> 1 .. n]
      BY <3>1
    <3> HIDE DEF place
    <3> QED
      BY <3>2, <3>3, <3>4 DEF Bijection, Injection, IsInjective, Surjection
  <2>6. number \in Bijection(1 .. n, packed)
    <3>1. \A x \in InBoosters : boosters[x[1]][x[2]] = pool[place[x]] /\ place[x] \in 1 .. n
      <4>1. \A x \in InBoosters : place[x] \in 1 .. n
        BY <2>5 DEF Bijection, Injection
      <4>2. \A x \in InBoosters : boosters[x[1]][x[2]] = pool[Place(x[1], x[2])]
        BY <2>3, <2>4
      <4> QED
        BY <4>1, <4>2
    <3>2. \A i \in 1 .. n : \E x \in InBoosters : place[x] = i
      BY <2>5 DEF Bijection, Surjection
    <3> HIDE DEF place
    <3>3. packed = { pool[i].id : i \in 1 .. n }
      BY <3>1, <3>2
    <3>4. \A i, j \in 1 .. n : pool[i].id = pool[j].id => i = j
      BY <2>1, <2>2 DEF PackInv, IdsOnce
    <3> HIDE DEF n
    <3>5. number \in [1 .. n -> packed]
      BY <3>3
    <3> QED
      BY <3>3, <3>4, <3>5 DEF Bijection, Injection, IsInjective, Surjection
  <2>7. packed \subseteq 1 .. Len(pool)
    <3>1. number \in Surjection(1 .. n, packed)
      BY <2>6 DEF Bijection
    <3>2. \A y \in packed : \E i \in 1 .. n : pool[i].id = y
      BY <3>1 DEF Surjection
    <3>3. \A i \in 1 .. n : i \in 1 .. Len(pool)
      <4> HIDE DEF n
      <4> QED
        BY <2>1, <2>2
    <3>4. \A i \in 1 .. Len(pool) : pool[i].id \in 1 .. Len(pool)
      BY DEF PackInv, IdsOnce
    <3> HIDE DEF n
    <3> QED
      BY <3>2, <3>3, <3>4
  <2> HIDE DEF n, place, number
  <2>8. IsFiniteSet(1 .. n) /\ Cardinality(1 .. n) = n
    <3>1. Cardinality(1 .. n) = IF 1 > n THEN 0 ELSE n - 1 + 1
      BY <2>2, FS_Interval
    <3> QED
      BY <2>2, <3>1, FS_Interval
  <2>9. Cardinality(packed) = n
    BY <2>6, <2>8, FS_Bijection DEF ExistsBijection
  <2>10. Cardinality(InBoosters) = n
    <3>1. ExistsBijection(InBoosters, 1 .. n)
      BY <2>5 DEF ExistsBijection
    <3>2. ExistsBijection(1 .. n, InBoosters)
      BY <3>1, Fun_ExistsBijSymmetric
    <3> QED
      BY <2>8, <3>2, FS_Bijection
  <2> QED
    BY <2>2, <2>7, <2>9, <2>10
<1>2. Init => PackInv
  <2> SUFFICES ASSUME Init PROVE PackInv
    OBVIOUS
  <2>1. Len(<< >>) = 0 /\ 0 <= 0 \div CardsPerBooster
    BY DEF CardsPerBooster
  <2> QED
    BY <2>1, CardInit DEF Init, PackInv, IdsOnce, PacksInOrder, PackedAll
<1> QED
  BY <1>1, <1>2, PackNext, PTL DEF Spec

-----------------------------------------------------------------------------
(* Rarities.                                                               *)

Making == { "deal", "shuffle", "pack" }

\* Where the cards of a rarity lie, and which of its models have been dealt.
Positions(r) == { i \in 1 .. Len(pool) : CountsAs(pool[i].model) = r }
DealtOf(r) == { m \in Models(r) : Dealt(m) }

CopiesPlanned ==
  stage \in Making =>
    /\ DOMAIN copies = DOMAIN glossary
    /\ \A m \in DOMAIN copies : copies[m] = PerCard(CountsAs(m))

\* Of each rarity the pool holds the same number of cards for each model dealt.
DealtShare ==
  stage \in Making =>
    \A r \in Rarity : Models(r) # {} =>
      Cardinality(Positions(r)) = PerCard(r) * Cardinality(DealtOf(r))

AllDealt ==
  stage \in { "shuffle", "pack" } => \A m \in DOMAIN glossary : Dealt(m)

RarityInv == CardInv /\ CopiesPlanned /\ DealtShare /\ AllDealt

LEMMA CountsFinite ==
  ASSUME CardInv, NEW r
  PROVE  /\ IsFiniteSet(Positions(r)) /\ Cardinality(Positions(r)) \in Nat
         /\ IsFiniteSet(DealtOf(r)) /\ Cardinality(DealtOf(r)) \in Nat
<1>1. Len(pool) \in Nat
  BY DEF CardInv, StockTypeOK
<1>2. IsFiniteSet(1 .. Len(pool)) /\ IsFiniteSet(Models(r))
  BY <1>1, FS_Interval, ModelsOf
<1>3. Positions(r) \subseteq 1 .. Len(pool) /\ DealtOf(r) \subseteq Models(r)
  BY DEF Positions, DealtOf
<1>4. IsFiniteSet(Positions(r)) /\ IsFiniteSet(DealtOf(r))
  BY <1>2, <1>3, FS_Subset
<1> QED
  BY <1>4, FS_CardinalityType

\* What a rarity is, and how much it gets, depends on the vault only.
LEMMA RarityStays ==
  ASSUME UNCHANGED <<glossary, total>>
  PROVE  /\ \A m : CountsAs(m)' = CountsAs(m)
         /\ \A r : Models(r)' = Models(r)
         /\ \A r : Share(r)' = Share(r)
         /\ \A r : PerCard(r)' = PerCard(r)
<1>1. \A m : CountsAs(m)' = CountsAs(m)
  BY DEF CountsAs
<1>2. \A r : Models(r)' = Models(r)
  BY <1>1 DEF Models
<1>3. \A r : Share(r)' = Share(r)
  BY DEF Share
<1>4. \A r : PerCard(r)' = PerCard(r)
  BY <1>2, <1>3 DEF PerCard
<1> QED
  BY <1>1, <1>2, <1>3, <1>4

LEMMA ShareDealt ==
  ASSUME CardInv, CopiesPlanned, DealtShare, NEW m \in DOMAIN copies, DealModel(m)
  PROVE  DealtShare'
<1>1. /\ stage = "deal" /\ stage' = stage /\ ~ Dealt(m)
      /\ UNCHANGED <<glossary, total, copies>>
  BY DEF DealModel
<1>2. /\ Len(pool) \in Nat /\ copies[m] \in Nat \ {0}
      /\ Len(pool') = Len(pool) + copies[m]
      /\ \A i \in 1 .. Len(pool) : pool'[i] = pool[i]
      /\ \A i \in 1 .. Len(pool') :
           i \notin 1 .. Len(pool) => pool'[i] = [id |-> i, model |-> m]
  BY DealtPool
<1>3. \A i \in 1 .. Len(pool') :
        \/ i \in 1 .. Len(pool) /\ pool'[i] = pool[i]
        \/ i \notin 1 .. Len(pool) /\ pool'[i].model = m
  <2>1. ASSUME NEW i \in 1 .. Len(pool'), i \notin 1 .. Len(pool) PROVE pool'[i].model = m
    <3>1. pool'[i] = [id |-> i, model |-> m]
      BY <1>2, <2>1
    <3> QED
      BY <3>1
  <2> QED
    BY <1>2, <2>1
<1>4. 1 .. Len(pool) \subseteq 1 .. Len(pool') /\ Len(pool') \in Nat
      /\ Len(pool') \in 1 .. Len(pool') /\ Len(pool') \notin 1 .. Len(pool)
  BY <1>2
<1>5. \A x : Dealt(x)' <=> Dealt(x) \/ x = m
  BY <1>2, <1>3, <1>4 DEF Dealt
<1>6. m \in DOMAIN glossary /\ copies[m] = PerCard(CountsAs(m))
  BY <1>1 DEF CopiesPlanned, Making
<1>7. SUFFICES ASSUME NEW r \in Rarity, Models(r)' # {}
               PROVE  Cardinality(Positions(r)') = PerCard(r)' * Cardinality(DealtOf(r)')
  BY DEF DealtShare
<1>8. /\ Models(r)' = Models(r) /\ PerCard(r)' = PerCard(r)
      /\ \A x : CountsAs(x)' = CountsAs(x)
  BY <1>1, RarityStays
<1>9. Cardinality(Positions(r)) = PerCard(r) * Cardinality(DealtOf(r))
  BY <1>1, <1>7, <1>8 DEF DealtShare, Making
<1>10. /\ IsFiniteSet(Positions(r)) /\ Cardinality(Positions(r)) \in Nat
       /\ IsFiniteSet(DealtOf(r)) /\ Cardinality(DealtOf(r)) \in Nat
  BY CountsFinite
<1>11. Positions(r)' = { i \in 1 .. Len(pool') : CountsAs(pool'[i].model) = r }
  BY <1>8 DEF Positions
<1>12. DealtOf(r)' = { x \in Models(r) : Dealt(x) \/ x = m }
  BY <1>5, <1>8 DEF DealtOf
<1>13. CASE CountsAs(m) = r
  <2> DEFINE new == (Len(pool) + 1) .. Len(pool')
  <2>1. Positions(r)' = Positions(r) \cup new /\ Positions(r) \cap new = {}
    <3>1. \A i : i \in 1 .. Len(pool') <=> (i \in 1 .. Len(pool) \/ i \in new)
      BY <1>2, <1>4
    <3>2. \A i : ~ (i \in 1 .. Len(pool) /\ i \in new)
      BY <1>2
    <3> HIDE DEF new
    <3>3. ASSUME NEW i \in 1 .. Len(pool)
          PROVE  i \in Positions(r)' <=> i \in Positions(r)
      <4>1. i \in 1 .. Len(pool') /\ pool'[i] = pool[i]
        BY <1>2, <1>4
      <4> QED
        BY <1>11, <4>1 DEF Positions
    <3>4. ASSUME NEW i \in new PROVE i \in Positions(r)'
      <4>1. i \in 1 .. Len(pool') /\ pool'[i].model = m
        BY <1>3, <3>1, <3>2
      <4> QED
        BY <1>11, <1>13, <4>1
    <3>5. \A i : i \in Positions(r)' => i \in 1 .. Len(pool) \/ i \in new
      BY <1>11, <3>1
    <3>6. \A i : i \in Positions(r) => i \in 1 .. Len(pool)
      BY DEF Positions
    <3> QED
      BY <3>2, <3>3, <3>4, <3>5, <3>6
  <2>2. IsFiniteSet(new) /\ Cardinality(new) = copies[m]
    <3>1. PICK x \in Int, z \in Int : x = Len(pool) + 1 /\ z = Len(pool')
      BY <1>2, <1>4
    <3>2. IsFiniteSet(x .. z) /\ Cardinality(x .. z) = IF x > z THEN 0 ELSE z - x + 1
      BY FS_Interval
    <3>3. new = x .. z
      BY <3>1
    <3> HIDE DEF new
    <3>4. z - x + 1 = copies[m] /\ ~ (x > z)
      BY <1>2, <3>1
    <3> QED
      BY <3>2, <3>3, <3>4
  <2> HIDE DEF new
  <2>3. Cardinality(Positions(r)') = Cardinality(Positions(r)) + copies[m]
    <3>1. Cardinality(Positions(r) \cup new)
            = Cardinality(Positions(r)) + Cardinality(new) - Cardinality(Positions(r) \cap new)
      BY <1>10, <2>2, FS_Union
    <3>2. Cardinality(Positions(r) \cap new) = 0
      BY <2>1, FS_EmptySet
    <3> QED
      BY <1>2, <1>10, <2>1, <2>2, <3>1, <3>2
  <2>4. DealtOf(r)' = DealtOf(r) \cup {m} /\ m \notin DealtOf(r)
    BY <1>1, <1>6, <1>12, <1>13 DEF DealtOf, Models
  <2>5. Cardinality(DealtOf(r)') = Cardinality(DealtOf(r)) + 1
    <3>1. Cardinality(DealtOf(r) \cup {m})
            = IF m \in DealtOf(r) THEN Cardinality(DealtOf(r)) ELSE Cardinality(DealtOf(r)) + 1
      BY <1>10, FS_AddElement
    <3> QED
      BY <2>4, <3>1
  <2>6. copies[m] = PerCard(r)
    BY <1>6, <1>13
  <2>7. PerCard(r) * (Cardinality(DealtOf(r)) + 1)
          = PerCard(r) * Cardinality(DealtOf(r)) + PerCard(r)
    BY <1>2, <1>10, <2>6, OneMoreTime
  <2> QED
    BY <1>8, <1>9, <2>3, <2>5, <2>6, <2>7
<1>14. CASE CountsAs(m) # r
  <2>1. Positions(r)' = Positions(r)
    BY <1>3, <1>4, <1>11, <1>14 DEF Positions
  <2>2. DealtOf(r)' = DealtOf(r)
    BY <1>12, <1>14 DEF DealtOf, Models
  <2> QED
    BY <1>8, <1>9, <2>1, <2>2
<1> QED
  BY <1>13, <1>14

\* Two cards change places: as many of each rarity are there as before, and of each
\* model there is one.
LEMMA ShuffleMoves ==
  ASSUME CardInv, NEW j \in 1 .. unshuffled, ShuffleOne(j)
  PROVE  \E f \in Bijection(1 .. Len(pool'), 1 .. Len(pool)) :
           \A k \in 1 .. Len(pool') : pool'[k] = pool[f[k]]
<1>1. /\ unshuffled > 1 /\ pool' = Swapped(unshuffled, j)
      /\ unshuffled \in 0 .. Len(pool) /\ pool \in Seq(Card) /\ Len(pool) \in Nat
  BY DEF ShuffleOne, CardInv, StockTypeOK
<1>2. PICK u \in 1 .. Len(pool) : u = unshuffled
  BY <1>1
<1>3. j \in 1 .. Len(pool)
  BY <1>1
<1>4. /\ Len(pool') = Len(pool)
      /\ \A k \in 1 .. Len(pool) :
           pool'[k] = IF k = j THEN pool[u] ELSE IF k = u THEN pool[j] ELSE pool[k]
  BY <1>1, <1>2, <1>3, SwappedIs DEF Swapped
<1> DEFINE I == 1 .. Len(pool)
           f == [k \in I |-> IF k = j THEN u ELSE IF k = u THEN j ELSE k]
<1>5. j \in I /\ u \in I
  BY <1>3
<1> HIDE DEF I
<1>6. \A k \in I : f[k] = IF k = j THEN u ELSE IF k = u THEN j ELSE k
  OBVIOUS
<1>7. f \in [I -> I]
  BY <1>5
<1> HIDE DEF f
<1>8. \A k, l \in I : f[k] = f[l] => k = l
  BY <1>6
<1>9. \A k \in I : f[f[k]] = k /\ f[k] \in I
  BY <1>5, <1>6
<1>10. f \in Bijection(I, I)
  BY <1>7, <1>8, <1>9 DEF Bijection, Injection, IsInjective, Surjection
<1>11. \A k \in I : pool'[k] = pool[f[k]]
  BY <1>4, <1>6 DEF I
<1> QED
  BY <1>4, <1>10, <1>11 DEF I

LEMMA ShareShuffled ==
  ASSUME CardInv, DealtShare, AllDealt, NEW j \in 1 .. unshuffled, ShuffleOne(j)
  PROVE  DealtShare' /\ AllDealt'
<1>1. stage = "shuffle" /\ stage' = stage /\ UNCHANGED <<glossary, total>>
  BY DEF ShuffleOne
<1>2. PICK f \in Bijection(1 .. Len(pool'), 1 .. Len(pool)) :
        \A k \in 1 .. Len(pool') : pool'[k] = pool[f[k]]
  BY ShuffleMoves
<1>3. /\ f \in [1 .. Len(pool') -> 1 .. Len(pool)]
      /\ \A k, l \in 1 .. Len(pool') : f[k] = f[l] => k = l
      /\ \A i \in 1 .. Len(pool) : \E k \in 1 .. Len(pool') : f[k] = i
  BY DEF Bijection, Injection, IsInjective, Surjection
<1>4. ASSUME NEW m PROVE Dealt(m)' <=> Dealt(m)
  <2>1. ASSUME NEW k \in 1 .. Len(pool'), pool'[k].model = m PROVE Dealt(m)
    <3>1. f[k] \in 1 .. Len(pool) /\ pool[f[k]].model = m
      BY <1>2, <1>3, <2>1
    <3> QED
      BY <3>1 DEF Dealt
  <2>2. ASSUME NEW i \in 1 .. Len(pool), pool[i].model = m PROVE Dealt(m)'
    <3>1. PICK k \in 1 .. Len(pool') : f[k] = i
      BY <1>3
    <3>2. pool'[k].model = m
      BY <1>2, <2>2, <3>1
    <3> QED
      BY <3>2 DEF Dealt
  <2> QED
    BY <2>1, <2>2 DEF Dealt
<1>5. /\ \A m : CountsAs(m)' = CountsAs(m)
      /\ \A r : Models(r)' = Models(r) /\ PerCard(r)' = PerCard(r)
  BY <1>1, RarityStays
<1>6. ASSUME NEW r PROVE Cardinality(Positions(r)') = Cardinality(Positions(r))
  <2>1. Positions(r)' = { k \in 1 .. Len(pool') : CountsAs(pool'[k].model) = r }
    BY <1>5 DEF Positions
  <2>2. PICK P : P = Positions(r)'
    OBVIOUS
  <2> DEFINE g == [k \in P |-> f[k]]
  <2>3. \A k \in P : k \in 1 .. Len(pool') /\ f[k] \in Positions(r)
    BY <1>2, <1>3, <2>1, <2>2 DEF Positions
  <2>4. g \in [P -> Positions(r)]
    BY <2>3
  <2>5. \A k, l \in P : g[k] = g[l] => k = l
    BY <1>3, <2>3
  <2>6. \A i \in Positions(r) : \E k \in P : g[k] = i
    <3> SUFFICES ASSUME NEW i \in Positions(r) PROVE \E k \in P : g[k] = i
      OBVIOUS
    <3>1. i \in 1 .. Len(pool) /\ CountsAs(pool[i].model) = r
      BY DEF Positions
    <3>2. PICK k \in 1 .. Len(pool') : f[k] = i
      BY <1>3, <3>1
    <3>3. k \in P
      BY <1>2, <2>1, <2>2, <3>1, <3>2
    <3> QED
      BY <3>2, <3>3
  <2> HIDE DEF g
  <2>7. g \in Bijection(P, Positions(r))
    BY <2>4, <2>5, <2>6 DEF Bijection, Injection, IsInjective, Surjection
  <2>8. ExistsBijection(Positions(r), P)
    BY <2>7, Fun_ExistsBijSymmetric DEF ExistsBijection
  <2>9. Cardinality(P) = Cardinality(Positions(r))
    BY <2>8, CountsFinite, FS_Bijection
  <2> QED
    BY <2>2, <2>9
<1>7. ASSUME NEW r PROVE DealtOf(r)' = DealtOf(r)
  BY <1>4, <1>5 DEF DealtOf
<1>8. DealtShare'
  BY <1>1, <1>5, <1>6, <1>7 DEF DealtShare, Making
<1>9. AllDealt'
  BY <1>1, <1>4 DEF AllDealt
<1> QED
  BY <1>8, <1>9

\* Steps after which the pool is what it was.
LEMMA RarityLeftAlone ==
  ASSUME CopiesPlanned, DealtShare, UNCHANGED <<glossary, total, copies, pool>>,
         stage \in Making
  PROVE  CopiesPlanned' /\ DealtShare'
<1>1. /\ \A m : CountsAs(m)' = CountsAs(m)
      /\ \A r : Models(r)' = Models(r) /\ PerCard(r)' = PerCard(r)
  BY RarityStays
<1>2. /\ \A r : Positions(r)' = Positions(r)
      /\ \A r : DealtOf(r)' = DealtOf(r)
  BY <1>1 DEF Positions, DealtOf, Dealt
<1> QED
  BY <1>1, <1>2 DEF CopiesPlanned, DealtShare

LEMMA RarityNext == RarityInv /\ [Next]_vars => RarityInv'
<1> SUFFICES ASSUME RarityInv, [Next]_vars PROVE RarityInv'
  OBVIOUS
<1> DEFINE Kept == CopiesPlanned' /\ DealtShare' /\ AllDealt'
<1>0. CardInv /\ CardInv' /\ CopiesPlanned /\ DealtShare /\ AllDealt
  BY CardNext DEF RarityInv
<1> SUFFICES Kept
  BY <1>0 DEF RarityInv
<1>1. ASSUME stage' \notin Making PROVE Kept
  BY <1>1 DEF CopiesPlanned, DealtShare, AllDealt, Making
<1>2. ASSUME NEW g \in Vault, Load(g) PROVE stage' \notin Making
  BY <1>2 DEF Load, Making
<1>3. LoadFails \/ PackingDone => stage' \notin Making
  BY DEF LoadFails, PackingDone, Making
<1>4. CASE CalculateCardCopies
  <2>1. copies' = [m \in UNION { Models(r) : r \in Rarity } |-> PerCard(CountsAs(m))]
        /\ stage = "count" /\ stage' = "deal"
        /\ UNCHANGED <<glossary, total, pool>>
    BY <1>4 DEF CalculateCardCopies
  <2>2. UNION { Models(r) : r \in Rarity } = DOMAIN glossary
    <3>1. \A m \in DOMAIN glossary : m \in Models(CountsAs(m)) /\ CountsAs(m) \in Rarity
      BY CountsAsRarity DEF Models
    <3>2. \A r \in Rarity : Models(r) \subseteq DOMAIN glossary
      BY DEF Models
    <3> QED
      BY <3>1, <3>2
  <2>3. /\ \A m : CountsAs(m)' = CountsAs(m)
        /\ \A r : Models(r)' = Models(r) /\ PerCard(r)' = PerCard(r)
    BY <2>1, RarityStays
  <2>4. CopiesPlanned'
    BY <2>1, <2>2, <2>3 DEF CopiesPlanned
  <2>5. DealtShare'
    <3>1. pool' = << >>
      BY <1>0, <2>1 DEF CardInv, StageInv
    <3>2. SUFFICES ASSUME NEW r \in Rarity, Models(r)' # {}
                   PROVE  Cardinality(Positions(r)') = PerCard(r)' * Cardinality(DealtOf(r)')
      BY DEF DealtShare
    <3>3. Positions(r)' = {} /\ DealtOf(r)' = {}
      BY <3>1 DEF Positions, DealtOf, Dealt
    <3>4. PerCard(r)' \in Nat
      BY <1>0, <2>3, <3>2, PerCardIs
    <3>5. PerCard(r)' * 0 = 0
      BY <3>4
    <3> QED
      BY <3>3, <3>5, FS_EmptySet
  <2> QED
    BY <2>1, <2>4, <2>5 DEF AllDealt
<1>5. ASSUME NEW m \in DOMAIN copies, DealModel(m) PROVE Kept
  <2>1. stage = "deal" /\ stage' = "deal" /\ UNCHANGED <<glossary, total, copies>>
    BY <1>5 DEF DealModel
  <2>2. DealtShare'
    BY <1>0, <1>5, ShareDealt
  <2>3. CopiesPlanned'
    BY <1>0, <2>1, RarityStays DEF CopiesPlanned
  <2> QED
    BY <2>1, <2>2, <2>3 DEF AllDealt
<1>6. CASE DealingDone
  <2>1. /\ stage = "deal" /\ stage' = "shuffle"
        /\ \A m \in DOMAIN copies : copies[m] > 0 => Dealt(m)
        /\ UNCHANGED <<glossary, total, copies, pool>>
    BY <1>6 DEF DealingDone
  <2>2. CopiesPlanned' /\ DealtShare'
    BY <1>0, <2>1, RarityLeftAlone DEF Making
  <2>3. \A m \in DOMAIN glossary : copies[m] > 0
    <3>1. DOMAIN copies = DOMAIN glossary
      BY <1>0, <2>1 DEF CopiesPlanned, Making
    <3>2. \A m \in DOMAIN copies : copies[m] \in Nat \ {0}
      BY <1>0 DEF CardInv, StockTypeOK
    <3> QED
      BY <3>1, <3>2
  <2>4. \A m \in DOMAIN glossary : Dealt(m)
    BY <1>0, <2>1, <2>3 DEF CopiesPlanned, Making
  <2>5. AllDealt'
    BY <2>1, <2>4 DEF AllDealt, Dealt
  <2> QED
    BY <2>2, <2>5
<1>7. ASSUME NEW j \in 1 .. unshuffled, ShuffleOne(j) PROVE Kept
  <2>1. stage' = stage /\ UNCHANGED <<glossary, total, copies>>
    BY <1>7 DEF ShuffleOne
  <2>2. CopiesPlanned'
    BY <1>0, <2>1, RarityStays DEF CopiesPlanned
  <2> QED
    BY <1>0, <1>7, <2>2, ShareShuffled
<1>8. CASE ShuffleDone \/ Pack
  <2>1. /\ stage \in { "shuffle", "pack" } /\ stage' = "pack"
        /\ UNCHANGED <<glossary, total, copies, pool>>
    BY <1>8 DEF ShuffleDone, Pack
  <2>2. CopiesPlanned' /\ DealtShare'
    BY <1>0, <2>1, RarityLeftAlone DEF Making
  <2>3. AllDealt'
    BY <1>0, <2>1 DEF AllDealt, Dealt
  <2> QED
    BY <2>2, <2>3
<1>9. CASE UNCHANGED vars
  <2>1. stage' = stage /\ UNCHANGED <<glossary, total, copies, pool>>
    BY <1>9 DEF vars
  <2>2. CASE stage \in Making
    <3>1. CopiesPlanned' /\ DealtShare'
      BY <1>0, <2>1, <2>2, RarityLeftAlone
    <3> QED
      BY <1>0, <2>1, <3>1 DEF AllDealt, Dealt
  <2>3. CASE stage \notin Making
    BY <1>1, <2>1, <2>3
  <2> QED
    BY <2>2, <2>3
<1> HIDE DEF Kept
<1> QED
  BY <1>1, <1>2, <1>3, <1>4, <1>5, <1>6, <1>7, <1>8, <1>9 DEF Next

\* Each model of the vault is dealt at least once, however few boosters are asked for,
\* and of each rarity there are as many cards as its share of them says, but for the
\* rest that dividing it among the models leaves.
THEOREM StockDealtByRarity == Spec => []DealtByRarity
<1>1. RarityInv => DealtByRarity
  <2> SUFFICES ASSUME RarityInv, stage \in { "shuffle", "pack" } PROVE DealtByRarity
    BY DEF DealtByRarity
  <2>1. \A m \in DOMAIN glossary : Dealt(m)
    BY DEF RarityInv, AllDealt
  <2>2. ASSUME NEW r \in Rarity, NEW n, NEW d,
               n = Cardinality(Models(r)), d = Cardinality(Positions(r)), n > 0
        PROVE  d <= Max({ Share(r), n }) /\ d > Share(r) - n
    <3>1. CardInv
      BY DEF RarityInv
    <3>2. Models(r) # {}
      BY <2>2, FS_EmptySet
    <3>3. n \in Nat \ {0} /\ Share(r) \in Nat
      BY <2>2, <3>1, <3>2, ModelsOf, ShareIsNat
    <3>4. DealtOf(r) = Models(r)
      BY <2>1 DEF DealtOf, Models
    <3>5. d = PerCard(r) * n
      BY <2>2, <3>2, <3>4 DEF RarityInv, DealtShare, Making
    <3> DEFINE part == Share(r) \div n
    <3>6. part \in Nat /\ PerCard(r) = IF 1 >= part THEN 1 ELSE part
      BY <2>2, <3>1, <3>2, PerCardIs
    <3>7. part * n <= Share(r) /\ part * n > Share(r) - n
      BY <3>3, Division
    <3> HIDE DEF part
    <3>8. Max({ Share(r), n }) = IF Share(r) >= n THEN Share(r) ELSE n
      BY <3>3, Larger
    <3>9. CASE part = 0
      <4>1. d = n
        BY <3>3, <3>5, <3>6, <3>9
      <4>2. n > Share(r)
        BY <3>3, <3>7, <3>9
      <4> QED
        BY <3>3, <3>8, <4>1, <4>2
    <3>10. CASE part # 0
      <4>1. PerCard(r) = part
        BY <3>6, <3>10
      <4>2. d = part * n /\ d \in Nat
        BY <3>3, <3>5, <3>6, <4>1, OneMoreTime
      <4> QED
        BY <3>3, <3>7, <3>8, <4>2
    <3> QED
      BY <3>9, <3>10
  <2> QED
    BY <2>1, <2>2 DEF DealtByRarity, Positions
<1>2. Init => RarityInv
  BY CardInit DEF Init, RarityInv, CopiesPlanned, DealtShare, AllDealt, Making
<1> QED
  BY <1>1, <1>2, RarityNext, PTL DEF Spec
=============================================================================
