------------------------------- MODULE CardDB -------------------------------
(***************************************************************************)
(* How a server makes its stock of boosters when it starts (main.go and    *)
(* internal/utils/cardDB/cardDB.go): it reads the models of cards from the *)
(* vault, works out how many copies to make of each from its rarity, deals *)
(* them into a pool, shuffles the pool where it lies and cuts it into      *)
(* packs of three.  What Purchases sells is the result.                    *)
(*                                                                         *)
(* Abstractions.                                                           *)
(*  - A card's identifier (uuid.New()) is its place in the order of        *)
(*    dealing; what the vault says of a model besides its rarity is copied *)
(*    and nothing depends on it.                                           *)
(*  - The shares are floats in the code.  0.4 and 0.1 are a little more    *)
(*    than that in a float64, and 0.5 is exact, so that cutting off the    *)
(*    fraction gives what the integers give here.                          *)
(***************************************************************************)
EXTENDS Integers, Sequences, FiniteSets, FiniteSetsExt

CONSTANTS
  Model,         \* the models a vault may name
  MaxBoosters    \* bound: boosters asked for (main asks for 100)

ASSUME CardDBAssumption == IsFiniteSet(Model) /\ MaxBoosters \in Nat

VARIABLES
  stage,         \* what main is at
  glossary,      \* definitions: the rarity of each model of the vault
  total,         \* totalBoosters
  copies,        \* how many copies to make of each model
  pool,          \* cardPool
  unshuffled,    \* how many cards at the front of the pool Shuffle has to go over
  boosters       \* the stock

vars == <<stage, glossary, total, copies, pool, unshuffled, boosters>>

CardsPerBooster == 3
Rarity == { "comum", "incomum", "rara" }

Card == [id : Nat, model : Model]

StockTypeOK ==
  /\ stage \in { "load", "count", "deal", "shuffle", "pack", "ready" }
  /\ DOMAIN glossary \subseteq Model
  /\ \A m \in DOMAIN glossary : glossary[m] \in Rarity \cup { "outra" }
  /\ total \in 0 .. MaxBoosters
  /\ DOMAIN copies \subseteq DOMAIN glossary
  /\ \A m \in DOMAIN copies : copies[m] \in Nat \ {0}
  /\ pool \in Seq(Card)
  /\ unshuffled \in 0 .. Len(pool)
  /\ boosters \in Seq([1 .. CardsPerBooster -> Card])

Init ==
  /\ stage = "load"
  /\ glossary = << >> /\ copies = << >>
  /\ total \in 1 .. MaxBoosters
  /\ pool = << >> /\ unshuffled = 0
  /\ boosters = << >>
-----------------------------------------------------------------------------
\* InitializeCardsFromJSON.
Load(g) ==
  /\ stage = "load"
  /\ glossary' = g
  /\ stage' = "count"
  /\ UNCHANGED <<total, copies, pool, unshuffled, boosters>>

\* The vault cannot be read: the server starts without cards.
LoadFails ==
  /\ stage = "load"
  /\ stage' = "ready"
  /\ UNCHANGED <<glossary, total, copies, pool, unshuffled, boosters>>

\* The list a model is put on.
CountsAs(m) == IF glossary[m] \in Rarity THEN glossary[m] ELSE "comum"

Models(r) == { m \in DOMAIN glossary : CountsAs(m) = r }

\* How many of the cards are meant for a rarity.
Share(r) ==
  LET totalCards == total * CardsPerBooster IN
  CASE r = "comum" -> (totalCards * 5) \div 10
    [] r = "incomum" -> (totalCards * 4) \div 10
    [] r = "rara" -> totalCards \div 10

\* Mutant: rounded up.
PerCardUp(r) == (Share(r) + Cardinality(Models(r)) - 1) \div Cardinality(Models(r))

\* Mutant: no minimum.
PerCardOrNone(r) == Share(r) \div Cardinality(Models(r))

\* Copies of each model of a rarity: at least one.
PerCard(r) == Max({ 1, Share(r) \div Cardinality(Models(r)) })

\* CalculateCardCopies.
CalculateCardCopies ==
  /\ stage = "count"
  /\ copies' = [m \in UNION { Models(r) : r \in Rarity } |-> PerCard(CountsAs(m))]
  /\ stage' = "deal"
  /\ UNCHANGED <<glossary, total, pool, unshuffled, boosters>>

Instances(m) == [i \in 1 .. copies[m] |-> [id |-> Len(pool) + i, model |-> m]]

Dealt(m) == \E i \in 1 .. Len(pool) : pool[i].model = m

\* CreateCardPool goes through the map of copies in no certain order.
DealModel(m) ==
  /\ stage = "deal"
  /\ ~ Dealt(m)
  /\ pool' = pool \o Instances(m)
  /\ UNCHANGED <<stage, glossary, total, copies, unshuffled, boosters>>

DealingDone ==
  /\ stage = "deal"
  /\ \A m \in DOMAIN copies : copies[m] > 0 => Dealt(m)
  /\ stage' = "shuffle"
  /\ unshuffled' = Len(pool)
  /\ UNCHANGED <<glossary, total, copies, pool, boosters>>

\* Mutant: the first assignment has overwritten the card that the second copies.
SwapOneByOne(i, j) == [pool EXCEPT ![i] = pool[j]]

Swapped(i, j) == [pool EXCEPT ![i] = pool[j], ![j] = pool[i]]

\* rand.Shuffle: the last card not yet gone over changes places with one of those
\* before it, or with itself.
ShuffleOne(j) ==
  /\ stage = "shuffle"
  /\ unshuffled > 1
  /\ pool' = Swapped(unshuffled, j)
  /\ unshuffled' = unshuffled - 1
  /\ UNCHANGED <<stage, glossary, total, copies, boosters>>

ShuffleDone ==
  /\ stage = "shuffle"
  /\ unshuffled <= 1
  /\ stage' = "pack"
  /\ UNCHANGED <<glossary, total, copies, pool, unshuffled, boosters>>

\* The rest of CreateBoosters: the next pack.
Pack ==
  /\ stage = "pack"
  /\ Len(boosters) < Len(pool) \div CardsPerBooster
  /\ boosters' = Append(boosters,
       [k \in 1 .. CardsPerBooster |-> pool[Len(boosters) * CardsPerBooster + k]])
  /\ UNCHANGED <<stage, glossary, total, copies, pool, unshuffled>>

PackingDone ==
  /\ stage = "pack"
  /\ Len(boosters) = Len(pool) \div CardsPerBooster
  /\ stage' = "ready"
  /\ UNCHANGED <<glossary, total, copies, pool, unshuffled, boosters>>

Vault == UNION { [S -> Rarity \cup { "outra" }] : S \in SUBSET Model }

Next ==
  \/ \E g \in Vault : Load(g)
  \/ LoadFails
  \/ CalculateCardCopies
  \/ \E m \in DOMAIN copies : DealModel(m)
  \/ DealingDone
  \/ \E j \in 1 .. unshuffled : ShuffleOne(j)
  \/ ShuffleDone
  \/ Pack
  \/ PackingDone

Spec == Init /\ [][Next]_vars
-----------------------------------------------------------------------------
InBoosters == { <<b, k>> : b \in 1 .. Len(boosters), k \in 1 .. CardsPerBooster }

\* However few boosters are asked for, and whatever its rarity is called, each
\* model of the vault is dealt ("garante pelo menos uma carta").  Of a rarity there
\* are as many cards as its share says, but for what dividing the share among the
\* models leaves over, or one of each where the share is less than that.
DealtByRarity ==
  stage \in { "shuffle", "pack" } =>
    /\ \A m \in DOMAIN glossary : Dealt(m)
    /\ \A r \in Rarity :
         LET dealt == Cardinality({ i \in 1 .. Len(pool) : CountsAs(pool[i].model) = r })
             models == Cardinality(Models(r))
         IN models > 0 => /\ dealt <= Max({ Share(r), models })
                          /\ dealt > Share(r) - models

\* Each card that was dealt is in one pack, except for fewer than three that are
\* left over: shuffling in place neither loses a card nor doubles one, and the
\* packs do not overlap.
PackedOnce ==
  stage = "ready" =>
    LET packed == { boosters[x[1]][x[2]].id : x \in InBoosters } IN
      /\ Cardinality(packed) = Cardinality(InBoosters)
      /\ packed \subseteq 1 .. Len(pool)
      /\ Len(pool) - Cardinality(packed) < CardsPerBooster
=============================================================================
