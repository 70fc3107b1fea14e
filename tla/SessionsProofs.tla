--------------------------- MODULE SessionsProofs ---------------------------
(***************************************************************************)
(* Theorems about Sessions, for any number of players and requests and any *)
(* signatures.                                                             *)
(***************************************************************************)
EXTENDS Sessions, SignatureCodecProofs, FiniteSetTheorems

USE SessionsAssumption

BattleOf(p, b) == b \in 1 .. Len(askedBattle) /\ askedBattle[b] = p
TradeOf(p) == \E t \in 1 .. Len(askedTrade) : askedTrade[t] = p

CallsAsked == \A c \in calls : IF c.kind = "battle" THEN BattleOf(c.from, c.id)
                                                   ELSE TradeOf(c.from)
NoticesAsked == \A p \in Player : \A i \in 1 .. Len(inbox[p]) :
                  /\ inbox[p][i].kind = "battle" => BattleOf(p, inbox[p][i].id)
                  /\ inbox[p][i].kind = "trade" => TradeOf(p)
LoopsAsked == \A l \in loops : IF l.kind = "battle" THEN idBatalha[l.of] # 0
                                                    ELSE TradeOf(l.of)
NamedAsked == \A p \in Player : idBatalha[p] # 0 => BattleOf(p, idBatalha[p])
EntryAsked == tradePeer # NoPlayer => TradeOf(tradePeer)

\* Whatever leads to a session was asked for by the player it concerns.
AskedInv == CallsAsked /\ NoticesAsked /\ LoopsAsked /\ NamedAsked /\ EntryAsked
              /\ WinnerAsked

-----------------------------------------------------------------------------
(* Types.                                                                  *)

LEMMA TypeInit == Init => SessionsTypeOK
BY DEF Init, SessionsTypeOK, Estado, Battle

\* The notice that listenRedis takes.
LEMMA FirstNotice ==
  ASSUME SessionsTypeOK, NEW p \in Player, NEW kind, FirstIs(p, kind)
  PROVE  /\ 1 \in 1 .. Len(inbox[p])
         /\ Head(inbox[p]) = inbox[p][1]
         /\ Head(inbox[p]) \in Notice
         /\ Head(inbox[p]).kind = kind
         /\ Head(inbox[p]).id \in Nat
         /\ Tail(inbox[p]) \in Seq(Notice)
         /\ Len(Tail(inbox[p])) = Len(inbox[p]) - 1
         /\ \A i \in 1 .. Len(Tail(inbox[p])) :
              /\ i + 1 \in 1 .. Len(inbox[p])
              /\ Tail(inbox[p])[i] = inbox[p][i + 1]
<1>1. inbox[p] \in Seq(Notice) /\ inbox[p] # << >>
  BY DEF SessionsTypeOK, FirstIs
<1>2. Head(inbox[p]) \in Notice /\ Head(inbox[p]).kind = kind
  BY <1>1 DEF FirstIs
<1>3. Head(inbox[p]).id \in Nat
  BY <1>2 DEF Notice
<1> HIDE DEF Notice
<1> QED BY <1>1, <1>2, <1>3

LEMMA LastAppended ==
  ASSUME NEW S, NEW w \in Seq(S), NEW x \in S, NEW i \in 1 .. Len(Append(w, x))
  PROVE  \/ i \in 1 .. Len(w) /\ Append(w, x)[i] = w[i]
         \/ Append(w, x)[i] = x
OBVIOUS

\* A notice is published at the end of a channel.
LEMMA Published ==
  ASSUME SessionsTypeOK, NEW q \in Player, NEW n \in Notice, inbox' = Publish(q, n)
  PROVE  /\ inbox' \in [Player -> Seq(Notice)]
         /\ \A p \in Player : \A i \in 1 .. Len(inbox'[p]) :
              \/ \E j \in 1 .. Len(inbox[p]) : inbox'[p][i] = inbox[p][j]
              \/ p = q /\ inbox'[p][i] = n
<1> HIDE DEF Notice
<1>1. \A p \in Player : inbox[p] \in Seq(Notice)
  BY DEF SessionsTypeOK
<1>2. \A p \in Player : inbox'[p] = IF p = q THEN Append(inbox[p], n) ELSE inbox[p]
  BY DEF SessionsTypeOK, Publish
<1>3. inbox' \in [Player -> Seq(Notice)]
  BY DEF SessionsTypeOK, Publish
<1>4. ASSUME NEW p \in Player, NEW i \in 1 .. Len(inbox'[p])
      PROVE  \/ i \in 1 .. Len(inbox[p]) /\ inbox'[p][i] = inbox[p][i]
             \/ p = q /\ inbox'[p][i] = n
  <2>1. CASE p # q
    BY <1>2, <1>4, <2>1
  <2>2. CASE p = q
    <3>1. inbox'[p] = Append(inbox[p], n)
      BY <1>2, <2>2
    <3>2. i \in 1 .. Len(Append(inbox[p], n))
      BY <1>4, <3>1
    <3> QED BY <1>1, <2>2, <3>1, <3>2, LastAppended
  <2> QED BY <2>1, <2>2
<1> QED BY <1>3, <1>4

\* Or taken from its beginning.
LEMMA Received ==
  ASSUME SessionsTypeOK, NEW p \in Player, NEW kind, FirstIs(p, kind),
         inbox' = [inbox EXCEPT ![p] = Tail(@)]
  PROVE  \A q \in Player : \A i \in 1 .. Len(inbox'[q]) :
           \E j \in 1 .. Len(inbox[q]) : inbox'[q][i] = inbox[q][j]
<1> SUFFICES ASSUME NEW q \in Player, NEW i \in 1 .. Len(inbox'[q])
             PROVE  \E j \in 1 .. Len(inbox[q]) : inbox'[q][i] = inbox[q][j]
  OBVIOUS
<1>1. inbox'[q] = IF q = p THEN Tail(inbox[p]) ELSE inbox[q]
  BY DEF SessionsTypeOK
<1>2. CASE q = p
  BY <1>1, <1>2, FirstNotice
<1>3. CASE q # p
  BY <1>1, <1>3
<1> QED BY <1>2, <1>3

LEMMA ReplaceInSeq ==
  ASSUME NEW S, NEW q \in Seq(S), NEW i \in 1 .. Len(q)
  PROVE  /\ q[i] \in S
         /\ \A x \in S : /\ [q EXCEPT ![i] = x] \in Seq(S)
                         /\ Len([q EXCEPT ![i] = x]) = Len(q)
OBVIOUS

LEMMA TypeStep == SessionsTypeOK /\ AskedInv /\ [Next]_vars => SessionsTypeOK'
<1> SUFFICES ASSUME SessionsTypeOK, AskedInv, [Next]_vars PROVE SessionsTypeOK'
  OBVIOUS
<1> USE DEF clientVars, serverVars, registerVars, askedVars
<1>1. ASSUME NEW p \in Player, ChoosePairing(p) PROVE SessionsTypeOK'
  BY <1>1 DEF SessionsTypeOK, ChoosePairing
<1>2. ASSUME NEW p \in Player, Unpair(p) PROVE SessionsTypeOK'
  BY <1>2 DEF SessionsTypeOK, Unpair, Estado
<1>3. ASSUME NEW p \in Player, AskBattle(p) PROVE SessionsTypeOK'
  <2>1. askedBattle' \in Seq(Player) /\ Len(askedBattle') = Len(askedBattle) + 1
    BY <1>3 DEF SessionsTypeOK, AskBattle
  <2>2. idBatalha' \in [Player -> 0 .. Len(askedBattle')]
    BY <1>3, <2>1 DEF SessionsTypeOK, AskBattle
  <2>3. calls' \subseteq Call
    <3>1. NewCall("battle", Len(askedBattle'), p) \in Call
      BY <1>3, <2>1 DEF NewCall, Call, Kind, SessionsTypeOK
    <3> QED BY <1>3, <3>1 DEF SessionsTypeOK, AskBattle
  <2>4. Len(askedBattle') + Len(askedTrade') <= MaxAsked
    BY <1>3, <2>1 DEF SessionsTypeOK, AskBattle
  <2> QED BY <1>3, <2>1, <2>2, <2>3, <2>4 DEF SessionsTypeOK, AskBattle
<1>4. ASSUME NEW p \in Player, AskTrade(p) PROVE SessionsTypeOK'
  <2>1. askedTrade' \in Seq(Player) /\ Len(askedTrade') = Len(askedTrade) + 1
    BY <1>4 DEF SessionsTypeOK, AskTrade
  <2>2. calls' \subseteq Call
    <3>1. NewCall("trade", Len(askedTrade'), p) \in Call
      BY <1>4, <2>1 DEF NewCall, Call, Kind, SessionsTypeOK
    <3> QED BY <1>4, <3>1 DEF SessionsTypeOK, AskTrade
  <2>3. Len(askedBattle') + Len(askedTrade') <= MaxAsked
    BY <1>4, <2>1 DEF SessionsTypeOK, AskTrade
  <2> QED BY <1>4, <2>1, <2>2, <2>3 DEF SessionsTypeOK, AskTrade
<1>5. ASSUME NEW p \in Player, NEW q \in Player, Pair(p, q) PROVE SessionsTypeOK'
  BY <1>5 DEF SessionsTypeOK, Pair, Estado
<1>6. ASSUME NEW p \in Player, BeginBattle(p) PROVE SessionsTypeOK'
  <2>1. FirstIs(p, "battle")
    BY <1>6 DEF BeginBattle
  <2>2. Head(inbox[p]).id \in 1 .. Len(askedBattle)
    BY <1>6, <2>1, FirstNotice DEF AskedInv, NoticesAsked, BattleOf
  <2>3. NewLoop("battle", p) \in Loop
    BY <1>6, <2>1, FirstNotice DEF NewLoop, Loop, Kind
  <2>4. inbox' \in [Player -> Seq(Notice)]
    BY <1>6, <2>1, FirstNotice DEF BeginBattle, SessionsTypeOK
  <2>5. idBatalha' \in [Player -> 0 .. Len(askedBattle)]
    <3>1. Head(inbox[p]).id \in 0 .. Len(askedBattle)
      BY <2>2
    <3>2. idBatalha' = [idBatalha EXCEPT ![p] = Head(inbox[p]).id]
      BY <1>6 DEF BeginBattle
    <3>3. idBatalha \in [Player -> 0 .. Len(askedBattle)]
      BY DEF SessionsTypeOK
    <3> QED BY <3>1, <3>2, <3>3
  <2>6. loops' \subseteq Loop
    BY <1>6, <2>3 DEF SessionsTypeOK, BeginBattle
  <2>7. estadoAtual' \in [Player -> Estado]
    BY <1>6 DEF SessionsTypeOK, BeginBattle, Estado
  <2> QED BY <1>6, <2>4, <2>5, <2>6, <2>7 DEF SessionsTypeOK, BeginBattle
<1>7. ASSUME NEW p \in Player, BeginTrade(p) PROVE SessionsTypeOK'
  <2>1. FirstIs(p, "trade")
    BY <1>7 DEF BeginTrade
  <2>2. TradeLoop(p) \in Loop
    BY <1>7, <2>1, FirstNotice DEF TradeLoop, NewLoop, Loop, Kind
  <2>3. inbox' \in [Player -> Seq(Notice)]
    BY <1>7, <2>1, FirstNotice DEF BeginTrade, SessionsTypeOK
  <2> QED BY <1>7, <2>2, <2>3 DEF SessionsTypeOK, BeginTrade, Estado
<1>8. ASSUME NEW p \in Player, TradeConfirmed(p) PROVE SessionsTypeOK'
  <2>1. inbox[p] \in Seq(Notice) /\ inbox[p] # << >>
    BY <1>8 DEF SessionsTypeOK, TradeConfirmed, FirstIs
  <2>2. Tail(inbox[p]) \in Seq(Notice)
    BY <2>1
  <2>3. inbox' \in [Player -> Seq(Notice)]
    BY <1>8, <2>2 DEF SessionsTypeOK, TradeConfirmed
  <2>4. estadoAtual' \in [Player -> Estado]
    BY <1>8 DEF SessionsTypeOK, TradeConfirmed, Estado
  <2> QED
    BY <1>8, <2>3, <2>4 DEF SessionsTypeOK, TradeConfirmed
<1>9. ASSUME NEW c \in calls, StoreTrade(c) PROVE SessionsTypeOK'
  BY <1>9 DEF SessionsTypeOK, StoreTrade, Stored, Call, LocalPlayer
<1>10. ASSUME NEW c \in calls, AnnounceBattle(c) PROVE SessionsTypeOK'
  <2>1. c.from \in Player /\ [kind |-> "battle", id |-> c.id] \in Notice
    BY <1>10 DEF SessionsTypeOK, Call, Notice, Kind
  <2>2. inbox' \in [Player -> Seq(Notice)]
    BY <1>10, <2>1, Published DEF AnnounceBattle, LocalPlayer
  <2> QED BY <1>10, <2>1, <2>2 DEF SessionsTypeOK, AnnounceBattle, LocalPlayer
<1>11. ASSUME NEW c \in calls, AnnounceTrade(c) PROVE SessionsTypeOK'
  <2>1. [kind |-> "trade", id |-> c.id] \in Notice
    BY <1>11 DEF SessionsTypeOK, Call, Notice, Kind
  <2>2. inbox' \in [Player -> Seq(Notice)]
    <3>1. CASE tradePeer = NoPlayer
      BY <1>11, <3>1 DEF SessionsTypeOK, AnnounceTrade
    <3>2. CASE tradePeer # NoPlayer
      <4>1. tradePeer \in Player
        BY <3>2 DEF SessionsTypeOK
      <4>2. inbox' = Publish(tradePeer, [kind |-> "trade", id |-> c.id])
        BY <1>11, <3>2 DEF AnnounceTrade
      <4> QED BY <2>1, <4>1, <4>2, Published
    <3> QED BY <3>1, <3>2
  <2>3. calls' \subseteq Call
    BY <1>11 DEF SessionsTypeOK, AnnounceTrade
  <2> QED BY <1>11, <2>2, <2>3 DEF SessionsTypeOK, AnnounceTrade
<1>12. ASSUME NEW l \in loops, EndLoop(l) PROVE SessionsTypeOK'
  BY <1>12 DEF SessionsTypeOK, EndLoop, Loop, StateAfterLoop, Estado
<1>13. ASSUME NEW l \in loops, NEW sig \in Signature, ReportResult(l, sig)
      PROVE SessionsTypeOK'
  <2> DEFINE x == [loop |-> l.id, battle |-> BattleNamed(l), winner |-> l.of, sig |-> sig]
  <2>1. l \in Loop /\ l.of \in Player /\ idBatalha[l.of] # 0
    BY <1>13 DEF SessionsTypeOK, Loop, ReportResult, AskedInv, LoopsAsked
  <2>2. BattleNamed(l) \in Battle
    <3> HIDE DEF x
    <3>1. idBatalha[l.of] \in 0 .. Len(askedBattle)
      BY <2>1 DEF SessionsTypeOK
    <3>2. Len(askedBattle) \in Nat /\ Len(askedTrade) \in Nat
      BY DEF SessionsTypeOK
    <3>3. Len(askedBattle) <= MaxAsked
      BY <3>2 DEF SessionsTypeOK
    <3> QED BY <2>1, <3>1, <3>2, <3>3 DEF BattleNamed, Battle
  <2>3. x \in Report
    BY <1>13, <2>1, <2>2 DEF Report, Loop
  <2>4. [l EXCEPT !.reported = TRUE] \in Loop
    BY <2>1 DEF Loop
  <2>5. Register(x)
    BY <1>13 DEF ReportResult
  <2>6. results' \subseteq Report /\ refused' \subseteq Report
    BY <2>3, <2>5 DEF SessionsTypeOK, Register
  <2> QED BY <1>13, <2>4, <2>6 DEF SessionsTypeOK, ReportResult
<1>14. ASSUME NEW b \in Battle, EndBattle(b) PROVE SessionsTypeOK'
  BY <1>14 DEF SessionsTypeOK, EndBattle
<1>15. ASSUME EndTrade PROVE SessionsTypeOK'
  BY <1>15 DEF SessionsTypeOK, EndTrade
<1>16. ASSUME NEW p \in Player, NEW q \in Player, RegisterTrade(p, q)
      PROVE SessionsTypeOK'
  <2>1. [users |-> {p, q}, told |-> FALSE] \in [users : SUBSET Player, told : BOOLEAN]
    BY <1>16
  <2>2. /\ trades' \in Seq([users : SUBSET Player, told : BOOLEAN])
        /\ Len(trades') <= MaxConfirmed
    BY <1>16, <2>1 DEF SessionsTypeOK, RegisterTrade
  <2> QED BY <1>16, <2>2 DEF SessionsTypeOK, RegisterTrade
<1>17. ASSUME NEW i \in 1 .. Len(trades), ConfirmTrade(i) PROVE SessionsTypeOK'
  <2> DEFINE Trade == [users : SUBSET Player, told : BOOLEAN]
  <2>1. trades \in Seq(Trade) /\ trades[i] \in Trade
    BY <1>17, ReplaceInSeq DEF SessionsTypeOK
  <2>2. [trades[i] EXCEPT !.told = TRUE] \in Trade
    BY <2>1
  <2>3. trades' = [trades EXCEPT ![i] = [trades[i] EXCEPT !.told = TRUE]]
    BY <1>17 DEF ConfirmTrade
  <2> HIDE DEF Trade
  <2>4. trades' \in Seq(Trade) /\ Len(trades') = Len(trades)
    BY <1>17, <2>1, <2>2, <2>3, ReplaceInSeq
  <2>5. [kind |-> "confirmed", id |-> 0] \in Notice
    BY DEF Notice
  <2>6. inbox' \in [Player -> Seq(Notice)]
    BY <1>17, <2>5 DEF SessionsTypeOK, ConfirmTrade
  <2> QED BY <1>17, <2>4, <2>6 DEF SessionsTypeOK, ConfirmTrade, Trade
<1>18. CASE UNCHANGED vars
  BY <1>18 DEF SessionsTypeOK, vars
<1> QED BY <1>1, <1>2, <1>3, <1>4, <1>5, <1>6, <1>7, <1>8, <1>9,
          <1>10, <1>11, <1>12, <1>13, <1>14, <1>15, <1>16, <1>17, <1>18
     DEF Next, Menu, ListenRedis, Handle, RunLoop
-----------------------------------------------------------------------------
(* Sessions that were asked for.                                           *)

LEMMA AskedInit == Init => AskedInv
BY DEF Init, AskedInv, CallsAsked, NoticesAsked, LoopsAsked, NamedAsked, EntryAsked, WinnerAsked,
  BattleOf, TradeOf

\* A channel keeps to what was asked for when a notice is taken from it, and when
\* one is added that does.
LEMMA NoticesTaken ==
  ASSUME SessionsTypeOK, NoticesAsked, UNCHANGED <<askedBattle, askedTrade>>,
         NEW p \in Player, NEW kind, FirstIs(p, kind),
         inbox' = [inbox EXCEPT ![p] = Tail(@)]
  PROVE  NoticesAsked'
<1> SUFFICES ASSUME NEW q \in Player, NEW i \in 1 .. Len(inbox'[q])
             PROVE  /\ inbox'[q][i].kind = "battle" => BattleOf(q, inbox'[q][i].id)
                    /\ inbox'[q][i].kind = "trade" => TradeOf(q)
  BY DEF NoticesAsked, BattleOf, TradeOf
<1>1. PICK j \in 1 .. Len(inbox[q]) : inbox'[q][i] = inbox[q][j]
  BY Received
<1> QED BY <1>1 DEF NoticesAsked

LEMMA NoticesAdded ==
  ASSUME SessionsTypeOK, NoticesAsked, UNCHANGED <<askedBattle, askedTrade>>,
         NEW r \in Player, NEW n \in Notice, inbox' = Publish(r, n),
         n.kind = "battle" => BattleOf(r, n.id),
         n.kind = "trade" => TradeOf(r)
  PROVE  NoticesAsked'
<1> SUFFICES ASSUME NEW p \in Player, NEW i \in 1 .. Len(inbox'[p])
             PROVE  /\ inbox'[p][i].kind = "battle" => BattleOf(p, inbox'[p][i].id)
                    /\ inbox'[p][i].kind = "trade" => TradeOf(p)
  BY DEF NoticesAsked, BattleOf, TradeOf
<1>1. CASE \E j \in 1 .. Len(inbox[p]) : inbox'[p][i] = inbox[p][j]
  BY <1>1 DEF NoticesAsked
<1>2. CASE p = r /\ inbox'[p][i] = n
  BY <1>2 DEF BattleOf, TradeOf
<1>3. \/ \E j \in 1 .. Len(inbox[p]) : inbox'[p][i] = inbox[p][j]
      \/ p = r /\ inbox'[p][i] = n
  BY Published
<1> QED BY <1>1, <1>2, <1>3

LEMMA AskedStep == SessionsTypeOK /\ AskedInv /\ [Next]_vars => AskedInv'
<1> SUFFICES ASSUME SessionsTypeOK, AskedInv, [Next]_vars PROVE AskedInv'
  OBVIOUS
<1> USE DEF clientVars, serverVars, registerVars, askedVars
<1> USE DEF AskedInv, CallsAsked, NoticesAsked, LoopsAsked, NamedAsked, EntryAsked, WinnerAsked,
  BattleOf, TradeOf
<1>1. ASSUME NEW p \in Player, ChoosePairing(p) PROVE AskedInv'
  BY <1>1 DEF ChoosePairing
<1>2. ASSUME NEW p \in Player, Unpair(p) PROVE AskedInv'
  BY <1>2 DEF Unpair
<1>3. ASSUME NEW p \in Player, AskBattle(p) PROVE AskedInv'
  <2>1. /\ Len(askedBattle') = Len(askedBattle) + 1 /\ Len(askedBattle) \in Nat
        /\ askedBattle'[Len(askedBattle')] = p
        /\ \A b \in 1 .. Len(askedBattle) : askedBattle'[b] = askedBattle[b]
    BY <1>3 DEF AskBattle, SessionsTypeOK
  <2>2. \A q : \A b : BattleOf(q, b) =>
          b \in 1 .. Len(askedBattle') /\ askedBattle'[b] = q
    BY <2>1
  <2>3. CallsAsked'
    BY <1>3, <2>1, <2>2 DEF AskBattle, NewCall
  <2>4. NoticesAsked'
    BY <1>3, <2>2 DEF AskBattle
  <2>6. NamedAsked'
    BY <1>3, <2>2 DEF AskBattle
  <2>7. LoopsAsked' /\ EntryAsked'
    BY <1>3 DEF AskBattle
  <2>5. WinnerAsked'
    BY <1>3, <2>2 DEF AskBattle
  <2> QED BY <2>3, <2>4, <2>5, <2>6, <2>7
<1>4. ASSUME NEW p \in Player, AskTrade(p) PROVE AskedInv'
  <2>1. /\ Len(askedTrade') = Len(askedTrade) + 1 /\ Len(askedTrade) \in Nat
        /\ askedTrade'[Len(askedTrade')] = p
        /\ \A b \in 1 .. Len(askedTrade) : askedTrade'[b] = askedTrade[b]
    BY <1>4 DEF AskTrade, SessionsTypeOK
  <2>2. \A q : TradeOf(q) => \E b \in 1 .. Len(askedTrade') : askedTrade'[b] = q
    BY <2>1
  <2>3. \E b \in 1 .. Len(askedTrade') : askedTrade'[b] = p
    BY <2>1
  <2>4. CallsAsked'
    BY <1>4, <2>2, <2>3 DEF AskTrade, NewCall
  <2>5. NoticesAsked' /\ NamedAsked' /\ LoopsAsked' /\ EntryAsked' /\ WinnerAsked'
    BY <1>4, <2>2 DEF AskTrade
  <2> QED BY <2>4, <2>5
<1>5. ASSUME NEW p \in Player, NEW q \in Player, Pair(p, q) PROVE AskedInv'
  BY <1>5 DEF Pair
<1>6. ASSUME NEW p \in Player, BeginBattle(p) PROVE AskedInv'
  <2>1. FirstIs(p, "battle")
    BY <1>6 DEF BeginBattle
  <2>3. NoticesAsked'
    BY <1>6, <2>1, NoticesTaken DEF BeginBattle
  <2>4. BattleOf(p, Head(inbox[p]).id)
    BY <1>6, <2>1, FirstNotice
  <2>5. \A q \in Player : idBatalha'[q] = IF q = p THEN Head(inbox[p]).id
                                                   ELSE idBatalha[q]
    BY <1>6 DEF BeginBattle, SessionsTypeOK
  <2>6. NamedAsked'
    BY <1>6, <2>4, <2>5 DEF BeginBattle
  <2>7. NewLoop("battle", p).kind = "battle" /\ NewLoop("battle", p).of = p
    BY DEF NewLoop
  <2>8. \A l \in loops : l.of \in Player
    BY DEF SessionsTypeOK, Loop
  <2>9. Head(inbox[p]).id # 0
    BY <2>4, FirstNotice
  <2>10. LoopsAsked'
    BY <1>6, <2>5, <2>7, <2>8, <2>9 DEF BeginBattle
  <2>11. CallsAsked' /\ EntryAsked' /\ WinnerAsked'
    BY <1>6 DEF BeginBattle
  <2> QED BY <2>3, <2>6, <2>10, <2>11
<1>7. ASSUME NEW p \in Player, BeginTrade(p) PROVE AskedInv'
  <2>1. FirstIs(p, "trade")
    BY <1>7 DEF BeginTrade
  <2>3. NoticesAsked'
    BY <1>7, <2>1, NoticesTaken DEF BeginTrade
  <2>4. TradeOf(p)
    BY <1>7, <2>1, FirstNotice
  <2>5. TradeLoop(p).kind = "trade" /\ TradeLoop(p).of = p
    BY DEF TradeLoop, NewLoop
  <2>6. LoopsAsked'
    BY <1>7, <2>4, <2>5 DEF BeginTrade
  <2>7. CallsAsked' /\ NamedAsked' /\ EntryAsked' /\ WinnerAsked'
    BY <1>7 DEF BeginTrade
  <2> QED BY <2>3, <2>6, <2>7
<1>8. ASSUME NEW p \in Player, TradeConfirmed(p) PROVE AskedInv'
  <2>1. FirstIs(p, "confirmed")
    BY <1>8 DEF TradeConfirmed
  <2>3. NoticesAsked'
    BY <1>8, <2>1, NoticesTaken DEF TradeConfirmed
  <2>4. CallsAsked' /\ LoopsAsked' /\ NamedAsked' /\ EntryAsked' /\ WinnerAsked'
    BY <1>8 DEF TradeConfirmed
  <2> QED BY <2>3, <2>4
<1>9. ASSUME NEW c \in calls, StoreTrade(c) PROVE AskedInv'
  <2>1. TradeOf(c.from)
    BY <1>9 DEF StoreTrade
  <2>2. /\ [c EXCEPT !.stored = TRUE].kind = c.kind
        /\ [c EXCEPT !.stored = TRUE].from = c.from
    BY <1>9 DEF SessionsTypeOK, Call
  <2>3. CallsAsked'
    <3>1. calls' = (calls \ {c}) \cup { [c EXCEPT !.stored = TRUE] }
      BY <1>9 DEF StoreTrade, Stored
    <3>2. UNCHANGED askedVars
      BY <1>9 DEF StoreTrade
    <3>3. c.kind = "trade" /\ TradeOf(c.from)'
      BY <1>9, <2>1, <3>2 DEF StoreTrade
    <3>4. \A d \in calls : IF d.kind = "battle" THEN BattleOf(d.from, d.id)'
                                               ELSE TradeOf(d.from)'
      BY <3>2
    <3> HIDE DEF BattleOf, TradeOf
    <3> QED BY <2>2, <3>1, <3>3, <3>4
  <2>4. EntryAsked'
    BY <1>9, <2>1 DEF StoreTrade, LocalPlayer
  <2>5. NoticesAsked' /\ LoopsAsked' /\ NamedAsked' /\ WinnerAsked'
    BY <1>9 DEF StoreTrade
  <2> QED BY <2>3, <2>4, <2>5
<1>10. ASSUME NEW c \in calls, AnnounceBattle(c) PROVE AskedInv'
  <2> DEFINE n == [kind |-> "battle", id |-> c.id]
  <2>1. c.from \in Player /\ n \in Notice
    BY <1>10 DEF SessionsTypeOK, Call, Notice, Kind
  <2>2. BattleOf(c.from, n.id) /\ n.kind = "battle"
    BY <1>10 DEF AnnounceBattle
  <2>3. inbox' = Publish(c.from, n)
    BY <1>10 DEF AnnounceBattle, LocalPlayer
  <2> HIDE DEF n
  <2>4. NoticesAsked'
    <3>1. UNCHANGED <<askedBattle, askedTrade>>
      BY <1>10 DEF AnnounceBattle
    <3>2. NoticesAsked
      OBVIOUS
    <3>3. n.kind # "trade"
      BY <2>2
    <3> HIDE DEF NoticesAsked, BattleOf, TradeOf
    <3> QED BY <2>1, <2>2, <2>3, <3>1, <3>2, <3>3, NoticesAdded
  <2>5. CallsAsked' /\ LoopsAsked' /\ NamedAsked' /\ EntryAsked' /\ WinnerAsked'
    <3>1. calls' \subseteq calls /\ UNCHANGED <<clientVars, tradePeer, registerVars, askedVars>>
      BY <1>10 DEF AnnounceBattle
    <3>2. CallsAsked'
      BY <3>1
    <3>3. LoopsAsked' /\ NamedAsked' /\ EntryAsked'
      BY <3>1
    <3>4. WinnerAsked'
      BY <3>1
    <3> QED BY <3>2, <3>3, <3>4
  <2> QED BY <2>4, <2>5
<1>11. ASSUME NEW c \in calls, AnnounceTrade(c) PROVE AskedInv'
  <2>1. CallsAsked' /\ LoopsAsked' /\ NamedAsked' /\ EntryAsked' /\ WinnerAsked'
    BY <1>11 DEF AnnounceTrade
  <2>2. CASE tradePeer = NoPlayer
    BY <1>11, <2>1, <2>2 DEF AnnounceTrade
  <2>3. CASE tradePeer # NoPlayer
    <3> DEFINE n == [kind |-> "trade", id |-> c.id]
    <3>1. tradePeer \in Player /\ n \in Notice
      BY <1>11, <2>3 DEF SessionsTypeOK, Call, Notice, Kind
    <3>2. TradeOf(tradePeer) /\ n.kind = "trade"
      BY <2>3
    <3>3. inbox' = Publish(tradePeer, n)
      BY <1>11, <2>3 DEF AnnounceTrade
    <3> HIDE DEF n
    <3>4. NoticesAsked'
      BY <1>11, <3>1, <3>2, <3>3, NoticesAdded DEF AnnounceTrade
    <3> QED BY <2>1, <3>4
  <2> QED BY <2>2, <2>3
<1>12. ASSUME NEW l \in loops, EndLoop(l) PROVE AskedInv'
  BY <1>12 DEF EndLoop
<1>13. ASSUME NEW l \in loops, NEW sig \in Signature, ReportResult(l, sig)
      PROVE AskedInv'
  <2> DEFINE x == [loop |-> l.id, battle |-> BattleNamed(l), winner |-> l.of, sig |-> sig]
             m == [l EXCEPT !.reported = TRUE]
  <2>1. m.kind = l.kind /\ m.of = l.of /\ l.of \in Player
    BY <1>13 DEF SessionsTypeOK, Loop
  <2>2. loops' = (loops \ {l}) \cup {m}
    BY <1>13 DEF ReportResult
  <2>3. LoopsAsked'
    <3> HIDE DEF m
    <3> QED BY <1>13, <2>1, <2>2 DEF ReportResult
  <2>4. BattleOf(x.winner, x.battle)
    BY <1>13, <2>1 DEF ReportResult, BattleNamed
  <2>5. results' \cup refused' \subseteq results \cup refused \cup {x}
    BY <1>13 DEF ReportResult, Register
  <2>6. WinnerAsked'
    <3> HIDE DEF x
    <3> QED BY <1>13, <2>4, <2>5 DEF ReportResult
  <2>7. CallsAsked' /\ NoticesAsked' /\ NamedAsked' /\ EntryAsked'
    BY <1>13 DEF ReportResult
  <2> QED BY <2>3, <2>6, <2>7
<1>14. ASSUME NEW b \in Battle, EndBattle(b) PROVE AskedInv'
  BY <1>14 DEF EndBattle
<1>15. ASSUME EndTrade PROVE AskedInv'
  BY <1>15 DEF EndTrade
<1>16. ASSUME NEW p \in Player, NEW q \in Player, RegisterTrade(p, q) PROVE AskedInv'
  BY <1>16 DEF RegisterTrade
<1>17. ASSUME NEW i \in 1 .. Len(trades), ConfirmTrade(i) PROVE AskedInv'
  <2> DEFINE n == [kind |-> "confirmed", id |-> 0]
  <2>1. ASSUME NEW p \in Player, NEW j \in 1 .. Len(inbox'[p])
        PROVE  \/ j \in 1 .. Len(inbox[p]) /\ inbox'[p][j] = inbox[p][j]
               \/ inbox'[p][j] = n
    <3>1. n \in Notice
      BY DEF Notice
    <3>2. inbox[p] \in Seq(Notice)
      BY DEF SessionsTypeOK
    <3>3. inbox'[p] = inbox[p] \/ inbox'[p] = Append(inbox[p], n)
      BY <1>17 DEF ConfirmTrade
    <3> HIDE DEF n, Notice
    <3> QED BY <2>1, <3>1, <3>2, <3>3, LastAppended
  <2>2. NoticesAsked'
    <3>1. n.kind = "confirmed"
      OBVIOUS
    <3> HIDE DEF n
    <3> QED BY <1>17, <2>1, <3>1 DEF ConfirmTrade
  <2>3. CallsAsked' /\ LoopsAsked' /\ NamedAsked' /\ EntryAsked' /\ WinnerAsked'
    BY <1>17 DEF ConfirmTrade
  <2> QED BY <2>2, <2>3
<1>18. CASE UNCHANGED vars
  BY <1>18 DEF vars
<1> QED BY <1>1, <1>2, <1>3, <1>4, <1>5, <1>6, <1>7, <1>8, <1>9,
          <1>10, <1>11, <1>12, <1>13, <1>14, <1>15, <1>16, <1>17, <1>18
     DEF Next, Menu, ListenRedis, Handle, RunLoop
-----------------------------------------------------------------------------
(* Locked menus and refused results.                                       *)

LEMMA LockedStep == SessionsTypeOK /\ LockedByLoop /\ [Next]_vars => LockedByLoop'
<1> SUFFICES ASSUME SessionsTypeOK, LockedByLoop, [Next]_vars PROVE LockedByLoop'
  OBVIOUS
<1> USE DEF clientVars, serverVars, registerVars, askedVars, LockedByLoop
<1>1. ASSUME NEW p \in Player, ChoosePairing(p) PROVE LockedByLoop'
  BY <1>1 DEF ChoosePairing
<1>2. ASSUME NEW p \in Player, Unpair(p) PROVE LockedByLoop'
  BY <1>2 DEF Unpair, SessionsTypeOK
<1>3. ASSUME NEW p \in Player, AskBattle(p) PROVE LockedByLoop'
  BY <1>3 DEF AskBattle
<1>4. ASSUME NEW p \in Player, AskTrade(p) PROVE LockedByLoop'
  BY <1>4 DEF AskTrade
<1>5. ASSUME NEW p \in Player, NEW q \in Player, Pair(p, q) PROVE LockedByLoop'
  BY <1>5 DEF Pair, SessionsTypeOK
<1>6. ASSUME NEW p \in Player, BeginBattle(p) PROVE LockedByLoop'
  <2>1. \A q \in Player : estadoAtual'[q] = IF q = p THEN "Batalhando" ELSE estadoAtual[q]
    BY <1>6 DEF BeginBattle, SessionsTypeOK
  <2>2. NewLoop("battle", p).of = p /\ NewLoop("battle", p).kind = "battle"
    BY DEF NewLoop
  <2>3. loops' = loops \cup { NewLoop("battle", p) }
    BY <1>6 DEF BeginBattle
  <2> QED BY <2>1, <2>2, <2>3
<1>7. ASSUME NEW p \in Player, BeginTrade(p) PROVE LockedByLoop'
  <2>1. \A q \in Player : estadoAtual'[q] = IF q = p THEN "Trocando" ELSE estadoAtual[q]
    BY <1>7 DEF BeginTrade, SessionsTypeOK
  <2>2. TradeLoop(p).of = p /\ TradeLoop(p).kind = "trade"
    BY DEF TradeLoop, NewLoop
  <2>3. loops' = loops \cup { TradeLoop(p) }
    BY <1>7 DEF BeginTrade
  <2> QED BY <2>1, <2>2, <2>3
<1>8. ASSUME NEW p \in Player, TradeConfirmed(p) PROVE LockedByLoop'
  BY <1>8 DEF TradeConfirmed, SessionsTypeOK
<1>9. ASSUME NEW c \in calls, StoreTrade(c) PROVE LockedByLoop'
  BY <1>9 DEF StoreTrade
<1>10. ASSUME NEW c \in calls, AnnounceBattle(c) PROVE LockedByLoop'
  BY <1>10 DEF AnnounceBattle
<1>11. ASSUME NEW c \in calls, AnnounceTrade(c) PROVE LockedByLoop'
  BY <1>11 DEF AnnounceTrade
<1>12. ASSUME NEW l \in loops, EndLoop(l) PROVE LockedByLoop'
  BY <1>12 DEF EndLoop, StateAfterLoop, SessionsTypeOK, Loop
<1>13. ASSUME NEW l \in loops, NEW sig \in Signature, ReportResult(l, sig)
      PROVE LockedByLoop'
  <2> DEFINE m == [l EXCEPT !.reported = TRUE]
  <2>1. m.of = l.of /\ m.kind = l.kind
    BY <1>13 DEF SessionsTypeOK, Loop
  <2>2. loops' = (loops \ {l}) \cup {m} /\ estadoAtual' = estadoAtual
    BY <1>13 DEF ReportResult
  <2> HIDE DEF m
  <2> QED BY <2>1, <2>2
<1>14. ASSUME NEW b \in Battle, EndBattle(b) PROVE LockedByLoop'
  BY <1>14 DEF EndBattle
<1>15. ASSUME EndTrade PROVE LockedByLoop'
  BY <1>15 DEF EndTrade
<1>16. ASSUME NEW p \in Player, NEW q \in Player, RegisterTrade(p, q)
      PROVE LockedByLoop'
  BY <1>16 DEF RegisterTrade
<1>17. ASSUME NEW i \in 1 .. Len(trades), ConfirmTrade(i) PROVE LockedByLoop'
  BY <1>17 DEF ConfirmTrade
<1>18. CASE UNCHANGED vars
  BY <1>18 DEF vars
<1> QED BY <1>1, <1>2, <1>3, <1>4, <1>5, <1>6, <1>7, <1>8, <1>9,
          <1>10, <1>11, <1>12, <1>13, <1>14, <1>15, <1>16, <1>17, <1>18
     DEF Next, Menu, ListenRedis, Handle, RunLoop

-----------------------------------------------------------------------------
(* The theorems.                                                           *)

LEMMA AskedInvariant == Spec => [](SessionsTypeOK /\ AskedInv)
<1>1. Init => SessionsTypeOK /\ AskedInv
  BY TypeInit, AskedInit
<1>2. SessionsTypeOK /\ AskedInv /\ [Next]_vars => (SessionsTypeOK /\ AskedInv)'
  BY TypeStep, AskedStep
<1> QED BY <1>1, <1>2, PTL DEF Spec

(* Every reachable state of clients and server is well typed; in particular *)
(* loopBatalha never reports a battle without an identifier.                *)
THEOREM SessionsTypeCorrect == Spec => []SessionsTypeOK
BY AskedInvariant, PTL

(* handleRegisterBattle believes the client, and loops share idBatalha, but *)
(* a result reported is always of a battle that its winner has asked for.   *)
THEOREM WinnersAsked == Spec => []WinnerAsked
<1>1. AskedInv => WinnerAsked
  BY DEF AskedInv
<1> QED BY <1>1, AskedInvariant, PTL

(* While a client is in Batalhando or Trocando, a loop runs that will end   *)
(* the state.                                                               *)
THEOREM MenusLockedByLoops == Spec => []LockedByLoop
<1>1. Init => LockedByLoop
  BY DEF Init, LockedByLoop
<1> QED BY <1>1, LockedStep, SessionsTypeCorrect, PTL DEF Spec

-----------------------------------------------------------------------------
(* Wins.  A battle passes from the call to the notice, to the loop and to  *)
(* the result, and is at one place at a time: so there is one result per   *)
(* battle asked for at most, whatever battle the result names.             *)

CalledOnce ==
  \A c, d \in calls : c.kind = "battle" /\ d.kind = "battle" /\ c.id = d.id => c = d

NoticedOnce ==
  \A p, q \in Player : \A i \in 1 .. Len(inbox[p]), j \in 1 .. Len(inbox[q]) :
    /\ inbox[p][i].kind = "battle"
    /\ inbox[q][j].kind = "battle"
    /\ inbox[p][i].id = inbox[q][j].id
    => p = q /\ i = j

LoopedOnce ==
  \A l, m \in loops : l.kind = "battle" /\ m.kind = "battle" /\ l.id = m.id => l = m

ReportedOnce == \A x, y \in results : x.loop = y.loop => x = y

Noticed(b) == \E p \in Player : \E i \in 1 .. Len(inbox[p]) :
                inbox[p][i].kind = "battle" /\ inbox[p][i].id = b
Looping(b) == \E l \in loops : l.kind = "battle" /\ l.id = b
Reported(b) == \E x \in results : x.loop = b

\* What was done for a battle has left the stages before.
StagesLeft ==
  /\ \A c \in calls : c.kind = "battle"
       => ~ Noticed(c.id) /\ ~ Looping(c.id) /\ ~ Reported(c.id)
  /\ \A b \in Nat : Noticed(b) => ~ Looping(b) /\ ~ Reported(b)
  /\ \A l \in loops : l.kind = "battle" /\ ~ l.reported => ~ Reported(l.id)

\* A loop belongs to a battle its player asked for, and so does a result.
OwnBattles ==
  /\ \A l \in loops : l.kind = "battle" => BattleOf(l.of, l.id)
  /\ \A x \in results : BattleOf(x.winner, x.loop)

OnceInv == CalledOnce /\ NoticedOnce /\ LoopedOnce /\ ReportedOnce /\ StagesLeft
             /\ OwnBattles

LEMMA OnceInit == Init => OnceInv
BY DEF Init, OnceInv, CalledOnce, NoticedOnce, LoopedOnce, ReportedOnce, StagesLeft,
  OwnBattles, Noticed, Looping, Reported

\* Taking the first notice of a channel leaves the others at most once.
LEMMA TakenOnce ==
  ASSUME SessionsTypeOK, NoticedOnce, NEW p \in Player, NEW kind, FirstIs(p, kind),
         inbox' = [inbox EXCEPT ![p] = Tail(@)]
  PROVE  /\ NoticedOnce'
         /\ \A b : Noticed(b)' => Noticed(b)
         /\ \A b : kind = "battle" /\ b = Head(inbox[p]).id
                    => Noticed(b) /\ ~ Noticed(b)'
<1>1. /\ 1 \in 1 .. Len(inbox[p])
      /\ Head(inbox[p]) = inbox[p][1]
      /\ Head(inbox[p]).kind = kind
      /\ \A i \in 1 .. Len(Tail(inbox[p])) :
           /\ i + 1 \in 1 .. Len(inbox[p])
           /\ Tail(inbox[p])[i] = inbox[p][i + 1]
  BY FirstNotice
<1>2. /\ inbox'[p] = Tail(inbox[p])
      /\ \A q \in Player \ {p} : inbox'[q] = inbox[q]
  BY DEF SessionsTypeOK
<1> DEFINE At(q, i) == IF q = p THEN i + 1 ELSE i
<1>3. ASSUME NEW q \in Player, NEW i \in 1 .. Len(inbox'[q])
      PROVE  /\ At(q, i) \in 1 .. Len(inbox[q])
             /\ inbox'[q][i] = inbox[q][At(q, i)]
             /\ q = p => At(q, i) # 1
  <2>1. CASE q = p
    <3>1. i \in 1 .. Len(Tail(inbox[p]))
      BY <1>2, <2>1
    <3>2. i + 1 # 1
      BY <3>1
    <3> QED BY <1>1, <1>2, <2>1, <3>1, <3>2
  <2>2. CASE q # p
    BY <1>2, <1>3, <2>2
  <2> QED BY <2>1, <2>2
<1>4. ASSUME NEW q \in Player, NEW r \in Player,
             NEW i \in 1 .. Len(inbox'[q]), NEW j \in 1 .. Len(inbox'[r]),
             inbox'[q][i].kind = "battle", inbox'[r][j].kind = "battle",
             inbox'[q][i].id = inbox'[r][j].id
      PROVE  q = r /\ i = j
  <2>1. q = r /\ At(q, i) = At(r, j)
    <3> HIDE DEF At
    <3>1. PICK k \in 1 .. Len(inbox[q]) : inbox'[q][i] = inbox[q][k] /\ k = At(q, i)
      BY <1>3
    <3>2. PICK h \in 1 .. Len(inbox[r]) : inbox'[r][j] = inbox[r][h] /\ h = At(r, j)
      BY <1>3
    <3>3. /\ inbox[q][k].kind = "battle" /\ inbox[r][h].kind = "battle"
          /\ inbox[q][k].id = inbox[r][h].id
      BY <1>4, <3>1, <3>2
    <3>4. q = r /\ k = h
      BY <3>3 DEF NoticedOnce
    <3> QED BY <3>1, <3>2, <3>4
  <2>2. IF q = p THEN i + 1 = j + 1 ELSE i = j
    BY <2>1
  <2>3. i \in Int /\ j \in Int
    BY <1>4
  <2> HIDE DEF At
  <2>4. i + 1 = j + 1 => i = j
    BY <2>3
  <2> QED BY <2>1, <2>2, <2>4
<1>5. ASSUME NEW b, Noticed(b)' PROVE Noticed(b)
  <2>1. PICK q \in Player : \E i \in 1 .. Len(inbox'[q]) :
               inbox'[q][i].kind = "battle" /\ inbox'[q][i].id = b
    BY <1>5 DEF Noticed
  <2>2. PICK i \in 1 .. Len(inbox'[q]) :
               inbox'[q][i].kind = "battle" /\ inbox'[q][i].id = b
    BY <2>1
  <2> HIDE DEF At
  <2> QED BY <1>3, <2>2 DEF Noticed
<1>6. ASSUME kind = "battle", NEW b, b = Head(inbox[p]).id
      PROVE  Noticed(b) /\ ~ Noticed(b)'
  <2>1. Noticed(b)
    BY <1>1, <1>6 DEF Noticed
  <2>2. ASSUME NEW q \in Player, NEW i \in 1 .. Len(inbox'[q]),
               inbox'[q][i].kind = "battle", inbox'[q][i].id = b
        PROVE  FALSE
    <3> HIDE DEF At
    <3>1. PICK k \in 1 .. Len(inbox[q]) :
            inbox'[q][i] = inbox[q][k] /\ (q = p => k # 1)
      BY <1>3
    <3>2. inbox[q][k].kind = "battle" /\ inbox[q][k].id = inbox[p][1].id
      BY <1>1, <1>6, <2>2, <3>1
    <3>3. inbox[p][1].kind = "battle"
      BY <1>1, <1>6
    <3>4. q = p /\ k = 1
      BY <1>1, <3>2, <3>3 DEF NoticedOnce
    <3> QED BY <3>1, <3>4
  <2>3. ~ Noticed(b)'
    BY <2>2 DEF Noticed
  <2> QED BY <2>1, <2>3
<1> QED
  <2>1. NoticedOnce'
    BY <1>4 DEF NoticedOnce
  <2> QED BY <1>5, <1>6, <2>1

\* A notice added to a channel is the only one about its battle if there was
\* none before; other notices do not count.
LEMMA AddedOnce ==
  ASSUME SessionsTypeOK, NoticedOnce, NEW p \in Player, NEW n \in Notice,
         inbox' = Publish(p, n),
         n.kind = "battle" => ~ Noticed(n.id)
  PROVE  /\ NoticedOnce'
         /\ \A b : Noticed(b)' => Noticed(b) \/ (n.kind = "battle" /\ b = n.id)
<1> HIDE DEF Notice
<1>1. /\ inbox[p] \in Seq(Notice)
      /\ inbox'[p] = Append(inbox[p], n)
      /\ \A q \in Player \ {p} : inbox'[q] = inbox[q]
  BY DEF SessionsTypeOK, Publish
<1>2. ASSUME NEW q \in Player, NEW i \in 1 .. Len(inbox'[q])
      PROVE  \/ i \in 1 .. Len(inbox[q]) /\ inbox'[q][i] = inbox[q][i]
             \/ q = p /\ i = Len(inbox[p]) + 1 /\ inbox'[q][i] = n
  <2>1. CASE q = p
    BY <1>1, <1>2, <2>1
  <2>2. CASE q # p
    BY <1>1, <1>2, <2>2
  <2> QED BY <2>1, <2>2
<1>3. ASSUME NEW q \in Player, NEW i \in 1 .. Len(inbox[q]), inbox[q][i].kind = "battle",
             n.kind = "battle"
      PROVE  inbox[q][i].id # n.id
  BY <1>3 DEF Noticed
<1>4. ASSUME NEW q \in Player, NEW r \in Player,
             NEW i \in 1 .. Len(inbox'[q]), NEW j \in 1 .. Len(inbox'[r]),
             inbox'[q][i].kind = "battle", inbox'[r][j].kind = "battle",
             inbox'[q][i].id = inbox'[r][j].id
      PROVE  q = r /\ i = j
  <2>1. \/ i \in 1 .. Len(inbox[q]) /\ inbox'[q][i] = inbox[q][i]
        \/ q = p /\ i = Len(inbox[p]) + 1 /\ inbox'[q][i] = n
    BY <1>2
  <2>2. \/ j \in 1 .. Len(inbox[r]) /\ inbox'[r][j] = inbox[r][j]
        \/ r = p /\ j = Len(inbox[p]) + 1 /\ inbox'[r][j] = n
    BY <1>2
  <2>3. CASE /\ i \in 1 .. Len(inbox[q]) /\ inbox'[q][i] = inbox[q][i]
             /\ j \in 1 .. Len(inbox[r]) /\ inbox'[r][j] = inbox[r][j]
    <3>1. /\ inbox[q][i].kind = "battle" /\ inbox[r][j].kind = "battle"
          /\ inbox[q][i].id = inbox[r][j].id
      BY <1>4, <2>3
    <3> QED BY <2>3, <3>1 DEF NoticedOnce
  <2>4. ~ (/\ i \in 1 .. Len(inbox[q]) /\ inbox'[q][i] = inbox[q][i]
           /\ inbox'[r][j] = n)
    BY <1>3, <1>4
  <2>5. ~ (/\ j \in 1 .. Len(inbox[r]) /\ inbox'[r][j] = inbox[r][j]
           /\ inbox'[q][i] = n)
    BY <1>3, <1>4
  <2> QED BY <1>4, <2>1, <2>2, <2>3, <2>4, <2>5
<1>5. ASSUME NEW b, Noticed(b)' PROVE Noticed(b) \/ (n.kind = "battle" /\ b = n.id)
  <2>1. PICK q \in Player : \E i \in 1 .. Len(inbox'[q]) :
               inbox'[q][i].kind = "battle" /\ inbox'[q][i].id = b
    BY <1>5 DEF Noticed
  <2>2. PICK i \in 1 .. Len(inbox'[q]) :
               inbox'[q][i].kind = "battle" /\ inbox'[q][i].id = b
    BY <2>1
  <2> QED BY <1>2, <2>2 DEF Noticed
<1>6. NoticedOnce'
  BY ONLY <1>4 DEF NoticedOnce
<1> QED BY <1>5, <1>6

\* Nothing new about battles: what there is at a stage was there before.
LEMMA NothingNew ==
  ASSUME SessionsTypeOK, OnceInv, UNCHANGED <<results, askedBattle>>,
         \A c \in calls' : c.kind = "battle" => c \in calls,
         \A l \in loops' : l.kind = "battle" => l \in loops,
         NoticedOnce', \A b : Noticed(b)' => Noticed(b)
  PROVE  OnceInv'
<1>1. \A b : Looping(b)' => Looping(b)
  BY DEF Looping
<1>2. \A b : Reported(b)' <=> Reported(b)
  BY DEF Reported
<1>3. StagesLeft'
  <2>1. \A c \in calls' : c.kind = "battle"
          => ~ Noticed(c.id)' /\ ~ Looping(c.id)' /\ ~ Reported(c.id)'
    BY <1>1, <1>2 DEF OnceInv, StagesLeft
  <2>2. \A b \in Nat : Noticed(b)' => ~ Looping(b)' /\ ~ Reported(b)'
    BY <1>1, <1>2 DEF OnceInv, StagesLeft
  <2>3. \A l \in loops' : l.kind = "battle" /\ ~ l.reported => ~ Reported(l.id)'
    BY <1>2 DEF OnceInv, StagesLeft
  <2> QED BY <2>1, <2>2, <2>3 DEF StagesLeft
<1>4. CalledOnce' /\ LoopedOnce' /\ ReportedOnce'
  BY DEF OnceInv, CalledOnce, LoopedOnce, ReportedOnce
<1>5. OwnBattles'
  BY DEF OnceInv, OwnBattles, BattleOf
<1> QED BY <1>3, <1>4, <1>5 DEF OnceInv

LEMMA NoticesUnchanged ==
  ASSUME NoticedOnce, UNCHANGED inbox
  PROVE  NoticedOnce' /\ \A b : Noticed(b)' => Noticed(b)
BY DEF NoticedOnce, Noticed

LEMMA OnceStep == SessionsTypeOK /\ AskedInv /\ OnceInv /\ [Next]_vars => OnceInv'
<1> SUFFICES ASSUME SessionsTypeOK, AskedInv, OnceInv, [Next]_vars PROVE OnceInv'
  OBVIOUS
<1> USE DEF clientVars, serverVars, registerVars, askedVars
<1>0. NoticedOnce /\ calls \subseteq Call /\ loops \subseteq Loop
  BY DEF OnceInv, SessionsTypeOK
<1>1. ASSUME NEW p \in Player, AskBattle(p) PROVE OnceInv'
  <2> DEFINE b == Len(askedBattle) + 1
             c == NewCall("battle", b, p)
  <2>1. /\ Len(askedBattle') = b /\ Len(askedBattle) \in Nat
        /\ \A n \in 1 .. Len(askedBattle) : askedBattle'[n] = askedBattle[n]
        /\ UNCHANGED <<loops, inbox, results>>
    BY <1>1 DEF AskBattle, SessionsTypeOK
  <2>2. calls' = calls \cup {c}
    BY <1>1, <2>1 DEF AskBattle
  <2>3. c.kind = "battle" /\ c.id = b
    BY DEF NewCall
  <2>4. b \notin 1 .. Len(askedBattle)
    BY <2>1
  <2>5. /\ \A d \in calls : d.kind = "battle" => d.id # b
        /\ ~ Noticed(b) /\ ~ Looping(b) /\ ~ Reported(b)
    BY <2>4 DEF AskedInv, CallsAsked, NoticesAsked, BattleOf, OnceInv, OwnBattles,
                Noticed, Looping, Reported
  <2> HIDE DEF b, c
  <2>6. \A n : /\ Noticed(n)' <=> Noticed(n)
               /\ Looping(n)' <=> Looping(n)
               /\ Reported(n)' <=> Reported(n)
    BY <2>1 DEF Noticed, Looping, Reported
  <2>7. CalledOnce'
    BY <2>2, <2>3, <2>5 DEF OnceInv, CalledOnce
  <2>8. StagesLeft'
    <3>1. \A d \in calls' : d.kind = "battle"
            => ~ Noticed(d.id)' /\ ~ Looping(d.id)' /\ ~ Reported(d.id)'
      BY <2>2, <2>3, <2>5, <2>6 DEF OnceInv, StagesLeft
    <3>2. \A n \in Nat : Noticed(n)' => ~ Looping(n)' /\ ~ Reported(n)'
      BY <2>6 DEF OnceInv, StagesLeft
    <3>3. \A l \in loops' : l.kind = "battle" /\ ~ l.reported => ~ Reported(l.id)'
      BY <2>1, <2>6 DEF OnceInv, StagesLeft
    <3> QED BY <3>1, <3>2, <3>3 DEF StagesLeft
  <2>9. OwnBattles'
    BY <2>1 DEF OnceInv, OwnBattles, BattleOf, b
  <2>10. NoticedOnce' /\ LoopedOnce' /\ ReportedOnce'
    BY <2>1 DEF OnceInv, NoticedOnce, LoopedOnce, ReportedOnce
  <2> QED BY <2>7, <2>8, <2>9, <2>10 DEF OnceInv
<1>2. ASSUME NEW c \in calls, AnnounceBattle(c) PROVE OnceInv'
  <2> DEFINE n == [kind |-> "battle", id |-> c.id]
  <2>1. /\ c.kind = "battle" /\ c.from \in Player /\ c.id \in Nat
        /\ n \in Notice /\ n.kind = "battle" /\ n.id = c.id
    BY <1>0, <1>2 DEF AnnounceBattle, Call, Notice, Kind
  <2>2. /\ inbox' = Publish(c.from, n)
        /\ calls' = calls \ {c}
        /\ UNCHANGED <<loops, results, askedBattle>>
    BY <1>2 DEF AnnounceBattle, LocalPlayer
  <2> HIDE DEF n
  <2>3. ~ Noticed(c.id) /\ ~ Looping(c.id) /\ ~ Reported(c.id)
    BY <2>1 DEF OnceInv, StagesLeft
  <2>4. /\ NoticedOnce'
        /\ \A b : Noticed(b)' => Noticed(b) \/ b = c.id
    BY <1>0, <2>1, <2>2, <2>3, AddedOnce
  <2>5. \A b : (Looping(b)' <=> Looping(b)) /\ (Reported(b)' <=> Reported(b))
    BY <2>2 DEF Looping, Reported
  <2>6. StagesLeft'
    <3>1. \A d \in calls' : d.kind = "battle" => d \in calls /\ d.id # c.id
      BY <2>1, <2>2 DEF OnceInv, CalledOnce
    <3>2. \A d \in calls' : d.kind = "battle"
            => ~ Noticed(d.id)' /\ ~ Looping(d.id)' /\ ~ Reported(d.id)'
      BY <2>4, <2>5, <3>1 DEF OnceInv, StagesLeft
    <3>3. \A b \in Nat : Noticed(b)' => ~ Looping(b)' /\ ~ Reported(b)'
      BY <2>3, <2>4, <2>5 DEF OnceInv, StagesLeft
    <3>4. \A l \in loops' : l.kind = "battle" /\ ~ l.reported => ~ Reported(l.id)'
      BY <2>2, <2>5 DEF OnceInv, StagesLeft
    <3> QED BY <3>2, <3>3, <3>4 DEF StagesLeft
  <2>7. CalledOnce' /\ LoopedOnce' /\ ReportedOnce' /\ OwnBattles'
    BY <2>2 DEF OnceInv, CalledOnce, LoopedOnce, ReportedOnce, OwnBattles, BattleOf
  <2> QED BY <2>4, <2>6, <2>7 DEF OnceInv
<1>3. ASSUME NEW p \in Player, BeginBattle(p) PROVE OnceInv'
  <2>1. /\ FirstIs(p, "battle")
        /\ inbox' = [inbox EXCEPT ![p] = Tail(@)]
        /\ loops' = loops \cup { NewLoop("battle", p) }
        /\ UNCHANGED <<calls, results, askedBattle>>
    BY <1>3 DEF BeginBattle
  <2>2. PICK b : b = Head(inbox[p]).id
    OBVIOUS
  <2>3. b \in Nat /\ BattleOf(p, b)
    BY <2>1, <2>2, FirstNotice DEF AskedInv, NoticesAsked
  <2> DEFINE l == NewLoop("battle", p)
  <2>4. l.kind = "battle" /\ l.id = b /\ l.of = p /\ l.reported = FALSE
    BY <2>2 DEF NewLoop
  <2>4a. loops' = loops \cup {l}
    BY <2>1
  <2> HIDE DEF l
  <2>5. /\ NoticedOnce' /\ Noticed(b) /\ ~ Noticed(b)'
        /\ \A n : Noticed(n)' => Noticed(n)
    BY <1>0, <2>1, <2>2, TakenOnce
  <2>6. ~ Looping(b) /\ ~ Reported(b)
    BY <2>3, <2>5 DEF OnceInv, StagesLeft
  <2>7. \A n : Looping(n)' => Looping(n) \/ n = b
    BY <2>1, <2>4, <2>4a DEF Looping
  <2>8. \A n : Reported(n)' <=> Reported(n)
    BY <2>1 DEF Reported
  <2>9. StagesLeft'
    <3>1. \A d \in calls : d.kind = "battle" => d.id # b
      BY <2>5 DEF OnceInv, StagesLeft
    <3>2. \A d \in calls' : d.kind = "battle"
            => ~ Noticed(d.id)' /\ ~ Looping(d.id)' /\ ~ Reported(d.id)'
      BY <2>1, <2>5, <2>7, <2>8, <3>1 DEF OnceInv, StagesLeft
    <3>3. \A n \in Nat : Noticed(n)' => ~ Looping(n)' /\ ~ Reported(n)'
      BY <2>5, <2>7, <2>8 DEF OnceInv, StagesLeft
    <3>4. \A m \in loops' : m.kind = "battle" /\ ~ m.reported => ~ Reported(m.id)'
      BY <2>1, <2>4, <2>4a, <2>6, <2>8 DEF OnceInv, StagesLeft
    <3> QED BY <3>2, <3>3, <3>4 DEF StagesLeft
  <2>10. LoopedOnce'
    BY <2>1, <2>4, <2>4a, <2>6 DEF OnceInv, LoopedOnce, Looping
  <2>11. CalledOnce' /\ ReportedOnce'
    BY <2>1 DEF OnceInv, CalledOnce, ReportedOnce
  <2>12. OwnBattles'
    BY <2>1, <2>3, <2>4, <2>4a DEF OnceInv, OwnBattles, BattleOf
  <2> QED BY <2>5, <2>9, <2>10, <2>11, <2>12 DEF OnceInv
<1>4. ASSUME NEW l \in loops, NEW sig \in Signature, ReportResult(l, sig)
      PROVE  OnceInv'
  <2> DEFINE x == [loop |-> l.id, battle |-> BattleNamed(l), winner |-> l.of, sig |-> sig]
             m == [l EXCEPT !.reported = TRUE]
  <2>1. /\ m.kind = "battle" /\ m.id = l.id /\ m.of = l.of /\ m.reported = TRUE
        /\ l.kind = "battle" /\ l.reported = FALSE
    BY <1>0, <1>4 DEF ReportResult, Loop
  <2>2. x.loop = l.id /\ x.winner = l.of
    OBVIOUS
  <2>3. /\ loops' = (loops \ {l}) \cup {m}
        /\ Register(x)
        /\ UNCHANGED <<calls, inbox, askedBattle>>
    BY <1>4 DEF ReportResult
  <2> HIDE DEF x, m
  <2>4. results' = results \/ results' = results \cup {x}
    BY <2>3 DEF Register
  <2>5. Looping(l.id) /\ ~ Reported(l.id) /\ BattleOf(l.of, l.id)
    BY <2>1 DEF OnceInv, StagesLeft, OwnBattles, Looping
  <2>6. /\ \A n : Looping(n)' => Looping(n)
        /\ \A n : Noticed(n)' <=> Noticed(n)
        /\ \A n : Reported(n)' => Reported(n) \/ n = l.id
    BY <2>1, <2>2, <2>3, <2>4 DEF Looping, Noticed, Reported
  <2>7. StagesLeft'
    <3>1. \A d \in calls : d.kind = "battle" => d.id # l.id
      BY <2>5 DEF OnceInv, StagesLeft
    <3>2. \A d \in calls' : d.kind = "battle"
            => ~ Noticed(d.id)' /\ ~ Looping(d.id)' /\ ~ Reported(d.id)'
      BY <2>3, <2>6, <3>1 DEF OnceInv, StagesLeft
    <3>3. \A n \in Nat : Noticed(n)' => ~ Looping(n)' /\ ~ Reported(n)'
      BY <2>5, <2>6 DEF OnceInv, StagesLeft
    <3>4. \A k \in loops' : k.kind = "battle" /\ ~ k.reported
                              => k \in loops /\ k.id # l.id
      BY <2>1, <2>3 DEF OnceInv, LoopedOnce
    <3>5. \A k \in loops' : k.kind = "battle" /\ ~ k.reported => ~ Reported(k.id)'
      BY <2>6, <3>4 DEF OnceInv, StagesLeft
    <3> QED BY <3>2, <3>3, <3>5 DEF StagesLeft
  <2>8. LoopedOnce'
    BY <2>1, <2>3 DEF OnceInv, LoopedOnce
  <2>9. ReportedOnce'
    BY <2>2, <2>4, <2>5 DEF OnceInv, ReportedOnce, Reported
  <2>10. OwnBattles'
    BY <2>1, <2>2, <2>3, <2>4, <2>5 DEF OnceInv, OwnBattles, BattleOf
  <2>11. CalledOnce' /\ NoticedOnce'
    BY <2>3 DEF OnceInv, CalledOnce, NoticedOnce
  <2> QED BY <2>7, <2>8, <2>9, <2>10, <2>11 DEF OnceInv
<1>5. ASSUME NEW p \in Player, BeginTrade(p) \/ TradeConfirmed(p) PROVE OnceInv'
  <2>1. /\ FirstIs(p, "trade") \/ FirstIs(p, "confirmed")
        /\ inbox' = [inbox EXCEPT ![p] = Tail(@)]
        /\ UNCHANGED <<calls, results, askedBattle>>
        /\ loops' = loops \/ loops' = loops \cup { TradeLoop(p) }
    BY <1>5 DEF BeginTrade, TradeConfirmed
  <2>2. TradeLoop(p).kind = "trade"
    BY DEF TradeLoop, NewLoop
  <2>3. NoticedOnce' /\ \A b : Noticed(b)' => Noticed(b)
    BY <1>0, <2>1, TakenOnce
  <2>4. \A l \in loops' : l.kind = "battle" => l \in loops
    BY <2>1, <2>2
  <2> QED BY <2>1, <2>3, <2>4, NothingNew
<1>6. ASSUME NEW c \in calls, AnnounceTrade(c) PROVE OnceInv'
  <2> DEFINE n == [kind |-> "trade", id |-> c.id]
  <2>1. n \in Notice /\ n.kind = "trade"
    BY <1>0 DEF Call, Notice, Kind
  <2>2. /\ inbox' = inbox \/ (tradePeer \in Player /\ inbox' = Publish(tradePeer, n))
        /\ calls' = calls \ {c}
        /\ UNCHANGED <<loops, results, askedBattle>>
    BY <1>6 DEF AnnounceTrade, SessionsTypeOK
  <2> HIDE DEF n
  <2>3. NoticedOnce' /\ \A b : Noticed(b)' => Noticed(b)
    <3>1. CASE inbox' = inbox
      BY <1>0, <3>1, NoticesUnchanged
    <3>2. CASE tradePeer \in Player /\ inbox' = Publish(tradePeer, n)
      BY <1>0, <2>1, <3>2, AddedOnce
    <3> QED BY <2>2, <3>1, <3>2
  <2> QED BY <2>2, <2>3, NothingNew
<1>7. ASSUME NEW i \in 1 .. Len(trades), ConfirmTrade(i) PROVE OnceInv'
  <2> DEFINE n == [kind |-> "confirmed", id |-> 0]
  <2>1. ASSUME NEW p \in Player, NEW j \in 1 .. Len(inbox'[p])
        PROVE  \/ j \in 1 .. Len(inbox[p]) /\ inbox'[p][j] = inbox[p][j]
               \/ inbox'[p][j] = n
    <3>1. n \in Notice
      BY DEF Notice
    <3>2. inbox[p] \in Seq(Notice)
      BY DEF SessionsTypeOK
    <3>3. inbox'[p] = inbox[p] \/ inbox'[p] = Append(inbox[p], n)
      BY <1>7 DEF ConfirmTrade
    <3> HIDE DEF n, Notice
    <3>4. CASE inbox'[p] = inbox[p]
      BY <2>1, <3>4
    <3>5. CASE inbox'[p] = Append(inbox[p], n)
      BY <2>1, <3>1, <3>2, <3>5, LastAppended
    <3> QED BY <3>3, <3>4, <3>5
  <2>2. n.kind = "confirmed"
    OBVIOUS
  <2> HIDE DEF n
  <2>3. ASSUME NEW p \in Player, NEW j \in 1 .. Len(inbox'[p]), inbox'[p][j].kind = "battle"
        PROVE  j \in 1 .. Len(inbox[p]) /\ inbox'[p][j] = inbox[p][j]
    BY <2>1, <2>2, <2>3
  <2>4. NoticedOnce'
    <3>1. SUFFICES ASSUME NEW p \in Player, NEW q \in Player,
                          NEW j \in 1 .. Len(inbox'[p]), NEW k \in 1 .. Len(inbox'[q]),
                          inbox'[p][j].kind = "battle", inbox'[q][k].kind = "battle",
                          inbox'[p][j].id = inbox'[q][k].id
                   PROVE  p = q /\ j = k
      BY DEF NoticedOnce
    <3>2. /\ j \in 1 .. Len(inbox[p]) /\ inbox'[p][j] = inbox[p][j]
          /\ k \in 1 .. Len(inbox[q]) /\ inbox'[q][k] = inbox[q][k]
      BY <2>3, <3>1
    <3> QED BY <3>1, <3>2 DEF OnceInv, NoticedOnce
  <2>5. \A b : Noticed(b)' => Noticed(b)
    BY <2>3 DEF Noticed
  <2>6. UNCHANGED <<calls, loops, results, askedBattle>>
    BY <1>7 DEF ConfirmTrade
  <2> QED BY <2>4, <2>5, <2>6, NothingNew
<1>8. ASSUME UNCHANGED <<inbox, results, askedBattle>>,
             \A c \in calls' : c.kind = "battle" => c \in calls,
             \A l \in loops' : l.kind = "battle" => l \in loops
      PROVE  OnceInv'
  BY <1>0, <1>8, NoticesUnchanged, NothingNew
<1>9. ASSUME NEW p \in Player, AskTrade(p) PROVE OnceInv'
  BY <1>8, <1>9 DEF AskTrade, NewCall
<1>10. ASSUME NEW c \in calls, StoreTrade(c) PROVE OnceInv'
  <2>1. [c EXCEPT !.stored = TRUE].kind = "trade"
    BY <1>0, <1>10 DEF StoreTrade, Call
  <2>2. \A d \in calls' : d.kind = "battle" => d \in calls
    BY <1>10, <2>1 DEF StoreTrade, Stored
  <2> QED BY <1>8, <1>10, <2>2 DEF StoreTrade
<1>11. ASSUME NEW l \in loops, EndLoop(l) PROVE OnceInv'
  BY <1>8, <1>11 DEF EndLoop
<1>12. ASSUME NEW p \in Player, ChoosePairing(p) \/ Unpair(p) PROVE OnceInv'
  BY <1>8, <1>12 DEF ChoosePairing, Unpair
<1>13. ASSUME NEW p \in Player, NEW q \in Player, Pair(p, q) \/ RegisterTrade(p, q)
       PROVE  OnceInv'
  BY <1>8, <1>13 DEF Pair, RegisterTrade
<1>14. ASSUME NEW b \in Battle, EndBattle(b) PROVE OnceInv'
  BY <1>8, <1>14 DEF EndBattle
<1>15. ASSUME EndTrade PROVE OnceInv'
  BY <1>8, <1>15 DEF EndTrade
<1>16. CASE UNCHANGED vars
  BY <1>8, <1>16 DEF vars
<1> QED BY <1>1, <1>2, <1>3, <1>4, <1>5, <1>6, <1>7, <1>9, <1>10, <1>11, <1>12,
          <1>13, <1>14, <1>15, <1>16
     DEF Next, Menu, ListenRedis, Handle, RunLoop

\* Wins and battles: every result counts for the battle whose loop reported it.
LEMMA OneWinPerBattle ==
  ASSUME SessionsTypeOK, OnceInv
  PROVE  NoFreeWins
<1> SUFFICES ASSUME NEW p \in Player
             PROVE  Cardinality({ x \in results : x.winner = p })
                      <= Cardinality({ b \in 1 .. Len(askedBattle) : askedBattle[b] = p })
  BY DEF NoFreeWins
<1> DEFINE Wins == { x \in results : x.winner = p }
           Battles == { b \in 1 .. Len(askedBattle) : askedBattle[b] = p }
           f == [x \in Wins |-> x.loop]
<1>1. IsFiniteSet(Battles)
  <2>1. Len(askedBattle) \in Int
    BY DEF SessionsTypeOK
  <2>2. IsFiniteSet(1 .. Len(askedBattle))
    BY <2>1, FS_Interval
  <2>3. Battles \in SUBSET (1 .. Len(askedBattle))
    OBVIOUS
  <2> QED BY <2>2, <2>3, FS_Subset
<1>2. f \in [Wins -> Battles]
  BY DEF OnceInv, OwnBattles, BattleOf
<1>3. \A x, y \in Wins : f[x] = f[y] => x = y
  BY DEF OnceInv, ReportedOnce
<1>4. f \in Injection(Wins, Battles)
  BY <1>2, <1>3 DEF Injection, IsInjective
<1> HIDE DEF Wins, Battles, f
<1>5. Cardinality(Wins) <= Cardinality(Battles)
  BY <1>1, <1>4, FS_Injection
<1> QED BY <1>5 DEF Wins, Battles

(* loopBatalha reports every battle as won, but a player never has more wins *)
(* on record than battles it asked for: each loop reports once, and there is *)
(* one loop per battle.                                                      *)
THEOREM WinsAreNotFree == Spec => []NoFreeWins
<1>1. SessionsTypeOK /\ AskedInv /\ OnceInv /\ [Next]_vars => OnceInv'
  BY OnceStep
<1>2. SessionsTypeOK /\ OnceInv => NoFreeWins
  BY OneWinPerBattle
<1> QED BY <1>1, <1>2, OnceInit, AskedInvariant, PTL DEF Spec
=============================================================================
