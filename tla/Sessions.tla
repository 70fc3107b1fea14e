------------------------------ MODULE Sessions ------------------------------
(***************************************************************************)
(* Battles and trades: what the clients of one server do between the menu  *)
(* and the blockchain (client/client.go), and the handlers they call       *)
(* (server/handlers_api.go).  In the deployment of PlanoZ all clients have *)
(* the same server.                                                        *)
(*                                                                         *)
(* A client is four kinds of goroutines over the same global variables:    *)
(* the menu, listenRedis, and one loopBatalha or loopTroca for each notice *)
(* received.  Nothing locks the variables; their reads and writes here are *)
(* steps of their own wherever a goroutine waits in between.               *)
(*                                                                         *)
(* Abstractions.                                                           *)
(*  - All players are on the server's list (module PlayerRegistry), and a  *)
(*    result that the server has put into its mempool is on record (module *)
(*    Blockchain).                                                         *)
(*  - An HTTP client waits for the answer, five seconds at most, and does  *)
(*    nothing with it: so it may go on at any time after the request.      *)
(*  - Notices that clients only print (Rank_Update) or drop (Sua_Vez,      *)
(*    Resultado_Turno, Fim_Batalha, ...) are left out, and so are the      *)
(*    handlers that only send those, or look for a battle or trade in the  *)
(*    maps that nothing fills and answer 404.                              *)
(*  - Every battle has an identifier of its own (uuid.New()).  The client  *)
(*    sends none for a trade: it fills in id_batalha where the server      *)
(*    reads id_troca.  So all trades share the entry of the empty          *)
(*    identifier.                                                          *)
(***************************************************************************)
EXTENDS Integers, Sequences, FiniteSets, SignatureCodec

CONSTANTS
  Player,
  NoPlayer,      \* the empty idParceiro; also: no entry
  Signature,     \* the signatures <<r, s>> that signing may give
  MaxAsked,      \* bound: battles and trades asked for
  MaxConfirmed,  \* bound: trades registered
  OutsideCalls   \* whether somebody calls /battle/end, /trade/result and
                 \* /trade/register, which no code of the repository does

ASSUME SessionsAssumption ==
  /\ NoPlayer \notin Player
  /\ Signature \subseteq Numeral \X Numeral
  /\ MaxAsked \in Nat
  /\ MaxConfirmed \in Nat
  /\ OutsideCalls \in BOOLEAN

VARIABLES
  estadoAtual, idParceiro, idBatalha, \* as in each client
  prompt,        \* prompt[p]: what the menu of p reads, a command or an opponent
  loops,         \* the goroutines loopBatalha and loopTroca
  calls,         \* the handlers of /battle/initiate and /trade/initiate
  batalhasPeer,  \* batalhasPeer[b]: the player of battle b at the server
  tradePeer,     \* tradesPeer[""]
  inbox,         \* inbox[p]: published on the channel of p, not yet received
  results,       \* results registered
  refused,       \* results refused, for their signature
  trades,        \* trades registered, and whether the listener has told of them
  askedBattle, askedTrade \* who asked for the n-th battle, the n-th trade

clientVars == <<estadoAtual, idParceiro, idBatalha, prompt, loops>>
serverVars == <<calls, batalhasPeer, tradePeer, inbox>>
registerVars == <<results, refused, trades>>
askedVars == <<askedBattle, askedTrade>>
vars == <<clientVars, serverVars, registerVars, askedVars>>

\* EstadoEsperandoResposta and EstadoReconectando are never entered.
Estado == { "Livre", "Pareado", "Batalhando", "Trocando" }
Kind == { "battle", "trade" }
Battle == 1 .. MaxAsked
Call == [kind : Kind, id : Nat, from : Player, stored : BOOLEAN]
Loop == [kind : Kind, id : Nat, of : Player, reported : BOOLEAN]
\* loop: the battle whose loop reports; battle: the one it names.
Report == [loop : Nat, battle : Battle, winner : Player, sig : Signature]
\* Inicio_Batalha, Inicio_Troca, Troca_Confirmada (which names no trade: 0).
Notice == [kind : Kind \cup { "confirmed" }, id : Nat]

SessionsTypeOK ==
  /\ estadoAtual \in [Player -> Estado]
  /\ idParceiro \in [Player -> Player \cup {NoPlayer}]
  /\ idBatalha \in [Player -> 0 .. Len(askedBattle)]
  /\ prompt \in [Player -> { "command", "opponent" }]
  /\ loops \subseteq Loop
  /\ calls \subseteq Call
  /\ batalhasPeer \in [Battle -> Player \cup {NoPlayer}]
  /\ tradePeer \in Player \cup {NoPlayer}
  /\ inbox \in [Player -> Seq(Notice)]
  /\ results \subseteq Report
  /\ refused \subseteq Report
  /\ trades \in Seq([users : SUBSET Player, told : BOOLEAN])
  /\ Len(trades) <= MaxConfirmed
  /\ askedBattle \in Seq(Player) /\ askedTrade \in Seq(Player)
  /\ Len(askedBattle) + Len(askedTrade) <= MaxAsked

Init ==
  /\ estadoAtual = [p \in Player |-> "Livre"]
  /\ idParceiro = [p \in Player |-> NoPlayer]
  /\ idBatalha = [p \in Player |-> 0]
  /\ prompt = [p \in Player |-> "command"]
  /\ loops = {}
  /\ calls = {}
  /\ batalhasPeer = [b \in Battle |-> NoPlayer]
  /\ tradePeer = NoPlayer
  /\ inbox = [p \in Player |-> << >>]
  /\ results = {} /\ refused = {}
  /\ trades = << >>
  /\ askedBattle = << >> /\ askedTrade = << >>
-----------------------------------------------------------------------------
(* The menu (processarComando).                                            *)

\* "Parear com Jogador" asks for the opponent.
ChoosePairing(p) ==
  /\ prompt[p] = "command" /\ estadoAtual[p] = "Livre"
  /\ prompt' = [prompt EXCEPT ![p] = "opponent"]
  /\ UNCHANGED <<estadoAtual, idParceiro, idBatalha, loops, serverVars, registerVars,
                 askedVars>>

\* parear, whatever has become of the state since the menu looked at it.
Pair(p, q) ==
  /\ prompt[p] = "opponent"
  /\ prompt' = [prompt EXCEPT ![p] = "command"]
  /\ idParceiro' = [idParceiro EXCEPT ![p] = q]
  /\ estadoAtual' = [estadoAtual EXCEPT ![p] = "Pareado"]
  /\ UNCHANGED <<idBatalha, loops, serverVars, registerVars, askedVars>>

Unpair(p) ==
  /\ prompt[p] = "command" /\ estadoAtual[p] = "Pareado"
  /\ idParceiro' = [idParceiro EXCEPT ![p] = NoPlayer]
  /\ estadoAtual' = [estadoAtual EXCEPT ![p] = "Livre"]
  /\ UNCHANGED <<idBatalha, prompt, loops, serverVars, registerVars, askedVars>>

NewCall(kind, n, p) == [kind |-> kind, id |-> n, from |-> p, stored |-> FALSE]

\* solicitarBatalha.
AskBattle(p) ==
  /\ prompt[p] = "command" /\ estadoAtual[p] = "Pareado"
  /\ Len(askedBattle) + Len(askedTrade) < MaxAsked
  /\ askedBattle' = Append(askedBattle, p)
  /\ calls' = calls \cup { NewCall("battle", Len(askedBattle'), p) }
  /\ UNCHANGED <<clientVars, batalhasPeer, tradePeer, inbox, registerVars, askedTrade>>

\* solicitarTroca.
AskTrade(p) ==
  /\ prompt[p] = "command" /\ estadoAtual[p] = "Pareado"
  /\ Len(askedBattle) + Len(askedTrade) < MaxAsked
  /\ askedTrade' = Append(askedTrade, p)
  /\ calls' = calls \cup { NewCall("trade", Len(askedTrade'), p) }
  /\ UNCHANGED <<clientVars, batalhasPeer, tradePeer, inbox, registerVars, askedBattle>>
-----------------------------------------------------------------------------
(* The server's handlers.                                                  *)

Publish(q, notice) == [inbox EXCEPT ![q] = Append(@, notice)]

Stored(c) == (calls \ {c}) \cup { [c EXCEPT !.stored = TRUE] }

\* Mutant: the entry is the opponent's.
OpponentOf(c) == IF idParceiro[c.from] = NoPlayer THEN c.from ELSE idParceiro[c.from]

\* IdJogadorLocal, which the client fills in with itself.
LocalPlayer(c) == c.from

\* handleTradeInitiate makes its entry, under a mutex that it then gives back.
StoreTrade(c) ==
  /\ c.kind = "trade" /\ ~ c.stored
  /\ tradePeer' = LocalPlayer(c)
  /\ calls' = Stored(c)
  /\ UNCHANGED <<clientVars, batalhasPeer, inbox, registerVars, askedVars>>

\* handleBattleInitiate: the entry, which is read for notices only that clients
\* drop, and Inicio_Batalha to the player of the request.
AnnounceBattle(c) ==
  /\ c.kind = "battle"
  /\ batalhasPeer' = [batalhasPeer EXCEPT ![c.id] = LocalPlayer(c)]
  /\ inbox' = Publish(LocalPlayer(c), [kind |-> "battle", id |-> c.id])
  /\ calls' = calls \ {c}
  /\ UNCHANGED <<clientVars, tradePeer, registerVars, askedVars>>

\* notificarClienteTroca: Inicio_Troca goes to whoever is in the entry by now.
AnnounceTrade(c) ==
  /\ c.kind = "trade" /\ c.stored
  /\ inbox' = IF tradePeer = NoPlayer THEN inbox
              ELSE Publish(tradePeer, [kind |-> "trade", id |-> c.id])
  /\ calls' = calls \ {c}
  /\ UNCHANGED <<clientVars, batalhasPeer, tradePeer, registerVars, askedVars>>

\* handleBattleEnd and handleTradeResult remove the entries.
EndBattle(b) ==
  /\ OutsideCalls
  /\ batalhasPeer[b] # NoPlayer
  /\ batalhasPeer' = [batalhasPeer EXCEPT ![b] = NoPlayer]
  /\ UNCHANGED <<clientVars, calls, tradePeer, inbox, registerVars, askedVars>>

EndTrade ==
  /\ OutsideCalls
  /\ tradePeer # NoPlayer
  /\ tradePeer' = NoPlayer
  /\ UNCHANGED <<clientVars, calls, batalhasPeer, inbox, registerVars, askedVars>>
-----------------------------------------------------------------------------
(* What a client does with notices (listenRedis).                          *)

FirstIs(p, kind) == inbox[p] # << >> /\ Head(inbox[p]).kind = kind

NewLoop(kind, p) ==
  [kind |-> kind, id |-> Head(inbox[p]).id, of |-> p, reported |-> FALSE]

\* Inicio_Batalha: loopBatalha begins its sleep.
BeginBattle(p) ==
  /\ FirstIs(p, "battle")
  /\ inbox' = [inbox EXCEPT ![p] = Tail(@)]
  /\ idBatalha' = [idBatalha EXCEPT ![p] = Head(inbox[p]).id]
  /\ estadoAtual' = [estadoAtual EXCEPT ![p] = "Batalhando"]
  /\ loops' = loops \cup { NewLoop("battle", p) }
  /\ UNCHANGED <<idParceiro, prompt, calls, batalhasPeer, tradePeer, registerVars,
                 askedVars>>

\* Mutant: a trade starts loopBatalha.
LoopOfTrade(p) == NewLoop("battle", p)

TradeLoop(p) == NewLoop("trade", p)

\* Inicio_Troca: loopTroca begins its sleep.
BeginTrade(p) ==
  /\ FirstIs(p, "trade")
  /\ inbox' = [inbox EXCEPT ![p] = Tail(@)]
  /\ estadoAtual' = [estadoAtual EXCEPT ![p] = "Trocando"]
  /\ loops' = loops \cup { TradeLoop(p) }
  /\ UNCHANGED <<idParceiro, idBatalha, prompt, calls, batalhasPeer, tradePeer,
                 registerVars, askedVars>>

\* Troca_Confirmada.
TradeConfirmed(p) ==
  /\ FirstIs(p, "confirmed")
  /\ inbox' = [inbox EXCEPT ![p] = Tail(@)]
  /\ estadoAtual' = [estadoAtual EXCEPT ![p] = "Livre"]
  /\ UNCHANGED <<idParceiro, idBatalha, prompt, loops, calls, batalhasPeer, tradePeer,
                 registerVars, askedVars>>

\* The battle that loopBatalha names: the one in the global variable by now.
BattleNamed(l) == idBatalha[l.of]

Accepted(x) == Verifies(Join(x.sig[1], x.sig[2]), x.sig[1], x.sig[2])

\* handleRegisterBattle takes the reporter's word for the battle and the winner.
Register(x) ==
  IF Accepted(x) THEN results' = results \cup {x} /\ UNCHANGED refused
                 ELSE refused' = refused \cup {x} /\ UNCHANGED results

\* loopBatalha after its sleep: the player reports itself as the winner.  What the
\* handler does with it depends on nothing else, so it is part of the step.
ReportResult(l, sig) ==
  /\ l.kind = "battle" /\ ~ l.reported
  /\ loops' = (loops \ {l}) \cup { [l EXCEPT !.reported = TRUE] }
  /\ Register([loop |-> l.id, battle |-> BattleNamed(l), winner |-> l.of,
               sig |-> sig])
  /\ UNCHANGED <<estadoAtual, idParceiro, idBatalha, prompt, serverVars, trades,
                 askedVars>>

\* Mutant: the loop ends and leaves the state as it is.
StateKept(p) == estadoAtual

StateAfterLoop(p) == [estadoAtual EXCEPT ![p] = "Pareado"]

\* loopBatalha (after its report) and loopTroca (after its sleep) end.
EndLoop(l) ==
  /\ l.kind = "trade" \/ l.reported
  /\ loops' = loops \ {l}
  /\ estadoAtual' = StateAfterLoop(l.of)
  /\ UNCHANGED <<idParceiro, idBatalha, prompt, serverVars, registerVars, askedVars>>
-----------------------------------------------------------------------------
(* Trades on record.                                                       *)

\* handleRegisterTrade.
RegisterTrade(p, q) ==
  /\ OutsideCalls
  /\ Len(trades) < MaxConfirmed
  /\ trades' = Append(trades, [users |-> {p, q}, told |-> FALSE])
  /\ UNCHANGED <<clientVars, serverVars, results, refused, askedVars>>

\* processTrade of the block listener tells both.
ConfirmTrade(i) ==
  /\ ~ trades[i].told
  /\ trades' = [trades EXCEPT ![i].told = TRUE]
  /\ inbox' = [p \in Player |-> IF p \in trades[i].users
                 THEN Append(inbox[p], [kind |-> "confirmed", id |-> 0]) ELSE inbox[p]]
  /\ UNCHANGED <<clientVars, calls, batalhasPeer, tradePeer, results, refused, askedVars>>
-----------------------------------------------------------------------------
Menu(p) ==
  \/ ChoosePairing(p) \/ Unpair(p) \/ AskBattle(p) \/ AskTrade(p)
  \/ \E q \in Player \ {p} : Pair(p, q)

ListenRedis(p) == BeginBattle(p) \/ BeginTrade(p) \/ TradeConfirmed(p)

Handle(c) == StoreTrade(c) \/ AnnounceBattle(c) \/ AnnounceTrade(c)

RunLoop(l) == EndLoop(l) \/ \E sig \in Signature : ReportResult(l, sig)

Next ==
  \/ \E p \in Player : Menu(p) \/ ListenRedis(p)
  \/ \E c \in calls : Handle(c)
  \/ \E l \in loops : RunLoop(l)
  \/ \E b \in Battle : EndBattle(b)
  \/ EndTrade
  \/ \E p \in Player : \E q \in Player \ {p} : RegisterTrade(p, q)
  \/ \E i \in 1 .. Len(trades) : ConfirmTrade(i)

Spec == Init /\ [][Next]_vars

\* Goroutines run, requests and notices arrive.  Nobody has to use the menu.
FairSpec ==
  /\ Spec
  /\ \A p \in Player : WF_vars(ListenRedis(p))
  /\ WF_vars(\E c \in calls : Handle(c))
  /\ WF_vars(\E l \in loops : RunLoop(l))
-----------------------------------------------------------------------------
\* Whatever becomes of the variable that the loops share, a result on record is
\* of a battle that its winner has asked for.
WinnerAsked ==
  \A x \in results \cup refused :
    x.battle \in 1 .. Len(askedBattle) /\ askedBattle[x.battle] = x.winner

\* Nobody has more wins than battles, whatever else the client does meanwhile.
NoFreeWins ==
  \A p \in Player :
    Cardinality({ x \in results : x.winner = p })
      <= Cardinality({ b \in 1 .. Len(askedBattle) : askedBattle[b] = p })

\* The menu is locked only while a goroutine runs that will unlock it.
LockedByLoop ==
  \A p \in Player :
    /\ estadoAtual[p] = "Batalhando" => \E l \in loops : l.of = p /\ l.kind = "battle"
    /\ estadoAtual[p] = "Trocando" => \E l \in loops : l.of = p /\ l.kind = "trade"

\* The client comes back to its menu.
MenuReturns ==
  \A p \in Player : estadoAtual[p] \in { "Batalhando", "Trocando" }
                    ~> estadoAtual[p] \in { "Livre", "Pareado" }
-----------------------------------------------------------------------------
(* What the README and comments say and the code does not do.              *)

\* README: "Todas as compras, trocas e resultados de batalha sao registrados".
BattleRegistered ==
  \A b \in Battle :
    (\E l \in loops : l.kind = "battle" /\ l.id = b)
      ~> (\E x \in results : x.battle = b)

\* README: the server "valida transacoes assinadas"; verifyECDSA: "reconstroi
\* assinatura (r, s)".  Clients sign every result they report, so the server
\* refuses none.
SignedAccepted == refused = {}
=============================================================================
