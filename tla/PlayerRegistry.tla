--------------------------- MODULE PlayerRegistry ---------------------------
(***************************************************************************)
(* The list of players that the servers replicate: a client connects to    *)
(* the leader (handleLeaderConnect in server/handlers_api.go), the leader  *)
(* enters the player into its list and pushes the WHOLE list to the live   *)
(* servers (broadcastToServers and sendToHost in server/utils.go), and     *)
(* each of them puts what it gets in the place of its own list             *)
(* (handlePlayerUpdate).  Who leads, and whom it takes for alive, is       *)
(* Leadership's business: this module composes the two.                    *)
(*                                                                         *)
(* Abstractions.                                                           *)
(*  - A list is the set of its players.  All that a client says of itself  *)
(*    is constant (ServerID is "client_node" for everybody), so a player's *)
(*    entry never changes, and only a player that is new gets broadcast.   *)
(*  - The map is handed to the broadcast by reference, after the lock was  *)
(*    given back, and each goroutine serialises it when it gets to run: so *)
(*    it sends what the map holds by then.  handlePlayerUpdate does not    *)
(*    change the map but replaces it, and a broadcast under way keeps the  *)
(*    one it was given (frozen below).                                     *)
(*  - The Go runtime ends a process that writes a map while another        *)
(*    goroutine reads it.  That outcome of the data race is a Crash, which *)
(*    may happen at any time; the others are to serialise before or after. *)
(***************************************************************************)
EXTENDS Leadership

CONSTANTS
  Player,         \* the players
  MaxBroadcasts,  \* bound: how many new entries are made in all
  MayTimeOut      \* whether a post to a server that runs may fail

ASSUME RegistryAssumption ==
  /\ MaxBroadcasts \in Nat
  /\ MayTimeOut \in BOOLEAN

VARIABLES
  playerList,     \* playerList[s]: the players that s knows
  broadcasts,     \* goroutines that have not yet looked up whom to send to
  pushes,         \* a list on its way to one server
  entries         \* how many new entries there were

registryVars == <<playerList, broadcasts, pushes, entries>>
allVars == <<vars, registryVars>>

\* A map of players as a broadcast refers to it: the one the sender will have
\* when the go statement evaluates its arguments, the one it has now, or one
\* that cannot change any more.
MapRef == [is : { "next", "current", "frozen" }, list : SUBSET Player]
NextMap == [is |-> "next", list |-> {}]
Current == [is |-> "current", list |-> {}]
Frozen(l) == [is |-> "frozen", list |-> l]

Broadcast == [id : 1 .. MaxBroadcasts, from : Server, about : Player, map : MapRef]
Push == [id : 1 .. MaxBroadcasts, from : Server, to : Server, map : MapRef,
         sent : BOOLEAN]

RegistryTypeOK ==
  /\ playerList \in [Server -> SUBSET Player]
  /\ broadcasts \subseteq Broadcast
  /\ pushes \subseteq Push
  /\ entries \in 0 .. MaxBroadcasts
-----------------------------------------------------------------------------
RegistryInit ==
  /\ Init
  /\ playerList = [s \in Server |-> {}]
  /\ broadcasts = {}
  /\ pushes = {}
  /\ entries = 0

\* Mutant: any server registers players.
RegistersAnyway(s) == s \in running

\* Only the leader registers players.
Registers(s) == IsLeader(s)

\* Mutant: the entry is made under the server's identifier.
KeyOfServer(s, p) == s

\* Under which key of the map of s the player is entered.
EntryKey(s, p) == p

\* The goroutine that will tell the others of p.
Announce(s, p) == [id |-> entries + 1, from |-> s, about |-> p, map |-> NextMap]

\* A player that the leader does not know connects; it is entered under the
\* lock, and then there is something to broadcast.  (If the leader knows it, the
\* same entry is made again, and nobody is told.)
ConnectNewPlayer(s, p) ==
  /\ Registers(s)
  /\ p \notin playerList[s]
  /\ entries < MaxBroadcasts
  /\ entries' = entries + 1
  /\ playerList' = [playerList EXCEPT ![s] = @ \cup {EntryKey(s, p)}]
  /\ broadcasts' = broadcasts \cup {Announce(s, p)}
  /\ UNCHANGED <<vars, pushes>>

\* The go statement takes a reference to the map, which no lock protects now.
TakeMap(b) ==
  /\ b.map = NextMap
  /\ broadcasts' = (broadcasts \ {b}) \cup { [b EXCEPT !.map = Current] }
  /\ UNCHANGED <<vars, playerList, pushes, entries>>

\* Mutant: the sender is not left out.
TargetsWithSelf(s) == live[s]

\* Whom s sends its broadcasts to: the live servers by now, itself left out.
Targets(s) == live[s] \ {s}

\* broadcastToServers.
StartPushes(b) ==
  /\ b.map # NextMap
  /\ broadcasts' = broadcasts \ {b}
  /\ pushes' = pushes \cup
       { [id |-> b.id, from |-> b.from, to |-> r, map |-> b.map, sent |-> FALSE] :
            r \in Targets(b.from) }
  /\ UNCHANGED <<vars, playerList, entries>>

\* What a reference to a map of s reads.
ReadMap(s, map) == IF map.is = "frozen" THEN map.list ELSE playerList[s]

\* sendToHost serialises the map and posts it.
SendList(p) ==
  /\ ~ p.sent
  /\ pushes' = (pushes \ {p}) \cup
       { [p EXCEPT !.sent = TRUE, !.map = Frozen(ReadMap(p.from, p.map))] }
  /\ UNCHANGED <<vars, playerList, broadcasts, entries>>

\* References to the current map of s keep it when another takes its place.
Freeze(s, x) == IF x.from = s /\ x.map = Current
                THEN [x EXCEPT !.map = Frozen(playerList[s])] ELSE x

\* handlePlayerUpdate.
ReceiveList(p) ==
  /\ p.sent
  /\ p.to \in running
  /\ playerList' = [playerList EXCEPT ![p.to] = p.map.list]
  /\ pushes' = { Freeze(p.to, q) : q \in pushes \ {p} }
  /\ broadcasts' = { Freeze(p.to, b) : b \in broadcasts }
  /\ UNCHANGED <<vars, entries>>

\* The receiver is down, or does not answer within two seconds: sendToHost returns
\* an error, which the goroutine drops.  Nobody posts the list again.
PushFails(p) ==
  /\ p.sent
  /\ p.to \in running => MayTimeOut
  /\ pushes' = pushes \ {p}
  /\ UNCHANGED <<vars, playerList, broadcasts, entries>>

\* A process dies; what it has posted may still arrive.
CrashWithLists(s) ==
  /\ Crash(s)
  /\ playerList' = [playerList EXCEPT ![s] = {}]
  /\ broadcasts' = { b \in broadcasts : b.from # s }
  /\ pushes' = { p \in pushes : p.sent \/ p.from # s }
  /\ UNCHANGED entries

RegistryNext ==
  \/ \E s \in Server : \/ Proceed(s) /\ UNCHANGED registryVars
                       \/ CrashWithLists(s)
                       \/ \E p \in Player : ConnectNewPlayer(s, p)
  \/ \E b \in broadcasts : TakeMap(b) \/ StartPushes(b)
  \/ \E p \in pushes : SendList(p) \/ ReceiveList(p) \/ PushFails(p)

RegistrySpec == RegistryInit /\ [][RegistryNext]_allVars

-----------------------------------------------------------------------------
Versions == { playerList[s] : s \in Server }
              \cup { ReadMap(p.from, p.map) : p \in pushes }

\* All servers have run from the beginning, and whoever was asked has answered.
Undisturbed == failStop /\ running = Server

\* As long as that is so, of two lists, held or under way, one is an older version
\* of the other: no two servers know different players.  (A leader that dies in
\* the middle of its posts leaves the others with lists of which neither need be
\* older once its successor has entered somebody else; so do two leaders.)
ListsComparable ==
  Undisturbed => \A x, y \in Versions : x \subseteq y \/ y \subseteq x

\* As long as that is so, the leader's list is the newest of all: what replaces
\* lists elsewhere, in whatever order it arrives, never holds a player that the
\* leader has lost, and none of it comes back to the leader.
LeaderKnowsAll ==
  Undisturbed =>
    \A s \in Server : IsLeader(s) => \A x \in Versions : x \subseteq playerList[s]
-----------------------------------------------------------------------------
(* What comments say and the code does not do.                             *)

\* server/handlers_api.go: "recebe a lista atualizada do lider", "atualiza a lista
\* global de players".  Once nothing is under way any more, a server that the
\* leader takes for alive has the leader's list (if nobody died).
ListsUpToDate ==
  (Undisturbed /\ broadcasts = {} /\ pushes = {}) =>
    \A s \in Server : IsLeader(s) =>
      \A r \in live[s] : playerList[r] = playerList[s]
=============================================================================
