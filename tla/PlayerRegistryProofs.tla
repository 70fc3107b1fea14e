----------------------- MODULE PlayerRegistryProofs -------------------------
(***************************************************************************)
(* Theorems about PlayerRegistry, for any number of servers, players, new  *)
(* entries and crashes.                                                    *)
(***************************************************************************)
EXTENDS PlayerRegistry, LeadershipProofs

USE LeadershipAssumption, RegistryAssumption DEF Server, NoLeader

\* What the registry does to the election: nothing, or one of its steps.
LEMMA ElectionStep == [RegistryNext]_allVars => [Next]_vars
BY DEF RegistryNext, allVars, Next, CrashWithLists, ConnectNewPlayer,
  TakeMap, StartPushes, SendList, ReceiveList, PushFails

LEMMA ElectionTypes == RegistrySpec => []TypeInv
<1>1. RegistryInit => TypeInv
  BY TypeInit DEF RegistryInit
<1>2. TypeInv /\ [RegistryNext]_allVars => TypeInv'
  BY ElectionStep, TypeNext
<1> QED
  BY <1>1, <1>2, PTL DEF RegistrySpec

-----------------------------------------------------------------------------
(* Types.                                                                  *)

LEMMA MapRefs ==
  /\ NextMap \in MapRef /\ Current \in MapRef
  /\ NextMap # Current
  /\ \A l \in SUBSET Player : Frozen(l) \in MapRef
BY DEF NextMap, Current, Frozen, MapRef

LEMMA RegistryTypeNext ==
  TypeInv /\ RegistryTypeOK /\ [RegistryNext]_allVars => RegistryTypeOK'
<1> SUFFICES ASSUME TypeInv, RegistryTypeOK, [RegistryNext]_allVars
             PROVE  RegistryTypeOK'
  OBVIOUS
<1> USE DEF RegistryTypeOK
<1>1. ASSUME NEW s \in Server, Proceed(s) /\ UNCHANGED registryVars
      PROVE  RegistryTypeOK'
  BY <1>1 DEF registryVars
<1>2. ASSUME NEW s \in Server, CrashWithLists(s) PROVE RegistryTypeOK'
  BY <1>2 DEF CrashWithLists
<1>3. ASSUME NEW s \in Server, NEW p \in Player, ConnectNewPlayer(s, p)
      PROVE  RegistryTypeOK'
  <2>1. entries + 1 \in 1 .. MaxBroadcasts /\ entries' \in 0 .. MaxBroadcasts
    BY <1>3 DEF ConnectNewPlayer
  <2>2. Announce(s, p) \in Broadcast
    BY <2>1, MapRefs DEF Announce, Broadcast
  <2>3. playerList' \in [Server -> SUBSET Player]
    BY <1>3 DEF ConnectNewPlayer, EntryKey
  <2> QED
    BY <1>3, <2>1, <2>2, <2>3 DEF ConnectNewPlayer
<1>4. ASSUME NEW b \in broadcasts, TakeMap(b) PROVE RegistryTypeOK'
  <2>1. [b EXCEPT !.map = Current] \in Broadcast
    BY MapRefs DEF Broadcast
  <2> QED
    BY <1>4, <2>1 DEF TakeMap
<1>5. ASSUME NEW b \in broadcasts, StartPushes(b) PROVE RegistryTypeOK'
  <2>1. b \in Broadcast
    OBVIOUS
  <2>2. Targets(b.from) \subseteq Server
    BY <2>1 DEF Targets, TypeInv, LeadershipTypeOK, Broadcast
  <2>3. \A r \in Targets(b.from) :
          [id |-> b.id, from |-> b.from, to |-> r, map |-> b.map, sent |-> FALSE] \in Push
    BY <2>1, <2>2 DEF Broadcast, Push
  <2> QED
    BY <1>5, <2>3 DEF StartPushes
<1>6. ASSUME NEW p \in pushes, SendList(p) PROVE RegistryTypeOK'
  <2>1. p \in Push
    OBVIOUS
  <2>2. ReadMap(p.from, p.map) \in SUBSET Player
    BY <2>1 DEF ReadMap, Push, MapRef
  <2>3. [p EXCEPT !.sent = TRUE, !.map = Frozen(ReadMap(p.from, p.map))] \in Push
    BY <2>1, <2>2, MapRefs DEF Push
  <2> QED
    BY <1>6, <2>3 DEF SendList
<1>7. ASSUME NEW p \in pushes, ReceiveList(p) PROVE RegistryTypeOK'
  <2>1. p.to \in Server /\ p.map.list \in SUBSET Player
    BY DEF Push, MapRef
  <2>2. playerList' \in [Server -> SUBSET Player]
    BY <1>7, <2>1 DEF ReceiveList
  <2>3. \A q \in pushes : Freeze(p.to, q) \in Push
    BY <2>1, MapRefs DEF Freeze, Push
  <2>4. \A b \in broadcasts : Freeze(p.to, b) \in Broadcast
    BY <2>1, MapRefs DEF Freeze, Broadcast
  <2> QED
    BY <1>7, <2>2, <2>3, <2>4 DEF ReceiveList
<1>8. ASSUME NEW p \in pushes, PushFails(p) PROVE RegistryTypeOK'
  BY <1>8 DEF PushFails
<1>9. CASE UNCHANGED allVars
  BY <1>9 DEF allVars, registryVars
<1> QED
  BY <1>1, <1>2, <1>3, <1>4, <1>5, <1>6, <1>7, <1>8, <1>9 DEF RegistryNext

\* In every behaviour lists hold players only, and what is under way is well
\* formed, however many references to a map there are.
THEOREM RegistryTypeCorrect == RegistrySpec => []RegistryTypeOK
<1>1. RegistryInit => RegistryTypeOK
  BY DEF RegistryInit, RegistryTypeOK
<1>2. RegistrySpec => []TypeInv
  BY ElectionTypes
<1> QED
  BY <1>1, <1>2, RegistryTypeNext, PTL DEF RegistrySpec

-----------------------------------------------------------------------------
(* Lists come from the leader.                                             *)

\* The invariants of the election, and types.
Election == TypeInv /\ FailStopInv /\ NotVoted /\ RegistryTypeOK

LEMMA ElectionInit == RegistryInit => Election
BY TypeInit, FailStopInit
DEF RegistryInit, Election, Init, NotVoted, RegistryTypeOK

LEMMA ElectionNext == Election /\ [RegistryNext]_allVars => Election'
BY ElectionStep, TypeNext, FailStopNext, NotVotedNext, RegistryTypeNext DEF Election

LEMMA UndisturbedSince ==
  ASSUME Election, [Next]_vars, Undisturbed'
  PROVE  Undisturbed /\ running' = running
BY HistoryNext DEF Undisturbed, Election, TypeInv, LeadershipTypeOK

LEMMA LeaderStays ==
  ASSUME Election, [Next]_vars, Undisturbed', NEW s \in Server, IsLeader(s)
  PROVE  IsLeader(s)'
<1>1. leader[s] # NoLeader /\ leader[s] = s
  BY DEF IsLeader
<1>2. failStop' /\ s \in running'
  BY DEF Undisturbed
<1>3. leader'[s] = leader[s]
  BY <1>1, <1>2, LeaderKept DEF Election
<1> QED
  BY <1>1, <1>2, <1>3 DEF IsLeader

\* Who has a list to send, leads, and does not send it to itself.
SendersLead ==
  Undisturbed => /\ \A b \in broadcasts : IsLeader(b.from)
                 /\ \A p \in pushes : IsLeader(p.from)
NotToSelf == \A p \in pushes : p.from # p.to

LEMMA SendersKept ==
  ASSUME Election, SendersLead, [Next]_vars,
         \A b \in broadcasts' : \E o \in broadcasts : b.from = o.from,
         \A p \in pushes' : \E o \in broadcasts \cup pushes : p.from = o.from
  PROVE  SendersLead'
<1> SUFFICES ASSUME Undisturbed'
             PROVE  /\ \A b \in broadcasts' : IsLeader(b.from)'
                    /\ \A p \in pushes' : IsLeader(p.from)'
  BY DEF SendersLead
<1>1. \A o \in broadcasts \cup pushes : o.from \in Server
  BY DEF Election, RegistryTypeOK, Broadcast, Push
<1>2. \A o \in broadcasts \cup pushes : IsLeader(o.from)
  BY UndisturbedSince DEF SendersLead
<1>3. \A o \in broadcasts \cup pushes : IsLeader(o.from)'
  BY <1>1, <1>2, LeaderStays
<1>4. ASSUME NEW b \in broadcasts' PROVE IsLeader(b.from)'
  BY <1>3, <1>4 DEF IsLeader
<1>5. ASSUME NEW p \in pushes' PROVE IsLeader(p.from)'
  BY <1>3, <1>5 DEF IsLeader
<1> QED
  BY <1>4, <1>5

LEMMA SendersNext ==
  ASSUME Election, SendersLead, NotToSelf, [RegistryNext]_allVars
  PROVE  SendersLead' /\ NotToSelf'
<1>0. [Next]_vars
  BY ElectionStep
<1>1. ASSUME NEW s \in Server, Proceed(s) /\ UNCHANGED registryVars
      PROVE  SendersLead' /\ NotToSelf'
  BY <1>0, <1>1, SendersKept DEF NotToSelf, registryVars
<1>2. ASSUME NEW s \in Server, CrashWithLists(s) PROVE SendersLead' /\ NotToSelf'
  <2>1. broadcasts' \subseteq broadcasts /\ pushes' \subseteq pushes
    BY <1>2 DEF CrashWithLists
  <2> QED
    BY <1>0, <2>1, SendersKept DEF NotToSelf
<1>3. ASSUME NEW s \in Server, NEW p \in Player, ConnectNewPlayer(s, p)
      PROVE  SendersLead' /\ NotToSelf'
  <2>1. IsLeader(s) /\ UNCHANGED vars /\ UNCHANGED pushes
    BY <1>3 DEF ConnectNewPlayer, Registers
  <2>2. \A r : IsLeader(r)' <=> IsLeader(r)
    BY <2>1 DEF IsLeader, vars
  <2>3. \A b \in broadcasts' : b \in broadcasts \/ b.from = s
    BY <1>3 DEF ConnectNewPlayer, Announce
  <2>4. Undisturbed' <=> Undisturbed
    BY <2>1 DEF Undisturbed, vars
  <2> QED
    BY <2>1, <2>2, <2>3, <2>4 DEF SendersLead, NotToSelf
<1>4. ASSUME NEW b \in broadcasts, TakeMap(b) PROVE SendersLead' /\ NotToSelf'
  <2>1. [b EXCEPT !.map = Current].from = b.from
    BY DEF Election, RegistryTypeOK, Broadcast
  <2>2. \A c \in broadcasts' : \E o \in broadcasts : c.from = o.from
    BY <1>4, <2>1 DEF TakeMap
  <2>3. pushes' = pushes
    BY <1>4 DEF TakeMap
  <2> QED
    BY <1>0, <2>2, <2>3, SendersKept DEF NotToSelf
<1>5. ASSUME NEW b \in broadcasts, StartPushes(b) PROVE SendersLead' /\ NotToSelf'
  <2>1. broadcasts' \subseteq broadcasts
        /\ \A q \in pushes' : q \in pushes \/ (q.from = b.from /\ q.to \in Targets(b.from))
    BY <1>5 DEF StartPushes
  <2>2. b.from \notin Targets(b.from)
    BY DEF Targets
  <2> QED
    BY <1>0, <2>1, <2>2, SendersKept DEF NotToSelf
<1>6. ASSUME NEW p \in pushes, SendList(p) PROVE SendersLead' /\ NotToSelf'
  <2> DEFINE q == [p EXCEPT !.sent = TRUE, !.map = Frozen(ReadMap(p.from, p.map))]
  <2>1. q.from = p.from /\ q.to = p.to
    BY DEF Election, RegistryTypeOK, Push
  <2>2. broadcasts' = broadcasts /\ pushes' = (pushes \ {p}) \cup {q}
    BY <1>6 DEF SendList
  <2> HIDE DEF q
  <2> QED
    BY <1>0, <2>1, <2>2, SendersKept DEF NotToSelf
<1>7. ASSUME NEW p \in pushes, ReceiveList(p) PROVE SendersLead' /\ NotToSelf'
  <2>1. \A q \in pushes : /\ Freeze(p.to, q).from = q.from
                          /\ Freeze(p.to, q).to = q.to
    BY DEF Freeze, Election, RegistryTypeOK, Push
  <2>2. \A b \in broadcasts : Freeze(p.to, b).from = b.from
    BY DEF Freeze, Election, RegistryTypeOK, Broadcast
  <2>3. /\ \A q \in pushes' : \E o \in pushes : q.from = o.from /\ q.to = o.to
        /\ \A b \in broadcasts' : \E o \in broadcasts : b.from = o.from
    BY <1>7, <2>1, <2>2 DEF ReceiveList
  <2> QED
    BY <1>0, <2>3, SendersKept DEF NotToSelf
<1>8. ASSUME NEW p \in pushes, PushFails(p) PROVE SendersLead' /\ NotToSelf'
  <2>1. broadcasts' = broadcasts /\ pushes' \subseteq pushes
    BY <1>8 DEF PushFails
  <2> QED
    BY <1>0, <2>1, SendersKept DEF NotToSelf
<1>9. CASE UNCHANGED allVars
  BY <1>0, <1>9, SendersKept DEF NotToSelf, allVars, registryVars
<1> QED
  BY <1>1, <1>2, <1>3, <1>4, <1>5, <1>6, <1>7, <1>8, <1>9 DEF RegistryNext

-----------------------------------------------------------------------------
(* Lists only differ by age.                                               *)

\* All lists, held or under way, those of broadcasts included.
Lists == Versions \cup { ReadMap(b.from, b.map) : b \in broadcasts }

\* What was posted cannot change any more.
SentFrozen == \A p \in pushes : p.sent => p.map.is = "frozen"

\* The leader's list is the newest, and as long as nobody has led there is nothing
\* on any list.
ByAge ==
  Undisturbed =>
    /\ \A x, y \in Lists : x \subseteq y \/ y \subseteq x
    /\ \A s \in Server : IsLeader(s) => \A x \in Lists : x \subseteq playerList[s]
    /\ \A x \in Lists : x # {} => \E s \in Server : IsLeader(s)

LEMMA ListsKept ==
  ASSUME Election, ByAge, OneLeader', [Next]_vars, Lists' \subseteq Lists,
         Undisturbed' => \A r \in Server : IsLeader(r) => playerList'[r] = playerList[r]
  PROVE  ByAge'
<1> SUFFICES ASSUME Undisturbed'
             PROVE  /\ \A x, y \in Lists' : x \subseteq y \/ y \subseteq x
                    /\ \A s \in Server : IsLeader(s)' =>
                         \A x \in Lists' : x \subseteq playerList'[s]
                    /\ \A x \in Lists' : x # {} => \E s \in Server : IsLeader(s)'
  BY DEF ByAge
<1>0. Undisturbed
  BY UndisturbedSince
<1>1. \A x, y \in Lists' : x \subseteq y \/ y \subseteq x
  BY <1>0 DEF ByAge
<1>2. ASSUME NEW x \in Lists', x # {}
      PROVE  \E r \in Server : IsLeader(r) /\ IsLeader(r)' /\ x \subseteq playerList'[r]
  <2>1. PICK r \in Server : IsLeader(r)
    BY <1>0, <1>2 DEF ByAge
  <2>2. IsLeader(r)'
    BY <2>1, LeaderStays
  <2>3. x \subseteq playerList[r]
    BY <1>0, <2>1 DEF ByAge
  <2> QED
    BY <2>1, <2>2, <2>3
<1>3. ASSUME NEW s \in Server, IsLeader(s)', NEW x \in Lists'
      PROVE  x \subseteq playerList'[s]
  <2>1. CASE x = {}
    BY <2>1
  <2>2. CASE x # {}
    <3>1. PICK r \in Server : IsLeader(r)' /\ x \subseteq playerList'[r]
      BY <1>2, <2>2
    <3>2. r = s
      BY <1>3, <3>1 DEF OneLeader, Undisturbed
    <3> QED
      BY <3>1, <3>2
  <2> QED
    BY <2>1, <2>2
<1> QED
  BY <1>1, <1>2, <1>3

LEMMA ListsUnchanged ==
  ASSUME UNCHANGED <<playerList, pushes, broadcasts>>
  PROVE  Lists' = Lists
BY DEF Lists, Versions, ReadMap

LEMMA ByAgeNext ==
  ASSUME Election, SendersLead, NotToSelf, SentFrozen, ByAge, [RegistryNext]_allVars
  PROVE  SentFrozen' /\ ByAge'
<1>0. [Next]_vars /\ OneLeader /\ OneLeader'
  <2>1. TypeInv /\ FailStopInv
    BY DEF Election
  <2>2. TypeInv' /\ FailStopInv'
    BY ElectionNext DEF Election
  <2>3. OneLeader'
    BY ONLY <2>2, LeadershipAssumption
       DEF TypeInv, LeadershipTypeOK, FailStopInv, OneLeader, IsLeader, Server, NoLeader
  <2> QED
    BY <2>1, <2>3, OnlyOneLeads, ElectionStep
<1>1. ASSUME NEW s \in Server, Proceed(s) /\ UNCHANGED registryVars
      PROVE  SentFrozen' /\ ByAge'
  <2>1. Lists' = Lists
    BY <1>1, ListsUnchanged DEF registryVars
  <2>2. ByAge'
    BY <1>0, <1>1, <2>1, ListsKept DEF registryVars
  <2> QED
    BY <1>1, <2>2 DEF SentFrozen, registryVars
<1>2. ASSUME NEW s \in Server, CrashWithLists(s) PROVE SentFrozen' /\ ByAge'
  <2>1. running' # Server /\ pushes' \subseteq pushes
    BY <1>2 DEF CrashWithLists, Crash
  <2> QED
    BY <2>1 DEF SentFrozen, ByAge, Undisturbed
<1>3. ASSUME UNCHANGED vars, \A p \in pushes' : p.sent => p.map.is = "frozen",
             Lists' \subseteq Lists,
             Undisturbed => \A r \in Server : IsLeader(r) => playerList'[r] = playerList[r]
      PROVE  SentFrozen' /\ ByAge'
  <2>1. Undisturbed' <=> Undisturbed
    BY <1>3 DEF Undisturbed, vars
  <2> QED
    BY <1>0, <1>3, <2>1, ListsKept DEF SentFrozen
<1>4. ASSUME NEW s \in Server, NEW p \in Player, ConnectNewPlayer(s, p)
      PROVE  SentFrozen' /\ ByAge'
  <2>1. UNCHANGED vars /\ UNCHANGED pushes /\ IsLeader(s)
    BY <1>4 DEF ConnectNewPlayer, Registers
  <2>2. \A r : IsLeader(r)' <=> IsLeader(r)
    BY <2>1 DEF IsLeader, vars
  <2>3. /\ playerList \in [Server -> SUBSET Player]
        /\ playerList' = [playerList EXCEPT ![s] = @ \cup {p}]
    BY <1>4 DEF ConnectNewPlayer, EntryKey, Election, RegistryTypeOK
  <2>4. playerList[s] \subseteq playerList'[s]
    BY <2>3
  <2>5. \A r \in Server : playerList'[r] = playerList[r] \/ r = s
    BY <2>3
  <2>6. ASSUME NEW r \in Server, NEW m PROVE ReadMap(r, m)' \in { ReadMap(r, m), playerList'[s] }
    BY <2>5 DEF ReadMap
  <2>7. ReadMap(s, NextMap)' = playerList'[s]
    BY DEF ReadMap, NextMap
  <2>8. Lists' \subseteq Lists \cup { playerList'[s] }
    <3>1. \A r \in Server : playerList'[r] \in Lists \cup { playerList'[s] }
      BY <2>5 DEF Lists, Versions
    <3>2. \A q \in pushes : ReadMap(q.from, q.map)' \in Lists \cup { playerList'[s] }
      BY <2>6 DEF Lists, Versions, Election, RegistryTypeOK, Push
    <3>3. \A b \in broadcasts : ReadMap(b.from, b.map)' \in Lists \cup { playerList'[s] }
      BY <2>6 DEF Lists, Election, RegistryTypeOK, Broadcast
    <3>4. \A b \in broadcasts' : \/ b \in broadcasts
                                 \/ b.from = s /\ b.map = NextMap
      BY <1>4 DEF ConnectNewPlayer, Announce
    <3>5. \A b \in broadcasts' : ReadMap(b.from, b.map)' \in Lists \cup { playerList'[s] }
      BY <2>7, <3>3, <3>4
    <3> QED
      BY <2>1, <3>1, <3>2, <3>5 DEF Lists, Versions
  <2>9. ByAge'
    <3> SUFFICES ASSUME Undisturbed
                 PROVE  /\ \A x, y \in Lists' : x \subseteq y \/ y \subseteq x
                        /\ \A r \in Server : IsLeader(r)' =>
                             \A x \in Lists' : x \subseteq playerList'[r]
                        /\ \E r \in Server : IsLeader(r)'
      BY <2>1 DEF ByAge, Undisturbed, vars
    <3>1. \A x \in Lists : x \subseteq playerList'[s]
      BY <2>1, <2>4 DEF ByAge
    <3>2. \A x, y \in Lists' : x \subseteq y \/ y \subseteq x
      BY <2>8, <3>1 DEF ByAge
    <3>3. \A r \in Server : IsLeader(r)' => r = s
      BY <1>0, <2>1, <2>2 DEF OneLeader, Undisturbed
    <3> QED
      BY <2>1, <2>2, <2>8, <3>1, <3>2, <3>3
  <2> QED
    BY <2>1, <2>9 DEF SentFrozen
<1>5. ASSUME NEW b \in broadcasts, TakeMap(b) PROVE SentFrozen' /\ ByAge'
  <2> DEFINE c == [b EXCEPT !.map = Current]
  <2>1. c.from = b.from /\ c.map = Current
    BY DEF Election, RegistryTypeOK, Broadcast
  <2>2. UNCHANGED vars /\ UNCHANGED <<playerList, pushes>>
        /\ broadcasts' = (broadcasts \ {b}) \cup {c} /\ b.map = NextMap
    BY <1>5 DEF TakeMap
  <2> HIDE DEF c
  <2>3. \A r, m : ReadMap(r, m)' = ReadMap(r, m)
    BY <2>2 DEF ReadMap
  <2>4. ReadMap(c.from, c.map) = ReadMap(b.from, b.map)
    BY <2>1, <2>2 DEF ReadMap, Current, NextMap
  <2>5. Lists' \subseteq Lists
    BY <2>2, <2>3, <2>4 DEF Lists, Versions
  <2> QED
    BY <1>3, <2>2, <2>5 DEF SentFrozen
<1>6. ASSUME NEW b \in broadcasts, StartPushes(b) PROVE SentFrozen' /\ ByAge'
  <2>1. UNCHANGED vars /\ UNCHANGED playerList /\ broadcasts' \subseteq broadcasts
        /\ \A q \in pushes' : \/ q \in pushes
                              \/ q.from = b.from /\ q.map = b.map /\ q.sent = FALSE
    BY <1>6 DEF StartPushes
  <2>2. \A r, m : ReadMap(r, m)' = ReadMap(r, m)
    BY <2>1 DEF ReadMap
  <2>3. Lists' \subseteq Lists
    BY <2>1, <2>2 DEF Lists, Versions
  <2> QED
    BY <1>3, <2>1, <2>3 DEF SentFrozen
<1>7. ASSUME NEW p \in pushes, SendList(p) PROVE SentFrozen' /\ ByAge'
  <2> DEFINE q == [p EXCEPT !.sent = TRUE, !.map = Frozen(ReadMap(p.from, p.map))]
  <2>1. q.from = p.from /\ q.map = Frozen(ReadMap(p.from, p.map))
    BY DEF Election, RegistryTypeOK, Push
  <2>2. UNCHANGED vars /\ UNCHANGED <<playerList, broadcasts>>
        /\ pushes' = (pushes \ {p}) \cup {q}
    BY <1>7 DEF SendList
  <2> HIDE DEF q
  <2>3. \A r, m : ReadMap(r, m)' = ReadMap(r, m)
    BY <2>2 DEF ReadMap
  <2>4. q.map.is = "frozen" /\ ReadMap(q.from, q.map) = ReadMap(p.from, p.map)
    BY <2>1 DEF ReadMap, Frozen
  <2>5. Lists' \subseteq Lists
    BY <2>2, <2>3, <2>4 DEF Lists, Versions
  <2> QED
    BY <1>3, <2>2, <2>4, <2>5 DEF SentFrozen
<1>8. ASSUME NEW p \in pushes, ReceiveList(p) PROVE SentFrozen' /\ ByAge'
  <2>1. p.to \in Server /\ p.from \in Server /\ playerList \in [Server -> SUBSET Player]
    BY DEF Election, RegistryTypeOK, Push
  <2>2. UNCHANGED vars /\ playerList' = [playerList EXCEPT ![p.to] = p.map.list]
    BY <1>8 DEF ReceiveList
  <2>3. p.map.list = ReadMap(p.from, p.map)
    BY <1>8 DEF ReceiveList, SentFrozen, ReadMap
  <2>4. \A r \in Server : playerList'[r] = playerList[r]
                            \/ playerList'[r] = ReadMap(p.from, p.map)
    BY <2>1, <2>2, <2>3
  <2>5. ASSUME NEW t \in Server, NEW m, NEW n,
               n = IF t = p.to /\ m = Current THEN Frozen(playerList[t]) ELSE m,
               m.is = "frozen" => m.list \in Lists
        PROVE  ReadMap(t, n)' \in Lists
    <3>1. CASE t = p.to /\ m = Current
      BY <2>5, <3>1 DEF ReadMap, Frozen, Lists, Versions
    <3>2. CASE ~ (t = p.to /\ m = Current)
      <4>1. n = m
        BY <2>5, <3>2
      <4>2. playerList'[t] \in Lists
        BY <2>4 DEF Lists, Versions
      <4> QED
        BY <2>5, <4>1, <4>2 DEF ReadMap
    <3> QED
      BY <3>1, <3>2
  <2>6. ASSUME NEW q \in pushes, NEW f, f = Freeze(p.to, q)
        PROVE  ReadMap(f.from, f.map)' \in Lists
    <3>1. q \in Push
      BY DEF Election, RegistryTypeOK
    <3>2. q.from \in Server /\ f.from = q.from
          /\ f.map = IF q.from = p.to /\ q.map = Current
                     THEN Frozen(playerList[q.from]) ELSE q.map
      BY <2>6, <3>1 DEF Push, Freeze
    <3>3. q.map.is = "frozen" => q.map.list \in Lists
      BY DEF ReadMap, Lists, Versions
    <3> QED
      BY <2>5, <3>2, <3>3
  <2>7. ASSUME NEW b \in broadcasts, NEW f, f = Freeze(p.to, b)
        PROVE  ReadMap(f.from, f.map)' \in Lists
    <3>1. b \in Broadcast
      BY DEF Election, RegistryTypeOK
    <3>2. b.from \in Server /\ f.from = b.from
          /\ f.map = IF b.from = p.to /\ b.map = Current
                     THEN Frozen(playerList[b.from]) ELSE b.map
      BY <2>7, <3>1 DEF Broadcast, Freeze
    <3>3. b.map.is = "frozen" => b.map.list \in Lists
      BY DEF ReadMap, Lists
    <3> QED
      BY <2>5, <3>2, <3>3
  <2>8. Lists' \subseteq Lists
    <3>1. \A r \in Server : playerList'[r] \in Lists
      BY <2>4 DEF Lists, Versions
    <3>2. \A f \in pushes' : ReadMap(f.from, f.map)' \in Lists
      <4>1. \A f \in pushes' : \E q \in pushes : f = Freeze(p.to, q)
        BY <1>8 DEF ReceiveList
      <4> QED
        BY <2>6, <4>1
    <3>3. \A f \in broadcasts' : ReadMap(f.from, f.map)' \in Lists
      <4>1. \A f \in broadcasts' : \E b \in broadcasts : f = Freeze(p.to, b)
        BY <1>8 DEF ReceiveList
      <4> QED
        BY <2>7, <4>1
    <3> QED
      BY <3>1, <3>2, <3>3 DEF Lists, Versions
  <2>9. \A q \in pushes' : q.sent => q.map.is = "frozen"
    <3>1. \A o \in pushes : Freeze(p.to, o).sent => Freeze(p.to, o).map.is = "frozen"
      BY DEF Freeze, Frozen, SentFrozen, Election, RegistryTypeOK, Push
    <3> QED
      BY <1>8, <3>1 DEF ReceiveList
  <2>10. ASSUME Undisturbed, NEW r \in Server, IsLeader(r)
         PROVE  playerList'[r] = playerList[r]
    <3>1. IsLeader(p.from) /\ p.from # p.to
      BY <2>10 DEF SendersLead, NotToSelf
    <3>2. r # p.to
      BY <1>0, <2>1, <2>10, <3>1 DEF OneLeader, Undisturbed
    <3> QED
      BY <2>1, <2>2, <3>2
  <2> QED
    BY <1>3, <2>2, <2>8, <2>9, <2>10
<1>9. ASSUME NEW p \in pushes, PushFails(p) PROVE SentFrozen' /\ ByAge'
  <2>1. UNCHANGED vars /\ UNCHANGED <<playerList, broadcasts>> /\ pushes' \subseteq pushes
    BY <1>9 DEF PushFails
  <2>2. \A r, m : ReadMap(r, m)' = ReadMap(r, m)
    BY <2>1 DEF ReadMap
  <2>3. Lists' \subseteq Lists
    BY <2>1, <2>2 DEF Lists, Versions
  <2> QED
    BY <1>3, <2>1, <2>3 DEF SentFrozen
<1>10. CASE UNCHANGED allVars
  <2>1. UNCHANGED vars /\ UNCHANGED <<playerList, pushes, broadcasts>>
    BY <1>10 DEF allVars, registryVars
  <2> QED
    BY <1>3, <2>1, ListsUnchanged DEF SentFrozen
<1> QED
  BY <1>1, <1>2, <1>4, <1>5, <1>6, <1>7, <1>8, <1>9, <1>10 DEF RegistryNext

LEMMA ByAgeAlways == RegistrySpec => []ByAge
<1>1. RegistryInit => SendersLead /\ NotToSelf /\ SentFrozen /\ ByAge
  BY DEF RegistryInit, SendersLead, NotToSelf, SentFrozen, ByAge, Lists, Versions,
    ReadMap, Init, IsLeader
<1> QED
  BY <1>1, ElectionInit, ElectionNext, SendersNext, ByAgeNext, PTL DEF RegistrySpec

\* As long as all servers run and whoever was asked has answered, any two lists are
\* older and newer versions of one another, although each replaces what was there
\* before, many are under way in any order, and any of them may get lost.
THEOREM ListsAreComparable == RegistrySpec => []ListsComparable
<1>1. ByAge => ListsComparable
  BY DEF ByAge, ListsComparable, Lists
<1> QED
  BY <1>1, ByAgeAlways, PTL

\* And the newest of them is the leader's.
THEOREM LeadersKnowAll == RegistrySpec => []LeaderKnowsAll
<1>1. ByAge => LeaderKnowsAll
  BY DEF ByAge, LeaderKnowsAll, Lists
<1> QED
  BY <1>1, ByAgeAlways, PTL
=============================================================================
