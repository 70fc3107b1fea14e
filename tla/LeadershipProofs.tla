-------------------------- MODULE LeadershipProofs --------------------------
(***************************************************************************)
(* Proofs about Leadership, for any number of servers and of crashes: type *)
(* correctness, and that two servers never lead at the same time as long   *)
(* as none was launched late or again and those that run answer in time.   *)
(***************************************************************************)
EXTENDS Leadership, WellFoundedInduction, TLAPS

USE LeadershipAssumption DEF Server, NoLeader

\* Of servers that answered there is a lowest.
LEMMA LowestExists ==
  ASSUME NEW ids \in SUBSET Server, ids # {}
  PROVE  Lowest(ids) \in ids /\ \A r \in ids : Lowest(ids) <= r
<1> DEFINE Less == OpToRel(<, Nat)
<1>1. IsWellFoundedOn(Less, Nat)
  BY NatLessThanWellFounded
<1>2. ids \subseteq Nat
  OBVIOUS
<1> HIDE DEF Less
<1>3. \E r \in ids : \A q \in ids : <<q, r>> \notin Less
  BY <1>1, <1>2, WFMin
<1>4. \A q, r \in ids : q < r => <<q, r>> \in Less
  BY <1>2 DEF Less, OpToRel
<1>5. PICK r \in ids : \A q \in ids : <<q, r>> \notin Less
  BY <1>3
<1>6. ASSUME NEW q \in ids PROVE r <= q
  <2>1. ~ (q < r)
    BY <1>4, <1>5
  <2>2. q \in Nat /\ r \in Nat
    BY <1>2
  <2> QED
    BY <2>1, <2>2
<1> QED
  BY <1>6 DEF Lowest

-----------------------------------------------------------------------------
(* Type correctness.                                                       *)

\* From its first probe to its decision a server is among those that answered it,
\* so that there is somebody to elect.
TypeInv ==
  /\ LeadershipTypeOK
  /\ \A s \in Server : phase[s] \notin { "menu", "idle" } => s \in answered[s]

LEMMA TypeInit == Init => TypeInv
BY DEF Init, TypeInv, LeadershipTypeOK, Phase

LEMMA TypeNext == TypeInv /\ [Next]_vars => TypeInv'
<1> SUFFICES ASSUME TypeInv, [Next]_vars PROVE TypeInv'
  OBVIOUS
<1> USE DEF TypeInv, LeadershipTypeOK, Phase
<1>1. ASSUME NEW s \in Server, Launch(s) PROVE TypeInv'
  BY <1>1 DEF Launch
<1>2. ASSUME NEW s \in Server, PressEnter(s) PROVE TypeInv'
  BY <1>2 DEF PressEnter, StartProbes
<1>3. ASSUME NEW s \in Server, StartCheck(s) PROVE TypeInv'
  BY <1>3 DEF StartCheck, StartProbes
<1>4. ASSUME NEW s \in Server, NEW r \in Server, ProbeAnswered(s, r) PROVE TypeInv'
  BY <1>4 DEF ProbeAnswered
<1>5. ASSUME NEW s \in Server, NEW r \in Server, ProbeFails(s, r) PROVE TypeInv'
  BY <1>5 DEF ProbeFails
<1>6. ASSUME NEW s \in Server, PublishLive(s) PROVE TypeInv'
  BY <1>6 DEF PublishLive, AfterProbes
<1>7. ASSUME NEW s \in Server, phase[s] \notin { "menu", "idle" }
      PROVE  Lowest(answered[s]) \in Server
  <2>1. answered[s] \in SUBSET Server /\ answered[s] # {}
    BY <1>7
  <2> QED
    BY <2>1, LowestExists
<1>8. ASSUME NEW s \in Server, NEW l \in Server, Follow(s, l) PROVE TypeInv'
  BY <1>8 DEF Follow
<1>9. ASSUME NEW s \in Server, FirstElection(s) PROVE TypeInv'
  BY <1>7, <1>8, <1>9 DEF FirstElection
<1>10. ASSUME NEW s \in Server, DecideLeader(s) PROVE TypeInv'
  <2>1. CASE leader[s] \in answered[s]
    <3>1. leader[s] \in Server /\ Follow(s, leader[s])
      BY <1>10, <2>1 DEF DecideLeader
    <3> QED
      BY <1>8, <3>1
  <2>2. CASE leader[s] \notin answered[s]
    <3>1. Lowest(answered[s]) \in Server /\ Follow(s, Lowest(answered[s]))
      BY <1>7, <1>10, <2>2 DEF DecideLeader
    <3> QED
      BY <1>8, <3>1
  <2> QED
    BY <2>1, <2>2
<1>11. ASSUME NEW s \in Server, Crash(s) PROVE TypeInv'
  BY <1>11 DEF Crash
<1>12. CASE UNCHANGED vars
  BY <1>12 DEF vars
<1> QED
  BY <1>1, <1>2, <1>3, <1>4, <1>5, <1>6, <1>9, <1>10, <1>11, <1>12
  DEF Next, Proceed, GetOn, Probe

\* In every behaviour the state is well typed: whoever an election picks is a
\* server.
THEOREM LeadershipTypeCorrect == Spec => []LeadershipTypeOK
<1>1. TypeInv => LeadershipTypeOK
  BY DEF TypeInv
<1> QED
  BY <1>1, TypeInit, TypeNext, PTL DEF Spec

-----------------------------------------------------------------------------
(* One leader.                                                             *)

\* Once the history is disturbed it stays so, and servers only leave before.
LEMMA HistoryNext ==
  ASSUME TypeInv, [Next]_vars, failStop'
  PROVE  failStop /\ running' \subseteq running
<1> USE DEF TypeInv, LeadershipTypeOK
<1>1. ASSUME NEW s \in Server, Launch(s) PROVE FALSE
  BY <1>1 DEF Launch
<1>2. ASSUME NEW s \in Server, PressEnter(s) \/ StartCheck(s) \/ PublishLive(s)
      PROVE  failStop /\ running' \subseteq running
  BY <1>2 DEF PressEnter, StartCheck, PublishLive
<1>3. ASSUME NEW s \in Server, Probe(s) PROVE failStop /\ running' \subseteq running
  BY <1>3 DEF Probe, ProbeAnswered, ProbeFails
<1>4. ASSUME NEW s \in Server, FirstElection(s) \/ DecideLeader(s)
      PROVE  failStop /\ running' \subseteq running
  BY <1>4 DEF FirstElection, DecideLeader, Follow
<1>5. ASSUME NEW s \in Server, Crash(s) PROVE failStop /\ running' \subseteq running
  BY <1>5 DEF Crash
<1>6. CASE UNCHANGED vars
  BY <1>6 DEF vars
<1> QED
  BY <1>1, <1>2, <1>3, <1>4, <1>5, <1>6 DEF Next, Proceed, GetOn

LEMMA FailStopInit == Init => FailStopInv
BY DEF Init, FailStopInv

LEMMA FailStopNext == TypeInv /\ FailStopInv /\ [Next]_vars => FailStopInv'
<1> SUFFICES ASSUME TypeInv, FailStopInv, [Next]_vars, failStop' PROVE FailStopInv'
  BY DEF FailStopInv
<1>0. failStop /\ running' \subseteq running
  BY HistoryNext
<1> USE <1>0 DEF FailStopInv, TypeInv, LeadershipTypeOK
<1>1. ASSUME NEW s \in Server, Launch(s) PROVE FailStopInv'
  BY <1>1 DEF Launch
<1>2. ASSUME NEW s \in Server, PressEnter(s) PROVE FailStopInv'
  BY <1>2 DEF PressEnter, StartProbes
<1>3. ASSUME NEW s \in Server, StartCheck(s) PROVE FailStopInv'
  BY <1>3 DEF StartCheck, StartProbes
<1>4. ASSUME NEW s \in Server, NEW r \in Server, ProbeAnswered(s, r)
      PROVE  FailStopInv'
  BY <1>4 DEF ProbeAnswered
<1>5. ASSUME NEW s \in Server, NEW r \in Server, ProbeFails(s, r)
      PROVE  FailStopInv'
  BY <1>5 DEF ProbeFails
<1>6. ASSUME NEW s \in Server, PublishLive(s) PROVE FailStopInv'
  BY <1>6 DEF PublishLive, AfterProbes
<1>7. ASSUME NEW s \in Server, phase[s] \in { "vote", "decide" }
      PROVE  /\ running \subseteq answered[s]
             /\ \A r \in running : Lowest(answered[s]) <= r
  <2>1. running \subseteq answered[s]
    BY <1>7
  <2>2. answered[s] \in SUBSET Server /\ answered[s] # {}
    BY <1>7
  <2> QED
    BY <2>1, <2>2, LowestExists
<1>8. ASSUME NEW s \in Server, NEW l, Follow(s, l), \A r \in running : l <= r
      PROVE  FailStopInv'
  BY <1>8 DEF Follow
<1>9. ASSUME NEW s \in Server, FirstElection(s) PROVE FailStopInv'
  BY <1>7, <1>8, <1>9 DEF FirstElection
<1>10. ASSUME NEW s \in Server, DecideLeader(s) PROVE FailStopInv'
  <2>1. CASE leader[s] \in answered[s]
    <3>1. leader[s] # NoLeader /\ Follow(s, leader[s])
      BY <1>10, <2>1 DEF DecideLeader
    <3> QED
      BY <1>8, <3>1
  <2>2. CASE leader[s] \notin answered[s]
    BY <1>7, <1>8, <1>10, <2>2 DEF DecideLeader
  <2> QED
    BY <2>1, <2>2
<1>11. ASSUME NEW s \in Server, Crash(s) PROVE FailStopInv'
  BY <1>11 DEF Crash
<1>12. CASE UNCHANGED vars
  BY <1>12 DEF vars
<1> QED
  BY <1>1, <1>2, <1>3, <1>4, <1>5, <1>6, <1>9, <1>10, <1>11, <1>12
  DEF Next, Proceed, GetOn, Probe

LEMMA OnlyOneLeads == TypeInv /\ FailStopInv => OneLeader
BY DEF TypeInv, LeadershipTypeOK, FailStopInv, OneLeader, IsLeader

\* As long as all servers have run from the beginning, none came back and each that
\* ran answered in time, two servers never lead at the same time.
THEOREM AtMostOneLeader == Spec => []OneLeader
BY TypeInit, TypeNext, FailStopInit, FailStopNext, OnlyOneLeads, PTL DEF Spec

-----------------------------------------------------------------------------
(* A leader is kept while it runs (what the lists of players rest on).     *)

\* Who has not voted yet follows nobody.
NotVoted ==
  \A s \in Server : phase[s] \in { "menu", "first", "vote" } => leader[s] = NoLeader

LEMMA NotVotedNext == TypeInv /\ NotVoted /\ [Next]_vars => NotVoted'
<1> SUFFICES ASSUME TypeInv, NotVoted, [Next]_vars PROVE NotVoted'
  OBVIOUS
<1> USE DEF NotVoted, TypeInv, LeadershipTypeOK
<1>1. ASSUME NEW s \in Server, Launch(s) \/ Probe(s) PROVE NotVoted'
  BY <1>1 DEF Launch, Probe, ProbeAnswered, ProbeFails
<1>2. ASSUME NEW s \in Server, PressEnter(s) \/ StartCheck(s) PROVE NotVoted'
  BY <1>2 DEF PressEnter, StartCheck, StartProbes
<1>3. ASSUME NEW s \in Server, PublishLive(s) PROVE NotVoted'
  BY <1>3 DEF PublishLive, AfterProbes
<1>4. ASSUME NEW s \in Server, FirstElection(s) \/ DecideLeader(s) PROVE NotVoted'
  BY <1>4 DEF FirstElection, DecideLeader, Follow
<1>5. ASSUME NEW s \in Server, Crash(s) PROVE NotVoted'
  BY <1>5 DEF Crash
<1>6. CASE UNCHANGED vars
  BY <1>6 DEF vars
<1> QED
  BY <1>1, <1>2, <1>3, <1>4, <1>5, <1>6 DEF Next, Proceed, GetOn

LEMMA LeaderKept ==
  ASSUME TypeInv, FailStopInv, NotVoted, [Next]_vars, failStop',
         NEW s \in Server, leader[s] # NoLeader, leader[s] \in running', s \in running'
  PROVE  leader'[s] = leader[s]
<1>0. failStop
  BY HistoryNext
<1> USE DEF TypeInv, LeadershipTypeOK
<1>1. ASSUME NEW r \in Server, \/ Launch(r) \/ PressEnter(r) \/ StartCheck(r)
                              \/ Probe(r) \/ PublishLive(r)
      PROVE  leader' = leader
  BY <1>1 DEF Launch, PressEnter, StartCheck, Probe, ProbeAnswered, ProbeFails, PublishLive
<1>2. ASSUME NEW r \in Server, FirstElection(r) PROVE leader'[s] = leader[s]
  BY <1>2 DEF FirstElection, Follow, NotVoted
<1>3. ASSUME NEW r \in Server, DecideLeader(r) PROVE leader'[s] = leader[s]
  <2>1. running \subseteq answered[r] /\ running' = running
    BY <1>0, <1>3 DEF DecideLeader, Follow, FailStopInv
  <2>2. CASE r = s
    <3>1. leader[s] \in answered[r]
      BY <2>1
    <3> QED
      BY <1>3, <2>2, <3>1 DEF DecideLeader, Follow
  <2>3. CASE r # s
    BY <1>3, <2>3 DEF DecideLeader, Follow
  <2> QED
    BY <2>2, <2>3
<1>4. ASSUME NEW r \in Server, Crash(r) PROVE leader'[s] = leader[s]
  BY <1>4 DEF Crash
<1>5. CASE UNCHANGED vars
  BY <1>5 DEF vars
<1> QED
  BY <1>1, <1>2, <1>3, <1>4, <1>5 DEF Next, Proceed, GetOn
=============================================================================
