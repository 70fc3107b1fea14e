----------------------------- MODULE Leadership -----------------------------
(***************************************************************************)
(* How the game servers agree on a leader (server/leadership.go and the    *)
(* end of main in server/main.go).  There are no votes and no messages     *)
(* about leaders: each server asks every server's /health, takes the       *)
(* lowest identifier among those that answered, and looks again every five *)
(* seconds whether the leader it took still answers.                       *)
(*                                                                         *)
(* Abstractions.                                                           *)
(*  - Servers are numbers: the identifiers are compared with sort.Strings  *)
(*    and "server1" < "server2" < "server3".                               *)
(*  - The probes of one check run in parallel goroutines; each gets its    *)
(*    answer, or its error, at a moment of its own.                        *)
(*  - The initial election (three seconds after ENTER, one second at most) *)
(*    is over before the first periodic check (ten seconds after ENTER).   *)
(***************************************************************************)
EXTENDS Naturals

CONSTANTS
  N,            \* the servers are 1..N
  MaxCrashes,   \* bound: crashes in all
  MayLaunch,    \* whether a server may be launched (first or again) after
                \* others have started; if not, all run from the beginning
  MaySuspect    \* whether a server that runs may fail to answer in a second

ASSUME LeadershipAssumption ==
  /\ N \in Nat \ {0}
  /\ MaxCrashes \in Nat
  /\ MayLaunch \in BOOLEAN
  /\ MaySuspect \in BOOLEAN

Server == 1 .. N
NoLeader == 0

VARIABLES
  running,      \* the servers whose process runs (and answers /health)
  leader,       \* leader[s]: currentLeader
  live,         \* live[s]: liveServers
  phase,        \* phase[s]: what s's main and RunHealthChecks are doing
  asked,        \* asked[s]: the servers whose probe by s is over
  answered,     \* answered[s]: liveNow, those of them that answered
  crashes,      \* how many crashes there were
  failStop      \* history: so far all servers ran from the beginning, none was
                \* launched again, and each that ran answered in time

vars == <<running, leader, live, phase, asked, answered, crashes, failStop>>

\* The initial election asks around and votes; a periodic check asks around and
\* decides about the leader it has.
Phase == { "menu", "first", "vote", "idle", "check", "decide" }

LeadershipTypeOK ==
  /\ running \subseteq Server
  /\ leader \in [Server -> Server \cup {NoLeader}]
  /\ live \in [Server -> SUBSET Server]
  /\ phase \in [Server -> Phase]
  /\ asked \in [Server -> SUBSET Server]
  /\ answered \in [Server -> SUBSET Server]
  /\ crashes \in 0 .. MaxCrashes
  /\ failStop \in BOOLEAN
-----------------------------------------------------------------------------
Init ==
  /\ running \in SUBSET Server
  /\ ~ MayLaunch => running = Server
  /\ leader = [s \in Server |-> NoLeader]
  /\ live = [s \in Server |-> {}]
  /\ phase = [s \in Server |-> "menu"]
  /\ asked = [s \in Server |-> {}]
  /\ answered = [s \in Server |-> {}]
  /\ crashes = 0
  /\ failStop = (running = Server)

\* main: the process starts and its API with it; it waits for ENTER.
Launch(s) ==
  /\ MayLaunch
  /\ s \notin running
  /\ running' = running \cup {s}
  /\ failStop' = FALSE
  /\ UNCHANGED <<leader, live, phase, asked, answered, crashes>>

\* s begins to ask around, for the next phase; it answers itself at once.
StartProbes(s, next) ==
  /\ phase' = [phase EXCEPT ![s] = next]
  /\ asked' = [asked EXCEPT ![s] = {s}]
  /\ answered' = [answered EXCEPT ![s] = {s}]

\* The operator presses ENTER, and electNewLeader(nil) begins.
PressEnter(s) ==
  /\ s \in running
  /\ phase[s] = "menu"
  /\ StartProbes(s, "first")
  /\ UNCHANGED <<running, leader, live, crashes, failStop>>

\* RunHealthChecks' ticker ticks, and checkClusterHealth begins.
StartCheck(s) ==
  /\ phase[s] = "idle"
  /\ StartProbes(s, "check")
  /\ UNCHANGED <<running, leader, live, crashes, failStop>>

\* The probe of r, which runs, answers.
ProbeAnswered(s, r) ==
  /\ phase[s] \in { "first", "check" }
  /\ r \in Server \ asked[s]
  /\ r \in running
  /\ asked' = [asked EXCEPT ![s] = @ \cup {r}]
  /\ answered' = [answered EXCEPT ![s] = @ \cup {r}]
  /\ UNCHANGED <<running, leader, live, phase, crashes, failStop>>

\* The probe of r goes wrong.
ProbeFails(s, r) ==
  /\ phase[s] \in { "first", "check" }
  /\ r \in Server \ asked[s]
  /\ r \in running => MaySuspect
  /\ asked' = [asked EXCEPT ![s] = @ \cup {r}]
  /\ failStop' = (failStop /\ r \notin running)
  /\ UNCHANGED <<running, leader, live, phase, answered, crashes>>

\* The first of sort.Strings.
Lowest(ids) == CHOOSE r \in ids : \A q \in ids : r <= q

\* What comes after the probes.
AfterProbes(p) == IF p = "first" THEN "vote" ELSE "decide"

\* Mutant: the leader so far is entered as alive, also when there was none.
PublishWithLeader(s) ==
  /\ phase[s] \in { "first", "check" }
  /\ asked[s] = Server
  /\ live' = [live EXCEPT ![s] = answered[s] \cup {leader[s]}]
  /\ phase' = [phase EXCEPT ![s] = AfterProbes(@)]
  /\ UNCHANGED <<running, leader, asked, answered, crashes, failStop>>

\* All probes are over: liveServers becomes liveNow, s itself included.  Who leads
\* is settled afterwards, under another mutex: in between, the leader s follows may
\* be missing in its list.
PublishLive(s) ==
  /\ phase[s] \in { "first", "check" }
  /\ asked[s] = Server
  /\ live' = [live EXCEPT ![s] = answered[s]]
  /\ phase' = [phase EXCEPT ![s] = AfterProbes(@)]
  /\ UNCHANGED <<running, leader, asked, answered, crashes, failStop>>

\* Back to waiting, with this leader.  (electNewLeader writes liveServers once
\* more, with the same map.)
Follow(s, l) ==
  /\ leader' = [leader EXCEPT ![s] = l]
  /\ phase' = [phase EXCEPT ![s] = "idle"]
  /\ asked' = [asked EXCEPT ![s] = {}]
  /\ answered' = [answered EXCEPT ![s] = {}]
  /\ UNCHANGED <<running, live, crashes, failStop>>

\* electNewLeader(nil) takes the lowest of those that answered (s itself is
\* among them, so there is one).
FirstElection(s) ==
  /\ phase[s] = "vote"
  /\ Follow(s, Lowest(answered[s]))

\* Mutant: the highest identifier wins a new election.
ElectsHighest(s) ==
  /\ phase[s] = "decide"
  /\ Follow(s, IF leader[s] \in answered[s] THEN leader[s]
               ELSE CHOOSE r \in answered[s] : \A q \in answered[s] : q <= r)

\* Mutant: the check updates liveServers only.
KeepsLeader(s) ==
  /\ phase[s] = "decide"
  /\ Follow(s, leader[s])

\* The rest of checkClusterHealth: a leader that answered is kept, another is
\* replaced by the lowest of those that did.
DecideLeader(s) ==
  /\ phase[s] = "decide"
  /\ Follow(s, IF leader[s] \in answered[s] THEN leader[s] ELSE Lowest(answered[s]))

\* A process dies, and with it all it knows.
Crash(s) ==
  /\ s \in running
  /\ crashes < MaxCrashes
  /\ crashes' = crashes + 1
  /\ running' = running \ {s}
  /\ leader' = [leader EXCEPT ![s] = NoLeader]
  /\ live' = [live EXCEPT ![s] = {}]
  /\ phase' = [phase EXCEPT ![s] = "menu"]
  /\ asked' = [asked EXCEPT ![s] = {}]
  /\ answered' = [answered EXCEPT ![s] = {}]
  /\ UNCHANGED failStop

Probe(s) == \E r \in Server : ProbeAnswered(s, r) \/ ProbeFails(s, r)

\* main and then RunHealthChecks get on, in a process that runs.
GetOn(s) == \/ PressEnter(s) \/ StartCheck(s) \/ Probe(s) \/ PublishLive(s)
            \/ FirstElection(s) \/ DecideLeader(s)

Proceed(s) == Launch(s) \/ GetOn(s)

Next == \E s \in Server : Proceed(s) \/ Crash(s)

Spec == Init /\ [][Next]_vars

\* ENTER gets pressed on every server (README, step 6), tickers tick, probes
\* end after a second at most, and code that nothing blocks runs on.  Nothing
\* makes servers start or crash.
Fairness ==
  \A s \in Server : /\ WF_vars(PressEnter(s))
                    /\ WF_vars(StartCheck(s))
                    /\ WF_vars(Probe(s))
                    /\ WF_vars(PublishLive(s))
                    /\ WF_vars(FirstElection(s) \/ DecideLeader(s))

FairSpec == Spec /\ Fairness
-----------------------------------------------------------------------------
\* handleLeaderConnect asks this: does s take itself for the leader?
IsLeader(s) == s \in running /\ leader[s] = s

\* As long as all servers have run from the beginning, none was launched again and
\* each that ran answered in time, two never take themselves for the leader at the
\* same time, whoever dies while others ask around.
OneLeader ==
  failStop => \A r, s \in Server : IsLeader(r) /\ IsLeader(s) => r = s

\* The inductive invariant behind OneLeader.  A check in progress misses nobody
\* who runs, and who a server follows is at most any server that runs: servers
\* only ever leave, so an old view has too many candidates, never too few.
FailStopInv ==
  failStop =>
    \A s \in Server : /\ asked[s] \cap running \subseteq answered[s]
                      /\ phase[s] \in { "vote", "decide" } => asked[s] = Server
                      /\ leader[s] # NoLeader => \A r \in running : leader[s] <= r

\* Even when servers are launched late or again and some that run fail to answer
\* in time: once the crashes are over every server follows a leader that runs.
LeaderRuns ==
  <>[](\A s \in running : leader[s] \in running)

\* README, "Sistema de Eleicao de Lider": the lowest identifier among the
\* servers alive leads, if all run from the beginning and answer in time.  (One
\* that is launched late leads itself only: the others elect when their leader
\* does not answer.)
LowestLeads ==
  <>[](failStop => \A s \in running : leader[s] = Lowest(running))
=============================================================================
