-------------------------- MODULE RunnerSupervision --------------------------
(***************************************************************************)
(* Who runs the ingest consumer: the watchdog keeps a supervisor process,  *)
(* the supervisor keeps a consumer, an operator may start either by hand.  *)
(* Two file locks decide, the gate of the supervisors and the lock of the  *)
(* consumers; the operating system frees them with their process.          *)
(*                                                                         *)
(* Processes are named by their numbers, which are used again.             *)
(***************************************************************************)
EXTENDS FiniteSets, Naturals

CONSTANTS
    Services,   \* processes of ingest_runner_service
    Runners,    \* processes of ingest_runner
    None,
    MaxHands,   \* bound: processes started or stopped by hand
    MaxKills    \* bound: processes that die

\* No two processes have one number at a time.
Numbers ==
    /\ Services \cap Runners = {}
    /\ {None, "watchdog"} \cap (Services \cup Runners) = {} /\ None # "watchdog"
ASSUME NumbersAssumption == Numbers

VARIABLES
    watchdog,   \* its runner_supervisor_loop, and the supervisor it started
    service,    \* where each supervisor is, and its consumer with its end
    runner,     \* where each consumer is, and who its parent is
    gate, runLock, \* holders of .runner_service.lock and .runner_consumer.lock
    record,     \* runner_supervisor.json
    pidFile,    \* runner.pid
    hands, kills

ownersVars == <<watchdog, service, runner, gate, runLock, record, pidFile, hands, kills>>

NoService == [at |-> "none", child |-> None, exit |-> None]
NoConsumer == [at |-> "none", parent |-> None]

OwnersInit ==
    /\ watchdog = [at |-> "probe", child |-> None]
    /\ service = [v \in Services |-> NoService]
    /\ runner = [c \in Runners |-> NoConsumer]
    /\ gate = None /\ runLock = None
    /\ record = [pid |-> None, child |-> None, active |-> FALSE]
    /\ pidFile = None
    /\ hands = 0 /\ kills = 0

Hand == hands < MaxHands /\ hands' = hands + 1
Kill == kills < MaxKills /\ kills' = kills + 1

Owners   == UNCHANGED <<gate, runLock>>
Files    == UNCHANGED <<record, pidFile>>
Counters == UNCHANGED <<hands, kills>>

ServiceAt(v, phase)  == service[v].at = phase
ConsumerAt(c, phase) == runner[c].at = phase
GoService(v, phase)  == service' = [service EXCEPT ![v].at = phase]
GoConsumer(c, phase) == runner' = [runner EXCEPT ![c].at = phase]
FreedBy(p, held)     == IF held = p THEN None ELSE held

-----------------------------------------------------------------------------
\* Operators with a suffix after an underscore are faulty variants: they show
\* which property would notice, and no specification uses them.

(* runner_supervisor_loop of the watchdog.                                 *)

\* supervisor_is_running takes the gate for a moment; who holds it is adopted.
Running_ByRecord == record.active \/ gate # None
Running == gate # None
Probe ==
    /\ watchdog.at = "probe" /\ ~Running
    /\ gate' = "watchdog" /\ watchdog' = [watchdog EXCEPT !.at = "probing"]
    /\ UNCHANGED <<service, runner, runLock>> /\ Files /\ Counters
ProbeEnds ==
    /\ watchdog.at = "probing"
    /\ gate' = None /\ watchdog' = [watchdog EXCEPT !.at = "spawn"]
    /\ UNCHANGED <<service, runner, runLock>> /\ Files /\ Counters
SpawnService(v) ==
    /\ watchdog.at = "spawn" /\ ServiceAt(v, "none")
    /\ GoService(v, "gate")
    /\ watchdog' = [at |-> "wait", child |-> v]
    /\ UNCHANGED runner /\ Owners /\ Files /\ Counters
ServiceGone ==
    /\ watchdog.at = "wait" /\ ServiceAt(watchdog.child, "none")
    /\ watchdog' = [at |-> "probe", child |-> None]
    /\ UNCHANGED <<service, runner>> /\ Owners /\ Files /\ Counters

WatchdogStep ==
    Probe \/ ProbeEnds \/ ServiceGone \/ \E v \in Services : SpawnService(v)

-----------------------------------------------------------------------------
(* ingest_runner_service.                                                  *)

StartByHand(v) ==
    /\ Hand /\ ServiceAt(v, "none")
    \* a number that nobody waits for
    /\ watchdog.child # v
    /\ \A c \in Runners : runner[c].parent # v
    /\ GoService(v, "gate")
    /\ UNCHANGED <<watchdog, runner, kills>> /\ Owners /\ Files

\* The loser leaves the record of the winner alone.
Refuse_Writes(v) ==
    /\ service' = [service EXCEPT ![v] = NoService] /\ gate' = FreedBy(v, gate)
    /\ record' = [pid |-> v, child |-> None, active |-> FALSE]
Refuse(v) ==
    /\ service' = [service EXCEPT ![v] = NoService] /\ gate' = FreedBy(v, gate)
    /\ UNCHANGED record

Gate(v) ==
    /\ ServiceAt(v, "gate")
    /\ \/ gate = None /\ gate' = v /\ GoService(v, "probe") /\ UNCHANGED record
       \/ gate # None /\ Refuse(v)
    /\ UNCHANGED <<watchdog, runner, runLock, pidFile>> /\ Counters
ProbeLock(v) ==
    /\ ServiceAt(v, "probe")
    /\ \/ runLock = None /\ runLock' = v /\ GoService(v, "probing") /\ UNCHANGED <<gate, record>>
       \/ runLock # None /\ Refuse(v) /\ UNCHANGED runLock
    /\ UNCHANGED <<watchdog, runner, pidFile>> /\ Counters
LockProbed(v) ==
    /\ ServiceAt(v, "probing")
    /\ runLock' = None /\ GoService(v, "legacy")
    /\ UNCHANGED <<watchdog, runner, gate>> /\ Files /\ Counters

\* legacy_runner_is_live: the process that runner.pid names.
LegacyFor(p) == pidFile \notin {None, p} /\ ~ConsumerAt(pidFile, "none")
Supervise(v) ==
    /\ ServiceAt(v, "legacy")
    /\ \/ LegacyFor(v) /\ Refuse(v)
       \/ /\ ~LegacyFor(v) /\ GoService(v, "run") /\ UNCHANGED gate
          /\ record' = [pid |-> v, child |-> None, active |-> TRUE]
    /\ UNCHANGED <<watchdog, runner, runLock, pidFile>> /\ Counters

\* The child is started, then its number recorded.
SpawnConsumer(v, c) ==
    /\ ServiceAt(v, "run") /\ ConsumerAt(c, "none")
    /\ service' = [service EXCEPT ![v] = [at |-> "spawned", child |-> c, exit |-> None]]
    /\ runner' = [runner EXCEPT ![c] = [at |-> "gate", parent |-> v]]
    /\ UNCHANGED watchdog /\ Owners /\ Files /\ Counters
RecordChild(v) ==
    /\ ServiceAt(v, "spawned")
    /\ GoService(v, "wait")
    /\ record' = [record EXCEPT !.child = service[v].child]
    /\ UNCHANGED <<watchdog, runner, pidFile>> /\ Owners /\ Counters

\* Exit code 4: another consumer is there, the supervisor leaves it to it.
Conflict(v) ==
    /\ ServiceAt(v, "wait") /\ service[v].exit = "conflict"
    /\ service' = [service EXCEPT ![v] = NoService] /\ gate' = FreedBy(v, gate)
    /\ record' = [record EXCEPT !.child = None, !.active = FALSE]
    /\ UNCHANGED <<watchdog, runner, runLock, pidFile>> /\ Counters
RestartChild(v) ==
    /\ ServiceAt(v, "wait") /\ service[v].exit = "other"
    /\ service' = [service EXCEPT ![v] = [at |-> "run", child |-> None, exit |-> None]]
    /\ record' = [record EXCEPT !.child = None]
    /\ UNCHANGED <<watchdog, runner, pidFile>> /\ Owners /\ Counters

ServiceStep(v) ==
    \/ Gate(v) \/ ProbeLock(v) \/ LockProbed(v) \/ Supervise(v)
    \/ (\E c \in Runners : SpawnConsumer(v, c))
    \/ RecordChild(v) \/ Conflict(v) \/ RestartChild(v)

-----------------------------------------------------------------------------
(* ingest_runner.                                                          *)

StartDirectly(c) ==
    /\ Hand /\ ConsumerAt(c, "none")
    /\ \A v \in Services : service[v].child # c
    /\ runner' = [runner EXCEPT ![c] = [at |-> "gate", parent |-> "shell"]]
    /\ UNCHANGED <<watchdog, service, kills>> /\ Owners /\ Files

\* What its parent learns, if it has one that lives.
Ended(c, exit) ==
    /\ runner' = [runner EXCEPT ![c] = NoConsumer]
    /\ service' = [v \in Services |->
                     IF service[v].child = c THEN [service[v] EXCEPT !.exit = exit]
                     ELSE service[v]]
    /\ gate' = FreedBy(c, gate) /\ runLock' = FreedBy(c, runLock)

IsChild(c) ==
    /\ record.active /\ record.pid = runner[c].parent
    /\ record.child \in {None, c}
PassGate(c) ==
    /\ ConsumerAt(c, "gate")
    /\ \/ /\ gate = None /\ gate' = c /\ GoConsumer(c, "lock")
          /\ UNCHANGED <<service, runLock>>
       \/ gate # None /\ IsChild(c) /\ GoConsumer(c, "lock") /\ UNCHANGED <<service, gate, runLock>>
       \/ gate # None /\ ~IsChild(c) /\ Ended(c, "conflict")
    /\ UNCHANGED watchdog /\ Files /\ Counters
TakeLock(c) ==
    /\ ConsumerAt(c, "lock")
    /\ \/ runLock = None /\ runLock' = c /\ GoConsumer(c, "legacy") /\ UNCHANGED <<service, gate>>
       \/ runLock # None /\ Ended(c, "conflict")
    /\ UNCHANGED watchdog /\ Files /\ Counters
Begin(c) ==
    /\ ConsumerAt(c, "legacy") /\ UNCHANGED watchdog /\ Counters
    /\ \/ LegacyFor(c) /\ Ended(c, "conflict") /\ Files
       \/ /\ ~LegacyFor(c) /\ GoConsumer(c, "run")
          /\ pidFile' = c /\ UNCHANGED <<service, record>> /\ Owners

RunnerStep(c) == PassGate(c) \/ TakeLock(c) \/ Begin(c)

-----------------------------------------------------------------------------
(* Ends from outside.                                                      *)

\* A consumer is told to stop, which removes runner.pid, or dies.
StopConsumer(c) ==
    /\ Hand /\ ConsumerAt(c, "run")
    /\ Ended(c, "other") /\ pidFile' = None
    /\ UNCHANGED <<watchdog, record, kills>>
\* A supervisor that is told to stop takes its consumer with it.
DiesWith(v, c) == ~ConsumerAt(c, "none") /\ runner[c].parent = v
TakesChildren(v) ==
    LET children == {c \in Runners : DiesWith(v, c)} IN
    /\ runner' = [c \in Runners |-> IF c \in children THEN NoConsumer ELSE runner[c]]
    /\ gate' = IF gate \in children \cup {v} THEN None ELSE gate
    /\ runLock' = IF runLock \in children \cup {v} THEN None ELSE runLock
StopService(v) ==
    /\ Hand /\ service[v].at \in {"run", "spawned", "wait"}
    /\ service' = [service EXCEPT ![v] = NoService] /\ TakesChildren(v)
    /\ record' = [record EXCEPT !.child = None, !.active = FALSE]
    /\ UNCHANGED <<watchdog, pidFile, kills>>
KillConsumer(c) ==
    /\ Kill /\ ~ConsumerAt(c, "none")
    /\ Ended(c, "other")
    /\ UNCHANGED <<watchdog, hands>> /\ Files

\* With a supervisor its consumer dies, or lives on with another parent.
Orphans(v) ==
    /\ \E c \in Runners : DiesWith(v, c)
    /\ runner' = [c \in Runners |-> IF DiesWith(v, c)
                      THEN [runner[c] EXCEPT !.parent = "init"] ELSE runner[c]]
    /\ gate' = FreedBy(v, gate) /\ runLock' = FreedBy(v, runLock)
KillService(v) ==
    /\ Kill /\ ~ServiceAt(v, "none")
    /\ service' = [service EXCEPT ![v] = NoService]
    /\ TakesChildren(v) \/ Orphans(v)
    /\ UNCHANGED <<watchdog, hands>> /\ Files

\* The watchdog is started again; its supervisor may live on.
KillWatchdog ==
    /\ Kill
    /\ watchdog' = [at |-> "probe", child |-> None]
    /\ gate' = FreedBy("watchdog", gate)
    /\ UNCHANGED <<service, runner, runLock, hands>> /\ Files

OwnersNext ==
    \/ WatchdogStep \/ KillWatchdog
    \/ \E v \in Services : \/ ServiceStep(v) \/ StartByHand(v)
                            \/ StopService(v) \/ KillService(v)
    \/ \E c \in Runners : \/ RunnerStep(c) \/ StartDirectly(c)
                            \/ StopConsumer(c) \/ KillConsumer(c)

OwnersSpec == OwnersInit /\ [][OwnersNext]_ownersVars

\* Every process goes on, and every wait of the supervision has a timeout.
OwnersFairness ==
    /\ WF_ownersVars(WatchdogStep)
    /\ \A v \in Services : WF_ownersVars(ServiceStep(v))
    /\ \A c \in Runners : WF_ownersVars(RunnerStep(c))
OwnersFairSpec == OwnersSpec /\ OwnersFairness

-----------------------------------------------------------------------------
(* Correctness.                                                            *)

\* Whoever starts a consumer, and however processes die and leave others
\* behind, one consumer works on the queue.
OneConsumer ==
    \A c, d \in Runners : ConsumerAt(c, "run") /\ ConsumerAt(d, "run") => c = d

\* runner_supervisor.json is the record of the supervisor that won: as long as
\* one supervises, its number is there, and no supervisor that was refused or
\* died before has written over it.
Supervises(v) == service[v].at \in {"run", "spawned", "wait"}
RecordIsTheOwners ==
    \A v \in Services : Supervises(v) => record.active /\ record.pid = v

\* Both: the locks name one consumer, the record names its supervisor.
OwnersAreClear == OneConsumer /\ RecordIsTheOwners

\* After the last death a consumer comes back and stays, without anybody's
\* help: no refusal, stale record or lock of a dead process keeps it away.
Runs == \E c \in Runners : ConsumerAt(c, "run")
ConsumerStays == <>[]Runs
=============================================================================
