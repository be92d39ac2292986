------------------------------ MODULE RunnerPool ------------------------------
(***************************************************************************)
(* The ingest runner: the main thread claims tasks for the slots of a      *)
(* thread pool, a slot asks the model, submits the answer and hands a      *)
(* refusal back for repair; the slots report to one circuit, kept in a     *)
(* file, that pauses the backend after FailureLimit failures in a row.     *)
(***************************************************************************)
EXTENDS FiniteSetsExt, Naturals

CONSTANTS
    Tasks, Slots,
    Limit,           \* tasks one cycle claims
    FailureLimit,    \* FAILURE_LIMIT
    RepairAttempts,  \* REPAIR_ATTEMPTS
    MaxTries,        \* MAX_INGEST_ATTEMPTS
    MaxFaults        \* bound: crashes, faults of the host, writes that fail

\* What the settings of the runner and its bounds are.
Settings ==
    /\ {Limit, RepairAttempts, MaxFaults} \subseteq Nat
    /\ {FailureLimit, MaxTries} \subseteq Nat \ {0}
    /\ IsFiniteSet(Tasks) /\ IsFiniteSet(Slots) /\ "main" \notin Slots
ASSUME SettingsAssumption == Settings

VARIABLES
    task,     \* ready, leased, failed (dispatched again), done or spent; attempts
    circuit,  \* failures in a row, and whether retry_at is ahead
    stateFile, \* runner_backend_state.json
    main,     \* where process_once is, and what the cycle has claimed
    slot,     \* what each slot does, for which task, after how many repairs
    late,     \* history: claims and calls begun while the backend was paused
    unsaved,  \* history: the last write of the file failed
    faults

poolVars == <<task, circuit, stateFile, main, slot, late, unsaved, faults>>

Closed == [failures |-> 0, waits |-> FALSE]
Free   == [at |-> "free", rounds |-> 0]
NoLate == [x \in Slots \cup {"main"} |-> 0]

PoolInit ==
    /\ task = [t \in Tasks |-> [st |-> "ready", tries |-> 0]]
    /\ circuit = Closed /\ stateFile = Closed
    /\ main = [at |-> "sleep", claimed |-> 0]
    /\ slot = [s \in Slots |-> Free]
    /\ late = NoLate /\ unsaved = FALSE /\ faults = 0

Open  == circuit.failures = FailureLimit
Ready == ~Open /\ ~circuit.waits

Fault == faults < MaxFaults /\ faults' = faults + 1

At(s, phase) == slot[s].at = phase
Holds(s, t)  == slot[s].at \notin {"free", "over", "lost"} /\ slot[s].task = t
Go(s, phase) == slot' = [slot EXCEPT ![s].at = phase]
Late(x)      == late' = IF Open THEN [late EXCEPT ![x] = @ + 1] ELSE late

-----------------------------------------------------------------------------
\* Operators with a suffix after an underscore are faulty variants: they show
\* which property would notice, and no specification uses them.

(* BackendCircuit.                                                         *)

\* What is in memory is changed first; a write that fails raises.
Becomes(state) == /\ circuit' = state /\ stateFile' = state
                  /\ unsaved' = FALSE /\ UNCHANGED faults
OnlyMemory(state) == /\ circuit' = state /\ UNCHANGED stateFile
                     /\ unsaved' = TRUE /\ Fault

AfterFailure ==
    LET n == Min({FailureLimit, circuit.failures + 1})
    IN  [failures |-> n, waits |-> n < FailureLimit]

\* A success that comes late does not undo the pause.
Undoes_Any == circuit.failures > 0
Undoes == circuit.failures > 0 /\ ~Open

CoolDown ==
    /\ circuit.waits
    /\ circuit' = [circuit EXCEPT !.waits = FALSE]
    /\ stateFile' = [stateFile EXCEPT !.waits = FALSE]
    /\ UNCHANGED <<task, main, slot, late, unsaved, faults>>

-----------------------------------------------------------------------------
(* What becomes of a task: finalize_ingest, record_ingest_failure,         *)
(* release_job_for_retry; then dispatch and recovery of leases.            *)

Done(t) == task' = [task EXCEPT ![t].st = "done"]
Released(t) == task' = [task EXCEPT ![t].st = "failed"]
Charged(t) ==
    task' = [task EXCEPT ![t] = [tries |-> @.tries + 1,
                 st |-> IF @.tries + 1 < MaxTries THEN "failed" ELSE "spent"]]

Redispatch(t) ==
    /\ task[t].st = "failed"
    /\ task' = [task EXCEPT ![t].st = "ready"]
    /\ UNCHANGED <<circuit, stateFile, main, slot, late, unsaved, faults>>
TaskLeaseLapses(t) ==
    /\ task[t].st = "leased" /\ \A s \in Slots : ~Holds(s, t)
    /\ task' = [task EXCEPT ![t].st = "ready"]
    /\ UNCHANGED <<circuit, stateFile, main, slot, late, unsaved, faults>>

-----------------------------------------------------------------------------
(* process_once: a cycle.                                                  *)

Step(phase) == main' = [main EXCEPT !.at = phase]
FreeSlots == {s \in Slots : At(s, "free")}
Room == Min({Cardinality(FreeSlots), Limit - main.claimed})

Cycle ==
    /\ main.at = "sleep" /\ Ready
    /\ main' = [at |-> "fill", claimed |-> 0]
    /\ UNCHANGED <<task, circuit, stateFile, slot, late, unsaved, faults>>

\* claim_slots looks at the circuit, then leases tasks.
Fill ==
    /\ main.at = "fill"
    /\ Step(IF Room > 0 /\ Ready THEN "claim" ELSE "wait")
    /\ UNCHANGED <<task, circuit, stateFile, slot, late, unsaved, faults>>

Claim ==
    LET ready == {t \in Tasks : task[t].st = "ready"}
        n == Min({Room, Cardinality(ready)})
    IN  /\ main.at = "claim"
        /\ \E T \in kSubset(n, ready), S \in kSubset(n, FreeSlots) :
             \E give \in [S -> T] :
               /\ \A a, b \in S : give[a] = give[b] => a = b
               /\ task' = [t \in Tasks |-> IF t \in T THEN [task[t] EXCEPT !.st = "leased"]
                                           ELSE task[t]]
               /\ slot' = [s \in Slots |->
                             IF s \in S THEN [at |-> "start", rounds |-> 0, task |-> give[s]]
                             ELSE slot[s]]
        /\ main' = [at |-> "wait", claimed |-> main.claimed + n]
        /\ IF n > 0 THEN Late("main") ELSE UNCHANGED late
        /\ UNCHANGED <<circuit, stateFile, unsaved, faults>>

\* The first slots that are through are collected; with none busy the cycle ends.
Finished == {s \in Slots : slot[s].at \in {"over", "lost"}}
Collect ==
    /\ main.at = "wait" /\ Finished # {} /\ \A s \in Finished : At(s, "over")
    /\ slot' = [s \in Slots |-> IF s \in Finished THEN Free ELSE slot[s]]
    /\ Step("fill")
    /\ UNCHANGED <<task, circuit, stateFile, late, unsaved, faults>>
CycleEnds ==
    /\ main.at = "wait" /\ FreeSlots = Slots
    /\ Step("sleep")
    /\ UNCHANGED <<task, circuit, stateFile, slot, late, unsaved, faults>>

\* An exception out of a slot ends the cycle when the other slots are through;
\* if it cannot be counted either, the process ends.
CycleBreaks ==
    /\ main.at = "wait" /\ \E s \in Slots : At(s, "lost")
    /\ \A s \in Slots : slot[s].at \in {"free", "over", "lost"}
    /\ slot' = [s \in Slots |-> Free]
    /\ \/ Becomes(AfterFailure) /\ Step("sleep")
       \/ OnlyMemory(AfterFailure) /\ Step("down")
    /\ UNCHANGED <<task, late>>

MainStep == Cycle \/ Fill \/ Claim \/ Collect \/ CycleEnds \/ CycleBreaks

-----------------------------------------------------------------------------
(* _process_task.                                                          *)

Quiet == UNCHANGED <<circuit, stateFile, unsaved>>

\* What needs no model: a source published already, a packet or a file that
\* cannot be used.
Prepare(s) ==
    /\ At(s, "start") /\ UNCHANGED <<main, late, faults>> /\ Quiet
    /\ \/ Go(s, "round") /\ UNCHANGED task
       \/ Go(s, "over") /\ (Done(slot[s].task) \/ Charged(slot[s].task))

\* An OSError of the dispatch leaves the lease to lapse.
Unavailable(s) ==
    /\ At(s, "start") /\ Fault
    /\ Go(s, "over")
    /\ UNCHANGED <<task, main, late>> /\ Quiet

\* model_round looks at the circuit before each call.
Check_FirstRound(s) ==
    /\ At(s, "round") /\ UNCHANGED <<main, late, faults>> /\ Quiet
    /\ IF Ready \/ slot[s].rounds > 0 THEN Go(s, "armed") /\ UNCHANGED task
       ELSE Go(s, "over") /\ Released(slot[s].task)
Check(s) ==
    /\ At(s, "round") /\ UNCHANGED <<main, late, faults>> /\ Quiet
    /\ IF Ready THEN Go(s, "armed") /\ UNCHANGED task
       ELSE Go(s, "over") /\ Released(slot[s].task)
Call(s) ==
    /\ At(s, "armed")
    /\ Go(s, "call") /\ Late(s)
    /\ UNCHANGED <<task, main, faults>> /\ Quiet

Answered(s) ==
    /\ At(s, "call") /\ UNCHANGED <<task, main, late>>
    /\ \/ ~Undoes /\ Quiet /\ UNCHANGED faults /\ Go(s, "answered")
       \/ Undoes /\ Becomes(Closed) /\ Go(s, "answered")
       \/ Undoes /\ OnlyMemory(Closed) /\ Go(s, "raised")

\* A failure of the delivery costs the backend, a source that changed its task.
CallFails(s) ==
    /\ At(s, "call") /\ UNCHANGED <<main, late>>
    /\ \/ Becomes(AfterFailure) /\ Released(slot[s].task) /\ Go(s, "over")
       \/ OnlyMemory(AfterFailure) /\ UNCHANGED task /\ Go(s, "raised")
SourceChanged(s) ==
    /\ At(s, "call")
    /\ Charged(slot[s].task) /\ Go(s, "over")
    /\ UNCHANGED <<main, late, faults>> /\ Quiet

\* finalize_ingest accepts, refuses what the model may repair, refuses for
\* good, or finds a newer version.
Finalized(s) ==
    /\ At(s, "answered")
    /\ Done(slot[s].task) /\ Go(s, "over")
    /\ UNCHANGED <<main, late, faults>> /\ Quiet
Repair(s) ==
    /\ At(s, "answered") /\ slot[s].rounds < RepairAttempts
    /\ slot' = [slot EXCEPT ![s].at = "round", ![s].rounds = @ + 1]
    /\ UNCHANGED <<task, main, late, faults>> /\ Quiet
AnswerRefused(s) ==
    /\ At(s, "answered")
    /\ Charged(slot[s].task) /\ Go(s, "over")
    /\ UNCHANGED <<main, late, faults>> /\ Quiet
VersionConflict(s) ==
    /\ At(s, "answered") /\ Fault
    /\ Released(slot[s].task) /\ Go(s, "over")
    /\ UNCHANGED <<main, late>> /\ Quiet
FinalizeRaises(s) ==
    /\ At(s, "answered") /\ Fault
    /\ Go(s, "raised")
    /\ UNCHANGED <<task, main, late>> /\ Quiet

\* Whatever was raised counts as a failure of the host.
Caught(s) ==
    /\ At(s, "raised") /\ UNCHANGED <<main, late>>
    /\ \/ Becomes(AfterFailure) /\ Released(slot[s].task) /\ Go(s, "over")
       \/ OnlyMemory(AfterFailure) /\ UNCHANGED task /\ Go(s, "lost")

SlotStep(s) ==
    \/ Prepare(s) \/ Unavailable(s) \/ Check(s) \/ Call(s)
    \/ Answered(s) \/ CallFails(s) \/ SourceChanged(s)
    \/ Finalized(s) \/ Repair(s) \/ AnswerRefused(s) \/ VersionConflict(s) \/ FinalizeRaises(s)
    \/ Caught(s)

-----------------------------------------------------------------------------
\* The process is killed; the calls it made die with it.
Crash ==
    /\ main.at # "down" /\ Fault
    /\ Step("down") /\ slot' = [s \in Slots |-> Free]
    /\ UNCHANGED <<task, circuit, stateFile, late, unsaved>>

\* A new process reads the file; --reset-backend writes it anew.
Restart ==
    /\ main.at = "down"
    /\ main' = [at |-> "sleep", claimed |-> 0]
    /\ circuit' = stateFile /\ late' = NoLate /\ unsaved' = FALSE
    /\ UNCHANGED <<task, stateFile, slot, faults>>
OwnerResets ==
    /\ main.at = "down"
    /\ main' = [at |-> "sleep", claimed |-> 0]
    /\ circuit' = Closed /\ stateFile' = Closed /\ late' = NoLate /\ unsaved' = FALSE
    /\ UNCHANGED <<task, slot, faults>>

PoolNext ==
    \/ MainStep \/ CoolDown \/ Crash \/ Restart \/ OwnerResets
    \/ \E s \in Slots : SlotStep(s)
    \/ \E t \in Tasks : Redispatch(t) \/ TaskLeaseLapses(t)

PoolSpec == PoolInit /\ [][PoolNext]_poolVars

\* Threads go on, calls end by their deadline, cooldowns and leases run out,
\* the worker dispatches what is due.
PoolFairness ==
    /\ WF_poolVars(MainStep) /\ WF_poolVars(CoolDown) /\ WF_poolVars(Restart)
    /\ \A s \in Slots : WF_poolVars(SlotStep(s))
    /\ \A t \in Tasks : WF_poolVars(Redispatch(t)) /\ WF_poolVars(TaskLeaseLapses(t))
PoolFairSpec == PoolSpec /\ PoolFairness

-----------------------------------------------------------------------------
(* Correctness.                                                            *)

\* Type invariant.
PoolTypeOK ==
    /\ task \in [Tasks -> [st : {"ready", "leased", "failed", "done", "spent"},
                           tries : 0..MaxTries]]
    /\ {circuit, stateFile} \subseteq [failures : 0..FailureLimit, waits : BOOLEAN]
    /\ main \in [at : {"down", "sleep", "fill", "claim", "wait"}, claimed : 0..Limit]
    /\ \A s \in Slots : /\ slot[s].at \in {"free", "start", "round", "armed", "call",
                                           "answered", "raised", "over", "lost"}
                        /\ slot[s].rounds \in 0..RepairAttempts
                        /\ ~At(s, "free") => slot[s].task \in Tasks
    /\ late \in [Slots \cup {"main"} -> Nat]
    /\ unsaved \in BOOLEAN /\ faults \in 0..MaxFaults

\* Once the backend is paused, what was past its check may go on and nothing
\* else: a slot begins at most one call more, the main thread claims once more;
\* and no task is in two slots.
OneLastCall ==
    /\ \A x \in Slots \cup {"main"} : late[x] <= 1
    /\ \A s, u \in Slots, t \in Tasks :
           Holds(s, t) => /\ task[t].st = "leased"
                          /\ Holds(u, t) => s = u

\* A paused backend is reopened by its owner only: not by an answer that comes
\* late, nor by a restart, unless the pause could not be written.
OwnerStep == Open => Open' \/ OwnerResets \/ (unsaved /\ Restart)
OnlyOwnerReopens == [][OwnerStep]_poolVars

\* A source converges: it is finalized or runs out of attempts, or its failures
\* pause the backend.
SourcesConverge ==
    \A t \in Tasks : <>(task[t].st \in {"done", "spent"} \/ Open)
=============================================================================
