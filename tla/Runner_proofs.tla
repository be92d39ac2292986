---------------------------- MODULE Runner_proofs ----------------------------
(***************************************************************************)
(* Proofs about what runs the ingest jobs: the pool inside a process       *)
(* (RunnerPool) and the processes themselves (RunnerSupervision).          *)
(*                                                                         *)
(* Pool, for any number of tasks and slots and every setting: no task is   *)
(* in two slots; a paused backend gets at most one call more from a slot   *)
(* and one claim more from the main thread; and only the owner reopens it. *)
(* A pause lasts as long as the process: no step but a new start takes the *)
(* count of failures from its limit. So what was late once has passed its  *)
(* check before the pause, and the next check stops it. Between processes  *)
(* the pause is in the file, which says what memory says unless the last   *)
(* write of it failed.                                                     *)
(*                                                                         *)
(* Processes, any number of them, however many are started, stopped or     *)
(* die: one consumer works on the queue, and the record of the supervisor  *)
(* that supervises stays its own. The two file locks carry the argument. A *)
(* supervisor that got through the gate has it until its process ends, and *)
(* a consumer that got its lock has it until its own process ends; a probe *)
(* that opens a lock again gives up its own hold only. So neither          *)
(* statement is inductive without the holders of the locks, those of the   *)
(* probes included.                                                        *)
(***************************************************************************)
EXTENDS RunnerPool, RunnerSupervision, FiniteSetTheorems, TLAPS

-----------------------------------------------------------------------------
(* RunnerPool: the invariant.                                              *)

Circuits == [failures : 0 .. FailureLimit, waits : BOOLEAN]
Phases == {"start", "round", "armed", "call", "answered", "raised", "over", "lost"}
Busy == {"start", "round", "armed", "call", "answered", "raised"}
Work == [at : Phases, rounds : 0 .. RepairAttempts, task : Tasks]
States == {"ready", "leased", "failed", "done", "spent"}
Mains == [at : {"down", "sleep", "fill", "claim", "wait"}, claimed : 0 .. Limit]
Jobs == [st : States, tries : 0 .. MaxTries]

\* Types, with the shape of a slot's record.
PoolShape ==
    /\ task \in [Tasks -> Jobs]
    /\ circuit \in Circuits /\ stateFile \in Circuits /\ unsaved \in BOOLEAN
    /\ slot \in [Slots -> {Free} \cup Work]
    /\ main \in Mains
    /\ late \in [Slots \cup {"main"} -> Nat] /\ faults \in 0 .. MaxFaults

\* Who holds a task has its lease, and nobody else holds it.
Leases ==
    \A s, u \in Slots, t \in Tasks :
        Holds(s, t) => task[t].st = "leased" /\ (Holds(u, t) => s = u)

\* A task that can be tried again has an attempt left.
Tries == \A t \in Tasks : task[t].st \in {"ready", "leased", "failed"}
                             => task[t].tries < MaxTries

\* Who was late was so once, in a pause that lasts, and is not past its check.
LateOnce ==
    /\ \A s \in Slots : late[s] <= 1 /\ (late[s] # 0 => Open /\ ~At(s, "armed"))
    /\ late["main"] <= 1 /\ (late["main"] # 0 => Open /\ main.at # "claim")

\* What is in memory is in the file, unless that could not be written.
Saved == ~unsaved => stateFile = circuit

PoolInv == PoolShape /\ Leases /\ Tries /\ LateOnce /\ Saved

-----------------------------------------------------------------------------
(* The circuit.                                                            *)

(* Counting a failure keeps the count within its limit and never ends a    *)
(* pause.                                                                  *)
LEMMA FailureCounts ==
    ASSUME Settings, circuit \in Circuits
    PROVE  /\ AfterFailure \in Circuits
           /\ Open => AfterFailure.failures = FailureLimit
  <1> DEFINE c == circuit.failures
             n == Min({FailureLimit, c + 1})
  <1>1. c \in 0 .. FailureLimit /\ FailureLimit \in Nat
    BY DEF Settings, Circuits
  <1>2. \E x \in {FailureLimit, c + 1} : \A y \in {FailureLimit, c + 1} : x =< y
    <2>1. FailureLimit =< c + 1 \/ c + 1 =< FailureLimit
      BY <1>1
    <2>2. QED
      BY <1>1, <2>1
  <1>3. n \in {FailureLimit, c + 1} /\ n =< FailureLimit /\ n =< c + 1
    BY <1>2 DEF Min
  <1> HIDE DEF n
  <1>4. n \in 0 .. FailureLimit /\ (c = FailureLimit => n = FailureLimit)
    BY <1>1, <1>3
  <1>5. AfterFailure = [failures |-> n, waits |-> n < FailureLimit]
    BY DEF AfterFailure, n
  <1>6. QED
    BY <1>4, <1>5 DEF Circuits, Open

\* What the steps of one process do to the circuit.
Reports ==
    /\ UNCHANGED faults \/ Fault
    /\ \/ UNCHANGED <<circuit, stateFile, unsaved>>
       \/ CoolDown
       \/ Becomes(AfterFailure) \/ OnlyMemory(AfterFailure)
       \/ Undoes /\ (Becomes(Closed) \/ OnlyMemory(Closed))

\* What a step reports to the circuit keeps its types, its file and its
\* pause.
LEMMA ReportsKeep ==
    ASSUME Settings, PoolInv, Reports
    PROVE  /\ circuit' \in Circuits /\ stateFile' \in Circuits /\ unsaved' \in BOOLEAN
           /\ Saved' /\ (Open => Open') /\ faults' \in 0 .. MaxFaults
  <1>0. faults' \in 0 .. MaxFaults
    <2>1. faults \in 0 .. MaxFaults /\ MaxFaults \in Nat
      BY DEF PoolInv, PoolShape, Settings
    <2>2. QED
      BY <2>1 DEF Reports, Fault
  <1>1. circuit \in Circuits /\ stateFile \in Circuits /\ unsaved \in BOOLEAN /\ Saved
    BY DEF PoolInv, PoolShape
  <1>2. AfterFailure \in Circuits /\ (Open => AfterFailure.failures = FailureLimit)
    BY <1>1, FailureCounts
  <1>3. Closed \in Circuits
    BY DEF Settings, Closed, Circuits
  <1>4. CASE UNCHANGED <<circuit, stateFile, unsaved>>
    BY <1>0, <1>1, <1>4 DEF Saved, Open
  <1>5. CASE CoolDown
    <2>1. /\ circuit' = [circuit EXCEPT !.waits = FALSE]
          /\ stateFile' = [stateFile EXCEPT !.waits = FALSE] /\ UNCHANGED unsaved
      BY <1>5 DEF CoolDown
    <2>2. circuit' \in Circuits /\ stateFile' \in Circuits /\ circuit'.failures = circuit.failures
      BY <1>1, <2>1 DEF Circuits
    <2>3. QED
      BY <1>0, <1>1, <2>1, <2>2 DEF Saved, Open
  <1>6. CASE Becomes(AfterFailure)
    BY <1>0, <1>2, <1>6 DEF Becomes, Saved, Open
  <1>7. CASE OnlyMemory(AfterFailure)
    BY <1>0, <1>1, <1>2, <1>7 DEF OnlyMemory, Saved, Open
  <1>8. CASE Undoes /\ Becomes(Closed)
    BY <1>0, <1>3, <1>8 DEF Undoes, Becomes, Saved, Open
  <1>9. CASE Undoes /\ OnlyMemory(Closed)
    BY <1>0, <1>1, <1>3, <1>9 DEF Undoes, OnlyMemory, Saved, Open
  <1>10. QED
    BY <1>4, <1>5, <1>6, <1>7, <1>8, <1>9 DEF Reports

(* Every step is one of these, but for a new start of the process.         *)
LEMMA StepsReport ==
    ASSUME \/ UNCHANGED poolVars \/ MainStep \/ CoolDown \/ Crash
           \/ \E s \in Slots : SlotStep(s)
           \/ \E t \in Tasks : Redispatch(t) \/ TaskLeaseLapses(t)
    PROVE  Reports
  <1>1. CASE UNCHANGED poolVars
    BY <1>1 DEF poolVars, Reports
  <1>2. CASE MainStep
    BY <1>2 DEF MainStep, Cycle, Fill, Claim, Collect, CycleEnds, CycleBreaks, Reports,
       Becomes, OnlyMemory, Fault
  <1>3. CASE CoolDown \/ Crash
    BY <1>3 DEF Crash, CoolDown, Reports, Fault
  <1>4. CASE \E s \in Slots : SlotStep(s)
    BY <1>4 DEF SlotStep, Prepare, Unavailable, Check, Call, Answered, CallFails, SourceChanged,
       Finalized, Repair, AnswerRefused, VersionConflict, FinalizeRaises, Caught, Quiet, Becomes, OnlyMemory,
       Fault, Reports
  <1>5. CASE \E t \in Tasks : Redispatch(t) \/ TaskLeaseLapses(t)
    BY <1>5 DEF Redispatch, TaskLeaseLapses, Reports
  <1>6. QED
    BY <1>1, <1>2, <1>3, <1>4, <1>5

-----------------------------------------------------------------------------
(* Slots and tasks.                                                        *)

(* The parts of a record of a slot.                                        *)
LEMMA SlotParts ==
    ASSUME NEW w \in {Free} \cup Work, w.at # "free"
    PROVE  /\ w \in Work /\ w.task \in Tasks /\ w.rounds \in 0 .. RepairAttempts
           /\ w.at \in Phases
           /\ \A at \in Phases : /\ [w EXCEPT !.at = at] \in Work
                                 /\ [w EXCEPT !.at = at].at = at
                                 /\ [w EXCEPT !.at = at].task = w.task
  BY DEF Free, Work

(* What becomes of a task that is leased.                                  *)
LEMMA JobOutcomes ==
    ASSUME Settings, PoolInv, NEW t \in Tasks, task[t].st = "leased",
           Done(t) \/ Released(t) \/ Charged(t)
    PROVE  /\ task' \in [Tasks -> Jobs] /\ Tries'
           /\ \A o \in Tasks \ {t} : task'[o] = task[o]
  <1>1. task \in [Tasks -> Jobs] /\ Tries
    BY DEF PoolInv, PoolShape
  <1>2. task[t] \in Jobs /\ task[t].tries < MaxTries /\ task[t].tries \in Nat
        /\ MaxTries \in Nat
    BY <1>1 DEF Tries, Jobs, Settings
  <1>3. CASE Done(t)
    <2> DEFINE j == [task[t] EXCEPT !.st = "done"]
    <2>1. j \in Jobs /\ j.st = "done"
      BY <1>2 DEF Jobs, States
    <2>2. task' = [task EXCEPT ![t] = j]
      BY <1>3 DEF Done
    <2> HIDE DEF j
    <2>3. QED
      BY <1>1, <2>1, <2>2 DEF Tries
  <1>4. CASE Released(t)
    <2> DEFINE j == [task[t] EXCEPT !.st = "failed"]
    <2>1. j \in Jobs /\ j.tries < MaxTries
      BY <1>2 DEF Jobs, States
    <2>2. task' = [task EXCEPT ![t] = j]
      BY <1>4 DEF Released
    <2> HIDE DEF j
    <2>3. QED
      BY <1>1, <2>1, <2>2 DEF Tries
  <1>5. CASE Charged(t)
    <2> DEFINE n == task[t].tries + 1
               j == [tries |-> n, st |-> IF n < MaxTries THEN "failed" ELSE "spent"]
    <2>1. n \in 0 .. MaxTries
      BY <1>2
    <2>2. task' = [task EXCEPT ![t] = j]
      BY <1>5 DEF Charged
    <2> HIDE DEF n
    <2>3. j \in Jobs /\ (j.st = "spent" \/ j.tries < MaxTries)
      BY <2>1 DEF Jobs, States
    <2> HIDE DEF j
    <2>4. QED
      BY <1>1, <2>2, <2>3 DEF Tries
  <1>6. QED
    BY <1>3, <1>4, <1>5

(* A slot that works and moves on: it keeps its task with the lease, or is *)
(* through with it.                                                        *)
LEMMA SlotMoves ==
    ASSUME Settings, PoolInv, NEW s \in Slots, slot[s].at \in Busy, NEW at \in Phases,
           Go(s, at),
           \/ UNCHANGED task
           \/ at = "over" /\ (\/ Done(slot[s].task) \/ Released(slot[s].task)
                              \/ Charged(slot[s].task))
    PROVE  /\ slot' \in [Slots -> {Free} \cup Work] /\ slot'[s].at = at
           /\ \A u \in Slots \ {s} : slot'[u] = slot[u]
           /\ task' \in [Tasks -> Jobs] /\ Tries' /\ Leases'
  <1> DEFINE w == slot[s]
             v == [slot[s] EXCEPT !.at = at]
  <1>1. /\ slot \in [Slots -> {Free} \cup Work] /\ task \in [Tasks -> Jobs]
        /\ Tries /\ Leases
    BY DEF PoolInv, PoolShape
  <1>2. w \in Work /\ w.task \in Tasks /\ v \in Work /\ v.at = at /\ v.task = w.task
    <2>1. w \in {Free} \cup Work /\ w.at # "free"
      BY <1>1 DEF Busy
    <2>2. QED
      BY <2>1, SlotParts
  <1>3. slot' = [slot EXCEPT ![s] = v]
    BY DEF Go
  <1>4. Holds(s, w.task) /\ task[w.task].st = "leased"
    <2>1. Holds(s, w.task)
      BY DEF Holds, Busy
    <2>2. QED
      BY <1>1, <1>2, <2>1 DEF Leases
  <1> HIDE DEF v, w
  <1>5. /\ slot' \in [Slots -> {Free} \cup Work] /\ slot'[s] = v
        /\ \A u \in Slots \ {s} : slot'[u] = slot[u]
    BY <1>1, <1>2, <1>3
  <1>6. task' \in [Tasks -> Jobs] /\ Tries' /\ (\A o \in Tasks \ {w.task} : task'[o] = task[o])
        /\ (at # "over" => task' = task)
    <2>1. CASE UNCHANGED task
      BY <1>1, <2>1 DEF Tries
    <2>2. CASE at = "over" /\ (Done(w.task) \/ Released(w.task) \/ Charged(w.task))
      BY <1>2, <1>4, <2>2, JobOutcomes
    <2>3. QED
      BY <2>1, <2>2 DEF w
  <1>7. ASSUME NEW u \in Slots, NEW t \in Tasks, Holds(u, t)'
        PROVE  Holds(u, t) /\ (u = s => at # "over" /\ t = w.task)
    BY <1>2, <1>4, <1>5, <1>7 DEF Holds, w, Busy
  <1>8. Leases'
    <2>1. ASSUME NEW u \in Slots, NEW x \in Slots, NEW t \in Tasks, Holds(u, t)'
          PROVE  task'[t].st = "leased" /\ (Holds(x, t)' => u = x)
      <3>1. Holds(u, t) /\ task[t].st = "leased" /\ (Holds(x, t) => u = x)
        BY <1>1, <1>7, <2>1 DEF Leases
      <3>2. task'[t] = task[t]
        <4>1. CASE u = s
          BY <1>6, <1>7, <2>1, <4>1
        <4>2. CASE u # s
          <5>1. t # w.task
            BY <1>1, <1>2, <1>4, <3>1, <4>2 DEF Leases
          <5>2. QED
            BY <1>6, <5>1
        <4>3. QED
          BY <4>1, <4>2
      <3>3. QED
        BY <1>7, <3>1, <3>2
    <2>2. QED
      BY <2>1 DEF Leases
  <1>9. QED
    BY <1>2, <1>5, <1>6, <1>8

-----------------------------------------------------------------------------
(* The steps of a slot.                                                    *)

(* A slot that moves keeps the invariant, if it passes its check only while *)
(* the backend is not paused.                                              *)
LEMMA MovesKeep ==
    ASSUME Settings, PoolInv, Reports, NEW s \in Slots, slot[s].at \in Busy,
           NEW at \in Phases, Go(s, at),
           \/ UNCHANGED task
           \/ at = "over" /\ (\/ Done(slot[s].task) \/ Released(slot[s].task)
                              \/ Charged(slot[s].task)),
           UNCHANGED <<main, late>>, at = "armed" => ~Open
    PROVE  PoolInv'
  <1>1. /\ slot' \in [Slots -> {Free} \cup Work] /\ slot'[s].at = at
        /\ \A u \in Slots \ {s} : slot'[u] = slot[u]
        /\ task' \in [Tasks -> Jobs] /\ Tries' /\ Leases'
    BY SlotMoves
  <1>2. /\ circuit' \in Circuits /\ stateFile' \in Circuits /\ unsaved' \in BOOLEAN
        /\ Saved' /\ (Open => Open') /\ faults' \in 0 .. MaxFaults
    BY ReportsKeep
  <1>3. LateOnce /\ late \in [Slots \cup {"main"} -> Nat]
    BY DEF PoolInv, PoolShape
  <1>4. LateOnce'
    BY <1>1, <1>2, <1>3 DEF LateOnce, At
  <1>5. main' \in Mains /\ late' \in [Slots \cup {"main"} -> Nat]
    BY DEF PoolInv, PoolShape
  <1>6. QED
    BY <1>1, <1>2, <1>4, <1>5 DEF PoolInv, PoolShape

\* A call: a slot that begins one after the pause had passed its check before
\* it.
LEMMA CallKeeps ==
    ASSUME Settings, PoolInv, Reports, NEW s \in Slots, Call(s)
    PROVE  PoolInv'
  <1>1. /\ slot' \in [Slots -> {Free} \cup Work] /\ slot'[s].at = "call"
        /\ \A u \in Slots \ {s} : slot'[u] = slot[u]
        /\ task' \in [Tasks -> Jobs] /\ Tries' /\ Leases'
    BY SlotMoves DEF Call, At, Busy, Phases
  <1>2. /\ circuit' \in Circuits /\ stateFile' \in Circuits /\ unsaved' \in BOOLEAN
        /\ Saved' /\ (Open => Open') /\ faults' \in 0 .. MaxFaults
    BY ReportsKeep
  <1>3. LateOnce /\ late \in [Slots \cup {"main"} -> Nat] /\ s # "main"
    BY DEF PoolInv, PoolShape, Settings
  <1>4. late[s] = 0
    BY <1>3 DEF LateOnce, Call
  <1>5. /\ late' \in [Slots \cup {"main"} -> Nat]
        /\ late'[s] <= 1 /\ (late'[s] # 0 => Open)
        /\ \A x \in (Slots \cup {"main"}) \ {s} : late'[x] = late[x]
    BY <1>3, <1>4 DEF Call, Late
  <1>6. LateOnce'
    BY <1>1, <1>2, <1>3, <1>5 DEF LateOnce, At, Call
  <1>7. main' \in Mains
    BY DEF PoolInv, PoolShape, Call
  <1>8. QED
    BY <1>1, <1>2, <1>5, <1>6, <1>7 DEF PoolInv, PoolShape

(* One repair round more.                                                  *)
LEMMA RepairKeeps ==
    ASSUME Settings, PoolInv, Reports, NEW s \in Slots, Repair(s)
    PROVE  PoolInv'
  <1> DEFINE w == [slot[s] EXCEPT !.at = "round", !.rounds = @ + 1]
  <1>1. slot \in [Slots -> {Free} \cup Work] /\ Leases /\ LateOnce
    BY DEF PoolInv, PoolShape
  <1>2. slot[s] \in Work /\ slot[s].at = "answered"
    BY <1>1, SlotParts DEF Repair, At
  <1>3. w \in Work /\ w.at = "round" /\ w.task = slot[s].task
    <2>1. slot[s].rounds + 1 \in 0 .. RepairAttempts
      BY <1>2 DEF Repair, Work, Settings
    <2>2. QED
      BY <1>2, <2>1 DEF Work, Phases
  <1>4. slot' = [slot EXCEPT ![s] = w]
    BY DEF Repair
  <1> HIDE DEF w
  <1>5. /\ slot' \in [Slots -> {Free} \cup Work] /\ slot'[s] = w
        /\ \A u \in Slots \ {s} : slot'[u] = slot[u]
    BY <1>1, <1>3, <1>4
  <1>6. \A u \in Slots, t \in Tasks : Holds(u, t)' <=> Holds(u, t)
    BY <1>2, <1>3, <1>5 DEF Holds
  <1>7. task' = task /\ late' = late /\ main' = main
    BY DEF Repair
  <1>8. Leases' /\ Tries'
    BY <1>1, <1>6, <1>7 DEF Leases, PoolInv, Tries
  <1>9. /\ circuit' \in Circuits /\ stateFile' \in Circuits /\ unsaved' \in BOOLEAN
        /\ Saved' /\ (Open => Open') /\ faults' \in 0 .. MaxFaults
    BY ReportsKeep
  <1>10. LateOnce'
    BY <1>1, <1>3, <1>5, <1>7, <1>9 DEF LateOnce, At
  <1>11. QED
    BY <1>5, <1>7, <1>8, <1>9, <1>10 DEF PoolInv, PoolShape

\* Every step of a slot keeps the invariant.
LEMMA SlotStepKeeps ==
    ASSUME Settings, PoolInv, NEW s \in Slots, SlotStep(s)
    PROVE  PoolInv'
  <1>1. Reports
    BY StepsReport
  <1>2. CASE Prepare(s)
    BY <1>1, <1>2, MovesKeep DEF Prepare, At, Busy, Phases
  <1>3. CASE Unavailable(s)
    BY <1>1, <1>3, MovesKeep DEF Unavailable, At, Busy, Phases
  <1>4. CASE Check(s)
    BY <1>1, <1>4, MovesKeep DEF Check, Ready, At, Busy, Phases
  <1>5. CASE Call(s)
    BY <1>1, <1>5, CallKeeps
  <1>6. CASE Answered(s)
    BY <1>1, <1>6, MovesKeep DEF Answered, At, Busy, Phases
  <1>7. CASE CallFails(s)
    BY <1>1, <1>7, MovesKeep DEF CallFails, At, Busy, Phases
  <1>8. CASE SourceChanged(s)
    BY <1>1, <1>8, MovesKeep DEF SourceChanged, At, Busy, Phases
  <1>9. CASE Finalized(s)
    BY <1>1, <1>9, MovesKeep DEF Finalized, At, Busy, Phases
  <1>10. CASE Repair(s)
    BY <1>1, <1>10, RepairKeeps
  <1>11. CASE AnswerRefused(s)
    BY <1>1, <1>11, MovesKeep DEF AnswerRefused, At, Busy, Phases
  <1>12. CASE VersionConflict(s)
    BY <1>1, <1>12, MovesKeep DEF VersionConflict, At, Busy, Phases
  <1>13. CASE FinalizeRaises(s)
    BY <1>1, <1>13, MovesKeep DEF FinalizeRaises, At, Busy, Phases
  <1>14. CASE Caught(s)
    BY <1>1, <1>14, MovesKeep DEF Caught, At, Busy, Phases
  <1>15. QED
    BY <1>2, <1>3, <1>4, <1>5, <1>6, <1>7, <1>8, <1>9, <1>10, <1>11, <1>12, <1>13, <1>14
       DEF SlotStep

-----------------------------------------------------------------------------
(* The steps of the main thread, of the process and of the worker.         *)

(* A step that only frees slots, and has the main thread claim only while  *)
(* the backend is not paused.                                              *)
LEMMA FreeingKeeps ==
    ASSUME Settings, PoolInv, Reports, UNCHANGED <<task, late>>,
           DOMAIN slot' = Slots, slot' = [s \in DOMAIN slot' |-> slot'[s]],
           \A s \in Slots : slot'[s] = slot[s] \/ slot'[s] = Free, main' \in Mains,
           main'.at = "claim" => ~Open \/ main.at = "claim"
    PROVE  PoolInv'
  <1>1. /\ slot \in [Slots -> {Free} \cup Work] /\ late \in [Slots \cup {"main"} -> Nat]
        /\ Leases /\ LateOnce /\ task \in [Tasks -> Jobs] /\ Tries
    BY DEF PoolInv, PoolShape
  <1>2. slot' \in [Slots -> {Free} \cup Work]
    BY <1>1
  <1>3. Free.at = "free"
    BY DEF Free
  <1>4. \A u \in Slots, t \in Tasks : Holds(u, t)' => Holds(u, t)
    BY <1>3 DEF Holds
  <1>5. Leases' /\ Tries'
    BY <1>1, <1>4 DEF Leases, Tries
  <1>6. /\ circuit' \in Circuits /\ stateFile' \in Circuits /\ unsaved' \in BOOLEAN
        /\ Saved' /\ (Open => Open') /\ faults' \in 0 .. MaxFaults
    BY ReportsKeep
  <1>7. LateOnce'
    BY <1>1, <1>3, <1>6 DEF LateOnce, At
  <1>8. QED
    BY <1>1, <1>2, <1>5, <1>6, <1>7 DEF PoolInv, PoolShape

(* The main thread claims no more than the cycle has left.                 *)
LEMMA MinIs ==
    ASSUME NEW a \in Int, NEW b \in Int
    PROVE  Min({a, b}) \in {a, b} /\ Min({a, b}) =< a /\ Min({a, b}) =< b
  <1>1. \E x \in {a, b} : \A y \in {a, b} : x =< y
    <2>1. a =< b \/ b =< a
      OBVIOUS
    <2>2. QED
      BY <2>1
  <1>2. QED
    BY <1>1 DEF Min

\* What a claim takes fits into what the cycle has left.
LEMMA RoomIsLeft ==
    ASSUME Settings, PoolInv,
           NEW n, n = Min({Room, Cardinality({t \in Tasks : task[t].st = "ready"})})
    PROVE  n \in Nat /\ n =< Limit - main.claimed /\ main.claimed \in 0 .. Limit
  <1> DEFINE ready == {t \in Tasks : task[t].st = "ready"}
             left == Limit - main.claimed
             free == Cardinality(FreeSlots)
  <1>1. Cardinality(ready) \in Nat /\ free \in Nat
    <2>1. ready \in SUBSET Tasks /\ FreeSlots \in SUBSET Slots
      BY DEF FreeSlots
    <2>2. IsFiniteSet(Tasks) /\ IsFiniteSet(Slots)
      BY DEF Settings
    <2>3. IsFiniteSet(ready) /\ IsFiniteSet(FreeSlots)
      BY <2>1, <2>2, FS_Subset
    <2>4. QED
      BY <2>3, FS_CardinalityType
  <1>2. main.claimed \in 0 .. Limit /\ Limit \in Nat
    BY DEF PoolInv, PoolShape, Mains, Settings
  <1>3. left \in Nat
    BY <1>2
  <1> DEFINE room == Min({free, left})
             all == Cardinality(ready)
  <1>4. n = Min({room, all}) /\ all \in Nat
    BY <1>1 DEF Room
  <1> HIDE DEF ready, free, left, all
  <1>5. room \in Nat /\ room =< left
    BY <1>1, <1>3, MinIs
  <1> HIDE DEF room
  <1>6. n \in Nat /\ n =< left
    <2>1. room \in Int /\ all \in Int
      BY <1>4, <1>5
    <2>2. Min({room, all}) \in {room, all} /\ Min({room, all}) =< room
      BY <2>1, MinIs
    <2>3. QED
      BY <1>3, <1>4, <1>5, <2>2
  <1>7. QED
    BY <1>2, <1>6 DEF left

(* Each task that is leased goes to one slot that was free.                *)
LEMMA ClaimKeeps ==
    ASSUME Settings, PoolInv, Claim
    PROVE  PoolInv'
  <1> DEFINE ready == {t \in Tasks : task[t].st = "ready"}
             n == Min({Room, Cardinality(ready)})
  <1>1. PICK T \in kSubset(n, ready), S \in kSubset(n, FreeSlots) :
          \E give \in [S -> T] :
            /\ \A a, b \in S : give[a] = give[b] => a = b
            /\ task' = [t \in Tasks |-> IF t \in T THEN [task[t] EXCEPT !.st = "leased"]
                                        ELSE task[t]]
            /\ slot' = [s \in Slots |->
                          IF s \in S THEN [at |-> "start", rounds |-> 0, task |-> give[s]]
                          ELSE slot[s]]
    BY DEF Claim
  <1>2. PICK give \in [S -> T] :
            /\ \A a, b \in S : give[a] = give[b] => a = b
            /\ task' = [t \in Tasks |-> IF t \in T THEN [task[t] EXCEPT !.st = "leased"]
                                        ELSE task[t]]
            /\ slot' = [s \in Slots |->
                          IF s \in S THEN [at |-> "start", rounds |-> 0, task |-> give[s]]
                          ELSE slot[s]]
    BY <1>1
  <1>3. /\ main.at = "claim" /\ main'.at = "wait"
        /\ IF n > 0 THEN Late("main") ELSE UNCHANGED late
        /\ UNCHANGED <<circuit, stateFile, unsaved>>
    BY DEF Claim
  <1> HIDE DEF n
  <1>4. T \subseteq Tasks /\ (\A t \in T : task[t].st = "ready") /\ S \subseteq Slots
        /\ (\A s \in S : slot[s].at = "free")
    BY DEF kSubset, FreeSlots, At
  <1>5. /\ slot \in [Slots -> {Free} \cup Work] /\ late \in [Slots \cup {"main"} -> Nat]
        /\ Leases /\ LateOnce /\ task \in [Tasks -> Jobs] /\ Tries
        /\ circuit \in Circuits /\ stateFile \in Circuits /\ unsaved \in BOOLEAN /\ Saved
    BY DEF PoolInv, PoolShape
  <1>6. ASSUME NEW t \in T
        PROVE  /\ [task[t] EXCEPT !.st = "leased"] \in Jobs
               /\ [task[t] EXCEPT !.st = "leased"].st = "leased"
               /\ [task[t] EXCEPT !.st = "leased"].tries = task[t].tries
    BY <1>4, <1>5 DEF Jobs, States
  <1>7. /\ task' \in [Tasks -> Jobs]
        /\ \A t \in T : task'[t].st = "leased" /\ task'[t].tries = task[t].tries
        /\ \A t \in Tasks \ T : task'[t] = task[t]
    BY <1>2, <1>4, <1>5, <1>6
  <1>8. Tries'
    BY <1>4, <1>5, <1>7 DEF Tries
  <1>9. ASSUME NEW s \in S
        PROVE  /\ [at |-> "start", rounds |-> 0, task |-> give[s]] \in Work
    BY <1>4 DEF Work, Phases, Settings
  <1>10. /\ slot' \in [Slots -> {Free} \cup Work]
         /\ \A s \in S : slot'[s].at = "start" /\ slot'[s].task = give[s]
         /\ \A s \in Slots \ S : slot'[s] = slot[s]
    BY <1>2, <1>4, <1>5, <1>9
  <1>11. Leases'
    <2>1. ASSUME NEW s \in Slots, NEW u \in Slots, NEW t \in Tasks, Holds(s, t)'
          PROVE  task'[t].st = "leased" /\ (Holds(u, t)' => s = u)
      <3>1. CASE s \in S
        <4>1. t = give[s] /\ t \in T
          BY <1>10, <2>1, <3>1 DEF Holds
        <4>2. ASSUME Holds(u, t)'
              PROVE  s = u
          <5>1. CASE u \in S
            BY <1>2, <1>10, <3>1, <4>1, <4>2, <5>1 DEF Holds
          <5>2. CASE u \notin S
            BY <1>4, <1>5, <1>10, <4>1, <4>2, <5>2 DEF Holds, Leases
          <5>3. QED
            BY <5>1, <5>2
        <4>3. QED
          BY <1>7, <4>1, <4>2
      <3>2. CASE s \notin S
        <4>1. Holds(s, t) /\ task[t].st = "leased" /\ t \notin T
          BY <1>4, <1>5, <1>10, <2>1, <3>2 DEF Holds, Leases
        <4>2. ASSUME Holds(u, t)'
              PROVE  s = u
          <5>1. u \notin S
            BY <1>10, <4>1, <4>2 DEF Holds
          <5>2. QED
            BY <1>5, <1>10, <4>1, <4>2, <5>1 DEF Holds, Leases
        <4>3. QED
          BY <1>7, <4>1, <4>2
      <3>3. QED
        BY <3>1, <3>2
    <2>2. QED
      BY <2>1 DEF Leases
  <1>12. /\ late' \in [Slots \cup {"main"} -> Nat]
         /\ late'["main"] <= 1 /\ (late'["main"] # 0 => Open)
         /\ \A s \in Slots : late'[s] = late[s]
    <2>1. late["main"] = 0
      BY <1>3, <1>5 DEF LateOnce
    <2>2. "main" \notin Slots
      BY DEF Settings
    <2>3. CASE UNCHANGED late
      BY <1>5, <2>1, <2>3
    <2>4. CASE Late("main")
      BY <1>5, <2>1, <2>2, <2>4 DEF Late
    <2>5. QED
      BY <1>3, <2>3, <2>4
  <1>13. LateOnce'
    BY <1>3, <1>4, <1>5, <1>10, <1>12 DEF LateOnce, Open, At
  <1>14. main' \in Mains
    <2>1. n \in Nat /\ n =< Limit - main.claimed /\ main.claimed \in 0 .. Limit
      BY RoomIsLeft DEF n
    <2>2. main' = [at |-> "wait", claimed |-> main.claimed + n]
      BY DEF Claim, n
    <2>3. main.claimed + n \in 0 .. Limit
      BY <2>1 DEF Settings
    <2>4. QED
      BY <2>2, <2>3 DEF Mains
  <1>15. faults' \in 0 .. MaxFaults
    BY DEF Claim, PoolInv, PoolShape
  <1>16. QED
    BY <1>3, <1>5, <1>7, <1>8, <1>10, <1>11, <1>12, <1>13, <1>14, <1>15
       DEF PoolInv, PoolShape, Saved

\* Steps of the main thread, the end of the pause and a crash keep the
\* invariant.
LEMMA MainStepKeeps ==
    ASSUME Settings, PoolInv, MainStep \/ CoolDown \/ Crash
    PROVE  PoolInv'
  <1>1. Reports
    BY StepsReport
  <1>2. slot \in [Slots -> {Free} \cup Work] /\ main \in Mains
    BY DEF PoolInv, PoolShape
  <1>3. ASSUME NEW phase \in {"down", "sleep", "fill", "claim", "wait"}, Step(phase)
        PROVE  main' \in Mains /\ main'.at = phase
    BY <1>2, <1>3 DEF Step, Mains
  <1>4. CASE Cycle
    <2>1. main' \in Mains /\ main'.at = "fill"
      BY <1>4 DEF Cycle, Mains, Settings
    <2>2. QED
      BY <1>1, <1>2, <1>4, <2>1, FreeingKeeps DEF Cycle
  <1>5. CASE Fill
    <2>1. Step("claim") \/ Step("wait")
      BY <1>5 DEF Fill
    <2>2. main' \in Mains /\ (main'.at = "claim" => ~Open)
      <3>1. CASE Room > 0 /\ Ready
        BY <1>3, <1>5, <3>1 DEF Fill, Ready
      <3>2. CASE ~(Room > 0 /\ Ready)
        BY <1>3, <1>5, <3>2 DEF Fill
      <3>3. QED
        BY <3>1, <3>2
    <2>3. QED
      BY <1>1, <1>2, <1>5, <2>2, FreeingKeeps DEF Fill
  <1>6. CASE Claim
    BY <1>6, ClaimKeeps
  <1>7. CASE Collect
    <2>1. main' \in Mains /\ main'.at = "fill"
      BY <1>3, <1>7 DEF Collect
    <2>2. QED
      BY <1>1, <1>7, <2>1, FreeingKeeps DEF Collect
  <1>8. CASE CycleEnds
    <2>1. main' \in Mains /\ main'.at = "sleep"
      BY <1>3, <1>8 DEF CycleEnds
    <2>2. QED
      BY <1>1, <1>2, <1>8, <2>1, FreeingKeeps DEF CycleEnds
  <1>9. CASE CycleBreaks
    <2>1. main' \in Mains /\ main'.at \in {"sleep", "down"}
      BY <1>3, <1>9 DEF CycleBreaks
    <2>2. QED
      BY <1>1, <1>9, <2>1, FreeingKeeps DEF CycleBreaks
  <1>10. CASE CoolDown
    BY <1>1, <1>2, <1>10, FreeingKeeps DEF CoolDown
  <1>11. CASE Crash
    <2>1. main' \in Mains /\ main'.at = "down"
      BY <1>3, <1>11 DEF Crash
    <2>2. QED
      BY <1>1, <1>11, <2>1, FreeingKeeps DEF Crash
  <1>12. QED
    BY <1>4, <1>5, <1>6, <1>7, <1>8, <1>9, <1>10, <1>11 DEF MainStep

(* The worker dispatches a failed task again, or a lease lapses: no slot   *)
(* holds the task.                                                         *)
LEMMA TaskStepKeeps ==
    ASSUME Settings, PoolInv, NEW t \in Tasks, Redispatch(t) \/ TaskLeaseLapses(t)
    PROVE  PoolInv'
  <1>1. /\ task' = [task EXCEPT ![t].st = "ready"]
        /\ UNCHANGED <<circuit, stateFile, main, slot, late, unsaved, faults>>
    BY DEF Redispatch, TaskLeaseLapses
  <1>2. task \in [Tasks -> Jobs] /\ Tries /\ Leases /\ LateOnce /\ Saved
    BY DEF PoolInv, PoolShape
  <1>3. \A s \in Slots : ~Holds(s, t)
    <2>1. CASE Redispatch(t)
      BY <1>2, <2>1 DEF Redispatch, Leases
    <2>2. CASE TaskLeaseLapses(t)
      BY <2>2 DEF TaskLeaseLapses
    <2>3. QED
      BY <2>1, <2>2
  <1> DEFINE j == [task[t] EXCEPT !.st = "ready"]
  <1>4. j \in Jobs /\ j.tries = task[t].tries /\ task[t].tries < MaxTries
    <2>1. task[t].st \in {"failed", "leased"}
      BY DEF Redispatch, TaskLeaseLapses
    <2>2. QED
      BY <1>2, <2>1 DEF Tries, Jobs, States
  <1>5. task' = [task EXCEPT ![t] = j]
    BY <1>1
  <1> HIDE DEF j
  <1>6. task' \in [Tasks -> Jobs] /\ Tries'
    BY <1>2, <1>4, <1>5 DEF Tries
  <1>7. \A s \in Slots, o \in Tasks : Holds(s, o)' <=> Holds(s, o)
    BY <1>1 DEF Holds
  <1>8. Leases'
    BY <1>2, <1>3, <1>5, <1>7 DEF Leases
  <1>9. LateOnce' /\ Saved'
    BY <1>1, <1>2 DEF LateOnce, Saved, Open, At
  <1>10. QED
    BY <1>1, <1>6, <1>8, <1>9 DEF PoolInv, PoolShape

(* A new process knows what the file says, and nobody was late in it yet.  *)
LEMMA NewProcessKeeps ==
    ASSUME Settings, PoolInv, Restart \/ OwnerResets
    PROVE  PoolInv'
  <1>1. /\ main' = [at |-> "sleep", claimed |-> 0] /\ late' = NoLate /\ unsaved' = FALSE
        /\ circuit' = stateFile' /\ stateFile' \in {stateFile, Closed} /\ UNCHANGED <<task, slot, faults>>
    BY DEF Restart, OwnerResets
  <1>2. circuit' \in Circuits /\ stateFile' \in Circuits
    <2>1. Closed \in Circuits
      BY DEF Settings, Closed, Circuits
    <2>2. stateFile \in Circuits
      BY DEF PoolInv, PoolShape
    <2>3. QED
      BY <1>1, <2>1, <2>2
  <1>3. /\ late' \in [Slots \cup {"main"} -> Nat]
        /\ \A x \in Slots \cup {"main"} : late'[x] = 0
    BY <1>1 DEF NoLate
  <1>4. main' \in Mains
    BY <1>1 DEF Mains, Settings
  <1>5. LateOnce'
    BY <1>3 DEF LateOnce
  <1>6. Leases' /\ Tries'
    BY <1>1 DEF Leases, Tries, Holds, PoolInv
  <1>7. QED
    BY <1>1, <1>2, <1>3, <1>4, <1>5, <1>6 DEF PoolInv, PoolShape, Saved

-----------------------------------------------------------------------------
\* A runner starts with free slots and a closed circuit.
LEMMA PoolInvInit == ASSUME Settings PROVE PoolInit => PoolInv
  <1>1. SUFFICES ASSUME PoolInit
                 PROVE  PoolInv
    OBVIOUS
  <1>2. /\ MaxTries \in Nat \ {0} /\ Limit \in Nat /\ RepairAttempts \in Nat
        /\ FailureLimit \in Nat /\ MaxFaults \in Nat
    BY DEF Settings
  <1>3. task \in [Tasks -> Jobs] /\ Tries
    BY <1>1, <1>2 DEF PoolInit, Tries, Jobs, States
  <1>4. circuit \in Circuits /\ stateFile \in Circuits /\ unsaved \in BOOLEAN /\ Saved
    <2>1. Closed \in Circuits
      BY <1>2 DEF Closed, Circuits
    <2>2. circuit = Closed /\ stateFile = Closed /\ unsaved = FALSE
      BY <1>1 DEF PoolInit
    <2>3. QED
      BY <2>1, <2>2 DEF Saved
  <1>5. \A s \in Slots : slot[s] = Free
    BY <1>1 DEF PoolInit
  <1>6. slot \in [Slots -> {Free} \cup Work] /\ Leases
    BY <1>1, <1>5 DEF PoolInit, Leases, Holds, Free
  <1>7. /\ late \in [Slots \cup {"main"} -> Nat]
        /\ \A x \in Slots \cup {"main"} : late[x] = 0
    BY <1>1 DEF PoolInit, NoLate
  <1>8. LateOnce
    BY <1>7 DEF LateOnce
  <1>9. main \in Mains /\ faults \in 0 .. MaxFaults
    BY <1>1, <1>2 DEF PoolInit, Mains
  <1>10. QED
    BY <1>3, <1>4, <1>6, <1>7, <1>8, <1>9 DEF PoolInv, PoolShape

\* Every step keeps the invariant of the pool.
LEMMA PoolInvStep == ASSUME Settings PROVE PoolInv /\ [PoolNext]_poolVars => PoolInv'
  <1>1. SUFFICES ASSUME PoolInv, [PoolNext]_poolVars
                 PROVE  PoolInv'
    OBVIOUS
  <1>2. CASE MainStep \/ CoolDown \/ Crash
    BY <1>1, <1>2, MainStepKeeps
  <1>3. CASE Restart \/ OwnerResets
    BY <1>1, <1>3, NewProcessKeeps
  <1>4. CASE \E s \in Slots : SlotStep(s)
    BY <1>1, <1>4, SlotStepKeeps
  <1>5. CASE \E t \in Tasks : Redispatch(t) \/ TaskLeaseLapses(t)
    BY <1>1, <1>5, TaskStepKeeps
  <1>6. CASE UNCHANGED poolVars
    BY <1>1, <1>6 DEF poolVars, PoolInv, PoolShape, Leases, Tries, LateOnce, Saved, Holds, Open, At
  <1>7. QED
    BY <1>1, <1>2, <1>3, <1>4, <1>5, <1>6 DEF PoolNext

(* The inductive invariant of the pool: types, leases, attempts, and the   *)
(* two facts about a pause.                                                *)
THEOREM PoolInductive == PoolSpec => []PoolInv
  <1>1. PoolInit => PoolInv
    BY PoolInvInit, SettingsAssumption
  <1>2. PoolInv /\ [PoolNext]_poolVars => PoolInv'
    BY PoolInvStep, SettingsAssumption
  <1>3. QED
    BY <1>1, <1>2, PTL DEF PoolSpec

(* The type invariant: attempts, failures in a row, repair rounds and what *)
(* a cycle claims stay within their limits.                                *)
THEOREM PoolTyped == PoolSpec => []PoolTypeOK
  <1>1. PoolInv => PoolTypeOK
    <2>1. SUFFICES ASSUME PoolInv
                   PROVE  PoolTypeOK
      OBVIOUS
    <2>2. ASSUME NEW s \in Slots
          PROVE  /\ slot[s].at \in {"free"} \cup Phases
                 /\ slot[s].rounds \in 0 .. RepairAttempts
                 /\ ~At(s, "free") => slot[s].task \in Tasks
      <3>1. slot[s] \in {Free} \cup Work
        BY <2>1 DEF PoolInv, PoolShape
      <3>2. CASE slot[s] = Free
        BY <3>2, SettingsAssumption DEF Free, At, Settings
      <3>3. CASE slot[s] \in Work
        BY <3>3 DEF Work
      <3>4. QED
        BY <3>1, <3>2, <3>3
    <2>3. QED
      BY <2>1, <2>2 DEF PoolInv, PoolShape, PoolTypeOK, Circuits, Mains, Jobs, States, Phases
  <1>2. PoolSpec => []PoolInv
    BY PoolInductive
  <1>3. QED
    BY <1>1, <1>2, PTL

(* Whatever fails, and however slots, cooldowns and restarts interleave,   *)
(* after the failure that pauses the backend each slot begins at most one  *)
(* call and the main thread claims at most once; no task is in two slots.  *)
THEOREM PoolSound == PoolSpec => []OneLastCall
  <1>1. PoolInv => OneLastCall
    BY DEF PoolInv, LateOnce, Leases, OneLastCall
  <1>2. PoolSpec => []PoolInv
    BY PoolInductive
  <1>3. QED
    BY <1>1, <1>2, PTL

(* Nobody but the owner reopens a paused backend, unless the pause could   *)
(* not be written and the process started anew.                            *)
THEOREM OwnerReopens == PoolSpec => OnlyOwnerReopens
  <1>1. PoolInv /\ [PoolNext]_poolVars => [OwnerStep]_poolVars
    <2>1. SUFFICES ASSUME PoolInv, PoolNext, Open, ~OwnerResets, ~(unsaved /\ Restart)
                   PROVE  Open'
      BY DEF OwnerStep
    <2>2. CASE Restart
      BY <2>1, <2>2 DEF Restart, PoolInv, Saved, PoolShape, Open
    <2>3. CASE ~Restart
      <3>1. Reports
        BY <2>1, <2>3, StepsReport, SettingsAssumption DEF PoolNext
      <3>2. QED
        BY <2>1, <3>1, ReportsKeep, SettingsAssumption
    <2>4. QED
      BY <2>2, <2>3
  <1>2. PoolSpec => []PoolInv
    BY PoolInductive
  <1>3. QED
    BY <1>1, <1>2, PTL DEF PoolSpec, OnlyOwnerReopens

-----------------------------------------------------------------------------
(* RunnerSupervision: the invariant.                                       *)

ServicePhases == {"none", "gate", "probe", "probing", "legacy", "run", "spawned", "wait"}
ConsumerPhases == {"none", "gate", "lock", "legacy", "run"}
ServiceRecords == [at : ServicePhases, child : Runners \cup {None},
                   exit : {None, "conflict", "other"}]
ConsumerRecords == [at : ConsumerPhases, parent : Services \cup {None, "shell", "init"}]

OwnersShape ==
    /\ watchdog \in [at : {"probe", "probing", "spawn", "wait"}, child : Services \cup {None}]
    /\ service \in [Services -> ServiceRecords]
    /\ runner \in [Runners -> ConsumerRecords]
    /\ record \in [pid : Services \cup {None}, child : Runners \cup {None}, active : BOOLEAN]

\* Who is through the gate holds it, and so does the watchdog that tries it.
GateIsHeld ==
    /\ \A v \in Services : service[v].at \notin {"none", "gate"} => gate = v
    /\ watchdog.at = "probing" => gate = "watchdog"

\* Who took the lock of the consumers holds it, a supervisor only to try it.
LockIsHeld ==
    /\ \A v \in Services : ServiceAt(v, "probing") => runLock = v
    /\ \A c \in Runners : runner[c].at \in {"legacy", "run"} => runLock = c

OwnersInv == OwnersShape /\ GateIsHeld /\ LockIsHeld /\ RecordIsTheOwners

-----------------------------------------------------------------------------
(* What the parts of a step do.                                            *)

\* A supervisor's record with one part replaced.
LEMMA ServiceParts ==
    ASSUME NEW r \in ServiceRecords
    PROVE  /\ \A at \in ServicePhases : /\ [r EXCEPT !.at = at] \in ServiceRecords
                                        /\ [r EXCEPT !.at = at].at = at
           /\ \A exit \in {"conflict", "other"} : /\ [r EXCEPT !.exit = exit] \in ServiceRecords
                                                  /\ [r EXCEPT !.exit = exit].at = r.at
           /\ NoService \in ServiceRecords /\ NoService.at = "none"
  BY DEF ServiceRecords, NoService, ServicePhases

\* A consumer's record with one part replaced.
LEMMA ConsumerParts ==
    ASSUME NEW r \in ConsumerRecords
    PROVE  /\ \A at \in ConsumerPhases : /\ [r EXCEPT !.at = at] \in ConsumerRecords
                                         /\ [r EXCEPT !.at = at].at = at
           /\ [r EXCEPT !.parent = "init"] \in ConsumerRecords
           /\ [r EXCEPT !.parent = "init"].at = r.at
           /\ NoConsumer \in ConsumerRecords /\ NoConsumer.at = "none"
  BY DEF ConsumerRecords, NoConsumer, ConsumerPhases

\* Where each process is, before and after.
SameServices == \A v \in Services : service'[v].at = service[v].at
ServiceMoves(v, at) == /\ service'[v].at = at
                       /\ \A u \in Services \ {v} : service'[u] = service[u]
SameConsumers == \A c \in Runners : runner'[c].at = runner[c].at
ConsumerMoves(c, at) == /\ runner'[c].at = at
                        /\ \A d \in Runners \ {c} : runner'[d] = runner[d]
\* Processes end, or stay where they are.
ConsumersEnd == \A c \in Runners : runner'[c].at \in {"none", runner[c].at}

\* A step of a supervisor moves no other one.
LEMMA GoServiceMoves ==
    ASSUME OwnersShape, NEW v \in Services, NEW at \in ServicePhases,
           GoService(v, at)
    PROVE  service' \in [Services -> ServiceRecords] /\ ServiceMoves(v, at)
  <1>1. service[v] \in ServiceRecords
    BY DEF OwnersShape
  <1>2. [service[v] EXCEPT !.at = at] \in ServiceRecords /\ [service[v] EXCEPT !.at = at].at = at
    BY <1>1, ServiceParts
  <1>3. QED
    BY <1>2 DEF OwnersShape, GoService, ServiceMoves

\* A supervisor that ends leaves the others where they are.
LEMMA NoServiceMoves ==
    ASSUME OwnersShape, NEW v \in Services, service' = [service EXCEPT ![v] = NoService]
    PROVE  service' \in [Services -> ServiceRecords] /\ ServiceMoves(v, "none")
  <1>1. NoService \in ServiceRecords /\ NoService.at = "none"
    BY DEF ServiceRecords, NoService, ServicePhases
  <1>2. QED
    BY <1>1 DEF OwnersShape, ServiceMoves

\* A step of a consumer moves no other one.
LEMMA GoConsumerMoves ==
    ASSUME OwnersShape, NEW c \in Runners, NEW at \in ConsumerPhases,
           GoConsumer(c, at)
    PROVE  runner' \in [Runners -> ConsumerRecords] /\ ConsumerMoves(c, at)
  <1>1. runner[c] \in ConsumerRecords
    BY DEF OwnersShape
  <1>2. [runner[c] EXCEPT !.at = at] \in ConsumerRecords
        /\ [runner[c] EXCEPT !.at = at].at = at
    BY <1>1, ConsumerParts
  <1>3. QED
    BY <1>2 DEF OwnersShape, GoConsumer, ConsumerMoves

(* A consumer that ends: its parent learns it, and its locks are free.     *)
LEMMA EndedMoves ==
    ASSUME OwnersShape, NEW c \in Runners, NEW exit \in {"conflict", "other"}, Ended(c, exit)
    PROVE  /\ service' \in [Services -> ServiceRecords] /\ SameServices
           /\ runner' \in [Runners -> ConsumerRecords] /\ ConsumerMoves(c, "none")
           /\ gate' = FreedBy(c, gate) /\ runLock' = FreedBy(c, runLock)
  <1>1. NoConsumer \in ConsumerRecords /\ NoConsumer.at = "none"
    BY DEF ConsumerRecords, NoConsumer, ConsumerPhases
  <1>2. runner' \in [Runners -> ConsumerRecords] /\ ConsumerMoves(c, "none")
    BY <1>1 DEF OwnersShape, Ended, ConsumerMoves
  <1>3. \A v \in Services : service[v] \in ServiceRecords
    BY DEF OwnersShape
  <1>4. \A v \in Services : /\ [service[v] EXCEPT !.exit = exit] \in ServiceRecords
                            /\ [service[v] EXCEPT !.exit = exit].at = service[v].at
    BY <1>3, ServiceParts
  <1>5. service' \in [Services -> ServiceRecords] /\ SameServices
    BY <1>3, <1>4 DEF Ended, SameServices
  <1>6. QED
    BY <1>2, <1>5 DEF Ended

(* Nobody who holds something loses it when another process ends.          *)
LEMMA EndedKeeps ==
    ASSUME Numbers, OwnersInv, NEW c \in Runners, NEW exit \in {"conflict", "other"},
           Ended(c, exit), UNCHANGED <<watchdog, record>>
    PROVE  OwnersInv'
  <1>1. OwnersShape /\ GateIsHeld /\ LockIsHeld /\ RecordIsTheOwners
    BY DEF OwnersInv
  <1>2. /\ service' \in [Services -> ServiceRecords] /\ SameServices
        /\ runner' \in [Runners -> ConsumerRecords] /\ ConsumerMoves(c, "none")
        /\ gate' = FreedBy(c, gate) /\ runLock' = FreedBy(c, runLock)
    BY <1>1, EndedMoves
  <1>3. OwnersShape'
    BY <1>1, <1>2 DEF OwnersShape
  <1>4. GateIsHeld'
    BY <1>1, <1>2 DEF GateIsHeld, SameServices, FreedBy, Numbers
  <1>5. LockIsHeld'
    BY <1>1, <1>2 DEF LockIsHeld, ServiceAt, SameServices, ConsumerMoves, FreedBy, Numbers
  <1>6. RecordIsTheOwners'
    BY <1>1, <1>2 DEF RecordIsTheOwners, Supervises, SameServices
  <1>7. QED
    BY <1>3, <1>4, <1>5, <1>6 DEF OwnersInv

-----------------------------------------------------------------------------
(* The watchdog.                                                           *)
LEMMA WatchdogKeeps ==
    ASSUME Numbers, OwnersInv, WatchdogStep \/ KillWatchdog
    PROVE  OwnersInv'
  <1>1. OwnersShape /\ GateIsHeld /\ LockIsHeld /\ RecordIsTheOwners
    BY DEF OwnersInv
  <1>2. CASE Probe
    <2>1. watchdog' = [watchdog EXCEPT !.at = "probing"] /\ gate = None /\ gate' = "watchdog"
          /\ UNCHANGED <<service, runner, runLock, record>>
      BY <1>2 DEF Probe, Running, Files
    <2>2. OwnersShape'
      BY <1>1, <2>1 DEF OwnersShape
    <2>3. GateIsHeld'
      BY <1>1, <2>1 DEF GateIsHeld, Numbers
    <2>4. LockIsHeld' /\ RecordIsTheOwners'
      BY <1>1, <2>1 DEF LockIsHeld, RecordIsTheOwners, Supervises, ServiceAt
    <2>5. QED
      BY <2>2, <2>3, <2>4 DEF OwnersInv
  <1>3. CASE ProbeEnds
    <2>1. watchdog' = [watchdog EXCEPT !.at = "spawn"] /\ gate = "watchdog" /\ gate' = None
          /\ UNCHANGED <<service, runner, runLock, record>>
      BY <1>1, <1>3 DEF ProbeEnds, Files, GateIsHeld
    <2>2. OwnersShape' /\ watchdog'.at = "spawn"
      BY <1>1, <2>1 DEF OwnersShape
    <2>3. GateIsHeld'
      BY <1>1, <2>1, <2>2 DEF GateIsHeld, Numbers
    <2>4. LockIsHeld' /\ RecordIsTheOwners'
      BY <1>1, <2>1 DEF LockIsHeld, RecordIsTheOwners, Supervises, ServiceAt
    <2>5. QED
      BY <2>2, <2>3, <2>4 DEF OwnersInv
  <1>4. ASSUME NEW v \in Services, SpawnService(v)
        PROVE  OwnersInv'
    <2>1. /\ watchdog' = [at |-> "wait", child |-> v] /\ ServiceAt(v, "none")
          /\ GoService(v, "gate") /\ UNCHANGED <<runner, gate, runLock, record>>
      BY <1>4 DEF SpawnService, Owners, Files
    <2>2. service' \in [Services -> ServiceRecords] /\ ServiceMoves(v, "gate")
      BY <1>1, <2>1, GoServiceMoves DEF ServicePhases
    <2>3. OwnersShape'
      BY <1>1, <2>1, <2>2 DEF OwnersShape
    <2>4. GateIsHeld' /\ LockIsHeld'
      BY <1>1, <2>1, <2>2 DEF GateIsHeld, LockIsHeld, ServiceAt, ServiceMoves
    <2>5. RecordIsTheOwners'
      BY <1>1, <2>1, <2>2 DEF RecordIsTheOwners, Supervises, ServiceMoves
    <2>6. QED
      BY <2>3, <2>4, <2>5 DEF OwnersInv
  <1>5. CASE ServiceGone
    <2>1. watchdog' = [at |-> "probe", child |-> None]
          /\ UNCHANGED <<service, runner, gate, runLock, record>>
      BY <1>5 DEF ServiceGone, Owners, Files
    <2>2. QED
      BY <1>1, <2>1 DEF OwnersInv, OwnersShape, GateIsHeld, LockIsHeld, RecordIsTheOwners, Supervises,
         ServiceAt
  <1>6. CASE KillWatchdog
    <2>1. watchdog' = [at |-> "probe", child |-> None] /\ gate' = FreedBy("watchdog", gate)
          /\ UNCHANGED <<service, runner, runLock, record>>
      BY <1>6 DEF KillWatchdog, Files
    <2>2. OwnersShape'
      BY <1>1, <2>1 DEF OwnersShape
    <2>3. GateIsHeld'
      BY <1>1, <2>1 DEF GateIsHeld, FreedBy, Numbers
    <2>4. LockIsHeld' /\ RecordIsTheOwners'
      BY <1>1, <2>1 DEF LockIsHeld, RecordIsTheOwners, Supervises, ServiceAt
    <2>5. QED
      BY <2>2, <2>3, <2>4 DEF OwnersInv
  <1>7. QED
    BY <1>2, <1>3, <1>4, <1>5, <1>6 DEF WatchdogStep

-----------------------------------------------------------------------------
(* The supervisors.                                                        *)

(* A supervisor that ends without giving a reason to write.                *)
LEMMA ServiceEndKeeps ==
    ASSUME Numbers, OwnersInv, NEW v \in Services,
           service' = [service EXCEPT ![v] = NoService], UNCHANGED <<watchdog, runner, runLock>>,
           ~ServiceAt(v, "probing"), gate' = FreedBy(v, gate),
           \/ UNCHANGED record
           \/ Supervises(v) /\ record' = [record EXCEPT !.child = None, !.active = FALSE]
    PROVE  OwnersInv'
  <1>1. OwnersShape /\ GateIsHeld /\ LockIsHeld /\ RecordIsTheOwners
    BY DEF OwnersInv
  <1>2. service' \in [Services -> ServiceRecords] /\ ServiceMoves(v, "none")
    BY <1>1, NoServiceMoves
  <1>3. OwnersShape'
    BY <1>1, <1>2 DEF OwnersShape
  <1>4. GateIsHeld'
    BY <1>1, <1>2 DEF GateIsHeld, ServiceMoves, FreedBy, Numbers
  <1>5. LockIsHeld'
    BY <1>1, <1>2 DEF LockIsHeld, ServiceAt, ServiceMoves
  <1>6. RecordIsTheOwners'
    <2>1. CASE UNCHANGED record
      BY <1>1, <1>2, <2>1 DEF RecordIsTheOwners, Supervises, ServiceMoves
    <2>2. CASE Supervises(v)
      <3>1. \A u \in Services \ {v} : ~Supervises(u)
        BY <1>1, <2>2 DEF GateIsHeld, Supervises
      <3>2. QED
        BY <1>2, <3>1 DEF RecordIsTheOwners, Supervises, ServiceMoves
    <2>3. QED
      BY <2>1, <2>2
  <1>7. QED
    BY <1>3, <1>4, <1>5, <1>6 DEF OwnersInv

\* Only the supervisor that gets the gate goes on.
LEMMA GateKeeps ==
    ASSUME Numbers, OwnersInv, NEW v \in Services, Gate(v)
    PROVE  OwnersInv'
  <1>1. OwnersShape /\ GateIsHeld /\ LockIsHeld /\ RecordIsTheOwners
    BY DEF OwnersInv
  <1>2. CASE gate = None /\ gate' = v /\ GoService(v, "probe") /\ UNCHANGED record
    <2>1. service' \in [Services -> ServiceRecords] /\ ServiceMoves(v, "probe")
      BY <1>1, <1>2, GoServiceMoves DEF ServicePhases
    <2>2. OwnersShape'
      BY <1>1, <1>2, <2>1 DEF OwnersShape, Gate
    <2>3. GateIsHeld'
      BY <1>1, <1>2, <2>1 DEF GateIsHeld, ServiceMoves, Gate, Numbers
    <2>4. LockIsHeld'
      BY <1>1, <2>1 DEF LockIsHeld, ServiceAt, ServiceMoves, Gate
    <2>5. RecordIsTheOwners'
      BY <1>1, <1>2, <2>1 DEF RecordIsTheOwners, Supervises, ServiceMoves
    <2>6. QED
      BY <2>2, <2>3, <2>4, <2>5 DEF OwnersInv
  <1>3. CASE Refuse(v)
    BY <1>3, ServiceEndKeeps DEF Gate, Refuse, ServiceAt
  <1>4. QED
    BY <1>2, <1>3 DEF Gate

\* A probe of the consumers' lock holds it for itself and gives back only
\* that.
LEMMA ProbeLockKeeps ==
    ASSUME Numbers, OwnersInv, NEW v \in Services, ProbeLock(v) \/ LockProbed(v)
    PROVE  OwnersInv'
  <1>1. OwnersShape /\ GateIsHeld /\ LockIsHeld /\ RecordIsTheOwners
    BY DEF OwnersInv
  <1>2. CASE ProbeLock(v) /\ Refuse(v) /\ UNCHANGED runLock
    BY <1>2, ServiceEndKeeps DEF ProbeLock, Refuse, ServiceAt
  <1>3. ASSUME NEW at \in {"probing", "legacy"}, GoService(v, at),
               service[v].at \in {"probe", "probing"},
               at = "probing" => runLock = None /\ runLock' = v,
               at = "legacy" => runLock = v /\ runLock' = None,
               UNCHANGED <<watchdog, runner, gate, record>>
        PROVE  OwnersInv'
    <2>1. service' \in [Services -> ServiceRecords] /\ ServiceMoves(v, at)
      BY <1>1, <1>3, GoServiceMoves DEF ServicePhases
    <2>2. OwnersShape'
      BY <1>1, <1>3, <2>1 DEF OwnersShape
    <2>3. GateIsHeld'
      BY <1>1, <1>3, <2>1 DEF GateIsHeld, ServiceMoves
    <2>4. LockIsHeld'
      BY <1>1, <1>3, <2>1 DEF LockIsHeld, ServiceAt, ServiceMoves, Numbers
    <2>5. RecordIsTheOwners'
      BY <1>1, <1>3, <2>1 DEF RecordIsTheOwners, Supervises, ServiceMoves
    <2>6. QED
      BY <2>2, <2>3, <2>4, <2>5 DEF OwnersInv
  <1>4. CASE ProbeLock(v) /\ runLock = None /\ runLock' = v /\ GoService(v, "probing")
             /\ UNCHANGED <<gate, record>>
    BY <1>3, <1>4 DEF ProbeLock, ServiceAt
  <1>5. CASE LockProbed(v)
    BY <1>1, <1>3, <1>5 DEF LockProbed, LockIsHeld, ServiceAt, Files
  <1>6. QED
    BY <1>2, <1>4, <1>5 DEF ProbeLock

\* A supervisor that watches its consumer keeps gate and record.
LEMMA SuperviseKeeps ==
    ASSUME Numbers, OwnersInv, NEW v \in Services, Supervise(v)
    PROVE  OwnersInv'
  <1>1. OwnersShape /\ GateIsHeld /\ LockIsHeld /\ RecordIsTheOwners
    BY DEF OwnersInv
  <1>2. CASE Refuse(v)
    BY <1>2, ServiceEndKeeps DEF Supervise, Refuse, ServiceAt
  <1>3. CASE /\ GoService(v, "run") /\ UNCHANGED gate
             /\ record' = [pid |-> v, child |-> None, active |-> TRUE]
    <2>1. service' \in [Services -> ServiceRecords] /\ ServiceMoves(v, "run")
      BY <1>1, <1>3, GoServiceMoves DEF ServicePhases
    <2>2. gate = v /\ \A u \in Services \ {v} : ~Supervises(u)
      BY <1>1 DEF GateIsHeld, Supervises, Supervise, ServiceAt
    <2>3. OwnersShape'
      BY <1>1, <1>3, <2>1 DEF OwnersShape, Supervise
    <2>4. GateIsHeld'
      BY <1>1, <1>3, <2>1, <2>2 DEF GateIsHeld, ServiceMoves, Supervise
    <2>5. LockIsHeld'
      BY <1>1, <2>1 DEF LockIsHeld, ServiceAt, ServiceMoves, Supervise
    <2>6. RecordIsTheOwners'
      BY <1>3, <2>1, <2>2 DEF RecordIsTheOwners, Supervises, ServiceMoves
    <2>7. QED
      BY <2>3, <2>4, <2>5, <2>6 DEF OwnersInv
  <1>4. QED
    BY <1>2, <1>3 DEF Supervise

(* The supervisor's steps with a child: it supervises before and after.    *)
LEMMA ChildStepKeeps ==
    ASSUME Numbers, OwnersInv, NEW v \in Services, Supervises(v),
           service' \in [Services -> ServiceRecords], ServiceMoves(v, service'[v].at),
           service'[v].at \in {"run", "spawned", "wait"},
           runner' \in [Runners -> ConsumerRecords],
           \A c \in Runners : runner'[c].at \in {"gate", runner[c].at},
           record' \in {[record EXCEPT !.child = c] : c \in Runners \cup {None}} \cup {record},
           UNCHANGED <<watchdog, gate, runLock>>
    PROVE  OwnersInv'
  <1>1. OwnersShape /\ GateIsHeld /\ LockIsHeld /\ RecordIsTheOwners
    BY DEF OwnersInv
  <1>2. OwnersShape' /\ record'.pid = record.pid /\ record'.active = record.active
    BY <1>1 DEF OwnersShape
  <1>3. GateIsHeld'
    BY <1>1 DEF GateIsHeld, ServiceMoves, Supervises
  <1>4. LockIsHeld'
    BY <1>1 DEF LockIsHeld, ServiceMoves, ServiceAt
  <1>5. RecordIsTheOwners'
    BY <1>1, <1>2 DEF RecordIsTheOwners, Supervises, ServiceMoves
  <1>6. QED
    BY <1>2, <1>3, <1>4, <1>5 DEF OwnersInv

\* Every step of a supervisor keeps the invariant.
LEMMA ServiceStepKeeps ==
    ASSUME Numbers, OwnersInv, NEW v \in Services, ServiceStep(v)
    PROVE  OwnersInv'
  <1>1. OwnersShape
    BY DEF OwnersInv
  <1>2. ASSUME NEW c \in Runners, SpawnConsumer(v, c)
        PROVE  OwnersInv'
    <2>1. service' \in [Services -> ServiceRecords] /\ ServiceMoves(v, "spawned")
      <3>1. [at |-> "spawned", child |-> c, exit |-> None] \in ServiceRecords
        BY DEF ServiceRecords, ServicePhases
      <3>2. QED
        BY <1>1, <1>2, <3>1 DEF SpawnConsumer, OwnersShape, ServiceMoves
    <2>2. runner' \in [Runners -> ConsumerRecords] /\ ConsumerMoves(c, "gate")
      <3>1. [at |-> "gate", parent |-> v] \in ConsumerRecords
        BY DEF ConsumerRecords, ConsumerPhases
      <3>2. QED
        BY <1>1, <1>2, <3>1 DEF SpawnConsumer, OwnersShape, ConsumerMoves
    <2>3. Supervises(v) /\ UNCHANGED <<watchdog, gate, runLock, record>>
      BY <1>2 DEF SpawnConsumer, Supervises, ServiceAt, Owners, Files
    <2>4. QED
      BY <2>1, <2>2, <2>3, ChildStepKeeps DEF ServiceMoves, ConsumerMoves
  <1>3. CASE RecordChild(v)
    <2>1. service' \in [Services -> ServiceRecords] /\ ServiceMoves(v, "wait")
      BY <1>1, <1>3, GoServiceMoves DEF RecordChild, ServicePhases
    <2>2. service[v].child \in Runners \cup {None}
      BY <1>1 DEF OwnersShape, ServiceRecords
    <2>3. /\ Supervises(v) /\ UNCHANGED <<watchdog, gate, runLock, runner>>
          /\ record' = [record EXCEPT !.child = service[v].child]
      BY <1>3 DEF RecordChild, Supervises, ServiceAt, Owners
    <2>4. QED
      BY <1>1, <2>1, <2>2, <2>3, ChildStepKeeps DEF ServiceMoves, OwnersShape
  <1>4. CASE Conflict(v)
    BY <1>4, ServiceEndKeeps DEF Conflict, Supervises, ServiceAt
  <1>5. CASE RestartChild(v)
    <2>1. service' \in [Services -> ServiceRecords] /\ ServiceMoves(v, "run")
      <3>1. [at |-> "run", child |-> None, exit |-> None] \in ServiceRecords
        BY DEF ServiceRecords, ServicePhases
      <3>2. QED
        BY <1>1, <1>5, <3>1 DEF RestartChild, OwnersShape, ServiceMoves
    <2>2. /\ Supervises(v) /\ UNCHANGED <<watchdog, gate, runLock, runner>>
          /\ record' = [record EXCEPT !.child = None]
      BY <1>5 DEF RestartChild, Supervises, ServiceAt, Owners
    <2>3. QED
      BY <1>1, <2>1, <2>2, ChildStepKeeps DEF ServiceMoves, OwnersShape
  <1>6. QED
    BY <1>2, <1>3, <1>4, <1>5, GateKeeps, ProbeLockKeeps, SuperviseKeeps DEF ServiceStep

-----------------------------------------------------------------------------
(* The consumers.                                                          *)
LEMMA ConsumerStepKeeps ==
    ASSUME Numbers, OwnersInv, NEW c \in Runners, RunnerStep(c)
    PROVE  OwnersInv'
  <1>1. OwnersShape /\ GateIsHeld /\ LockIsHeld /\ RecordIsTheOwners
    BY DEF OwnersInv
  <1>2. CASE Ended(c, "conflict")
    <2>1. UNCHANGED <<watchdog, record>>
      BY <1>2 DEF RunnerStep, PassGate, TakeLock, Begin, Files, Ended, GoConsumer
    <2>2. QED
      BY <1>2, <2>1, EndedKeeps
  <1>3. ASSUME NEW at \in {"lock", "legacy", "run"}, GoConsumer(c, at),
               UNCHANGED <<watchdog, service, record>>,
               gate' = gate \/ (gate = None /\ gate' = c),
               at = "lock" => UNCHANGED runLock,
               at = "legacy" => runLock = None /\ runLock' = c,
               at = "run" => ConsumerAt(c, "legacy") /\ UNCHANGED runLock
        PROVE  OwnersInv'
    <2>1. runner' \in [Runners -> ConsumerRecords] /\ ConsumerMoves(c, at)
      BY <1>1, <1>3, GoConsumerMoves DEF ConsumerPhases
    <2>2. OwnersShape' /\ RecordIsTheOwners'
      BY <1>1, <1>3, <2>1 DEF OwnersShape, RecordIsTheOwners, Supervises
    <2>3. GateIsHeld'
      BY <1>1, <1>3 DEF GateIsHeld, Numbers
    <2>4. LockIsHeld'
      BY <1>1, <1>3, <2>1 DEF LockIsHeld, ServiceAt, ConsumerAt, ConsumerMoves, Numbers
    <2>5. QED
      BY <2>2, <2>3, <2>4 DEF OwnersInv
  <1>4. CASE PassGate(c)
    BY <1>2, <1>3, <1>4 DEF PassGate, Files
  <1>5. CASE TakeLock(c)
    BY <1>2, <1>3, <1>5 DEF TakeLock, Files
  <1>6. CASE Begin(c)
    BY <1>2, <1>3, <1>6 DEF Begin, Owners
  <1>7. QED
    BY <1>4, <1>5, <1>6 DEF RunnerStep

-----------------------------------------------------------------------------
(* Starts and ends from outside.                                           *)

(* What the children of a supervisor hold is free when they end with it.   *)
LEMMA TakenMoves ==
    ASSUME Numbers, OwnersShape, NEW v \in Services, TakesChildren(v)
    PROVE  /\ runner' \in [Runners -> ConsumerRecords] /\ ConsumersEnd
           /\ \A u \in Services \ {v} : (gate = u => gate' = u) /\ (runLock = u => runLock' = u)
           /\ gate = "watchdog" => gate' = gate
           /\ \A c \in Runners : runLock = c /\ runner'[c].at # "none" => runLock' = c
  <1> DEFINE children == {c \in Runners : DiesWith(v, c)}
  <1>1. /\ runner' = [c \in Runners |-> IF c \in children THEN NoConsumer ELSE runner[c]]
        /\ gate' = (IF gate \in children \cup {v} THEN None ELSE gate)
        /\ runLock' = (IF runLock \in children \cup {v} THEN None ELSE runLock)
    BY DEF TakesChildren
  <1>2. NoConsumer \in ConsumerRecords /\ NoConsumer.at = "none"
    BY DEF ConsumerRecords, NoConsumer, ConsumerPhases
  <1>3. runner' \in [Runners -> ConsumerRecords] /\ ConsumersEnd
        /\ \A c \in Runners : runner'[c].at # "none" => ~DiesWith(v, c)
    BY <1>1, <1>2 DEF OwnersShape, ConsumersEnd
  <1>4. QED
    BY <1>1, <1>3 DEF Numbers

(* With a supervisor its children end, or live on with what they hold.     *)
LEMMA ServiceKilledKeeps ==
    ASSUME Numbers, OwnersInv, NEW v \in Services,
           service' = [service EXCEPT ![v] = NoService],
           TakesChildren(v) \/ Orphans(v), UNCHANGED watchdog,
           \/ UNCHANGED record
           \/ Supervises(v) /\ record' = [record EXCEPT !.child = None, !.active = FALSE]
    PROVE  OwnersInv'
  <1>1. OwnersShape /\ GateIsHeld /\ LockIsHeld /\ RecordIsTheOwners
    BY DEF OwnersInv
  <1>2. service' \in [Services -> ServiceRecords] /\ ServiceMoves(v, "none")
    BY <1>1, NoServiceMoves
  <1>3. /\ runner' \in [Runners -> ConsumerRecords] /\ ConsumersEnd
        /\ \A u \in Services \ {v} : (gate = u => gate' = u) /\ (runLock = u => runLock' = u)
        /\ gate = "watchdog" => gate' = gate
        /\ \A c \in Runners : runLock = c /\ runner'[c].at # "none" => runLock' = c
    <2>1. CASE TakesChildren(v)
      BY <1>1, <2>1, TakenMoves
    <2>2. CASE Orphans(v)
      <3>1. \A c \in Runners : /\ [runner[c] EXCEPT !.parent = "init"] \in ConsumerRecords
                                 /\ [runner[c] EXCEPT !.parent = "init"].at = runner[c].at
        BY <1>1, ConsumerParts DEF OwnersShape
      <3>2. runner' \in [Runners -> ConsumerRecords] /\ ConsumersEnd
        BY <1>1, <2>2, <3>1 DEF Orphans, OwnersShape, ConsumersEnd
      <3>3. gate' = FreedBy(v, gate) /\ runLock' = FreedBy(v, runLock)
        BY <2>2 DEF Orphans
      <3>4. QED
        BY <3>2, <3>3 DEF FreedBy, Numbers
    <2>3. QED
      BY <2>1, <2>2
  <1>4. OwnersShape'
    BY <1>1, <1>2, <1>3 DEF OwnersShape
  <1>5. GateIsHeld'
    BY <1>1, <1>2, <1>3 DEF GateIsHeld, ServiceMoves
  <1>6. LockIsHeld'
    BY <1>1, <1>2, <1>3 DEF LockIsHeld, ServiceAt, ServiceMoves, ConsumersEnd
  <1>7. RecordIsTheOwners'
    <2>1. CASE UNCHANGED record
      BY <1>1, <1>2, <2>1 DEF RecordIsTheOwners, Supervises, ServiceMoves
    <2>2. CASE Supervises(v)
      <3>1. \A u \in Services \ {v} : ~Supervises(u)
        BY <1>1, <2>2 DEF GateIsHeld, Supervises
      <3>2. QED
        BY <1>2, <3>1 DEF RecordIsTheOwners, Supervises, ServiceMoves
    <2>3. QED
      BY <2>1, <2>2
  <1>8. QED
    BY <1>4, <1>5, <1>6, <1>7 DEF OwnersInv

\* Starts by hand, stops and kills free what the process held and nothing
\* else.
LEMMA OutsideKeeps ==
    ASSUME Numbers, OwnersInv,
           \/ \E v \in Services : StartByHand(v) \/ StopService(v) \/ KillService(v)
           \/ \E c \in Runners : StartDirectly(c) \/ StopConsumer(c) \/ KillConsumer(c)
    PROVE  OwnersInv'
  <1>1. OwnersShape /\ GateIsHeld /\ LockIsHeld /\ RecordIsTheOwners
    BY DEF OwnersInv
  <1>2. ASSUME NEW v \in Services, StartByHand(v)
        PROVE  OwnersInv'
    <2>1. service' \in [Services -> ServiceRecords] /\ ServiceMoves(v, "gate")
      BY <1>1, <1>2, GoServiceMoves DEF StartByHand, ServicePhases
    <2>2. UNCHANGED <<watchdog, runner, gate, runLock, record>>
      BY <1>2 DEF StartByHand, Owners, Files
    <2>3. OwnersShape'
      BY <1>1, <2>1, <2>2 DEF OwnersShape
    <2>4. GateIsHeld' /\ LockIsHeld'
      BY <1>1, <2>1, <2>2 DEF GateIsHeld, LockIsHeld, ServiceAt, ServiceMoves
    <2>5. RecordIsTheOwners'
      BY <1>1, <2>1, <2>2 DEF RecordIsTheOwners, Supervises, ServiceMoves
    <2>6. QED
      BY <2>3, <2>4, <2>5 DEF OwnersInv
  <1>3. ASSUME NEW v \in Services, StopService(v)
        PROVE  OwnersInv'
    BY <1>3, ServiceKilledKeeps DEF StopService, Supervises
  <1>4. ASSUME NEW v \in Services, KillService(v)
        PROVE  OwnersInv'
    BY <1>4, ServiceKilledKeeps DEF KillService, Files
  <1>5. ASSUME NEW c \in Runners, StartDirectly(c)
        PROVE  OwnersInv'
    <2>1. runner' \in [Runners -> ConsumerRecords] /\ ConsumerMoves(c, "gate")
      <3>1. [at |-> "gate", parent |-> "shell"] \in ConsumerRecords
        BY DEF ConsumerRecords, ConsumerPhases
      <3>2. QED
        BY <1>1, <1>5, <3>1 DEF StartDirectly, OwnersShape, ConsumerMoves
    <2>2. UNCHANGED <<watchdog, service, gate, runLock, record>>
      BY <1>5 DEF StartDirectly, Owners, Files
    <2>3. OwnersShape' /\ GateIsHeld' /\ RecordIsTheOwners'
      BY <1>1, <2>1, <2>2 DEF OwnersShape, GateIsHeld, RecordIsTheOwners, Supervises
    <2>4. LockIsHeld'
      BY <1>1, <2>1, <2>2 DEF LockIsHeld, ServiceAt, ConsumerMoves
    <2>5. QED
      BY <2>3, <2>4 DEF OwnersInv
  <1>6. ASSUME NEW c \in Runners, StopConsumer(c) \/ KillConsumer(c)
        PROVE  OwnersInv'
    BY <1>6, EndedKeeps DEF StopConsumer, KillConsumer, Files
  <1>7. QED
    BY <1>2, <1>3, <1>4, <1>5, <1>6

-----------------------------------------------------------------------------
\* Nobody runs when the watchdog starts.
LEMMA OwnersInvInit == OwnersInit => OwnersInv
  <1>1. SUFFICES ASSUME OwnersInit
                 PROVE  OwnersInv
    OBVIOUS
  <1>2. /\ \A v \in Services : service[v].at = "none"
        /\ \A c \in Runners : runner[c].at = "none"
        /\ watchdog.at = "probe"
    BY <1>1 DEF OwnersInit, NoService, NoConsumer
  <1>3. OwnersShape
    BY <1>1 DEF OwnersInit, OwnersShape, NoService, NoConsumer, ServiceRecords, ConsumerRecords,
       ServicePhases, ConsumerPhases
  <1>4. GateIsHeld /\ LockIsHeld /\ RecordIsTheOwners
    BY <1>2 DEF GateIsHeld, LockIsHeld, RecordIsTheOwners, Supervises, ServiceAt
  <1>5. QED
    BY <1>3, <1>4 DEF OwnersInv

\* Every step keeps the invariant of the supervision.
LEMMA OwnersInvStep == ASSUME Numbers PROVE OwnersInv /\ [OwnersNext]_ownersVars => OwnersInv'
  <1>1. SUFFICES ASSUME OwnersInv, [OwnersNext]_ownersVars
                 PROVE  OwnersInv'
    OBVIOUS
  <1>2. CASE UNCHANGED ownersVars
    BY <1>1, <1>2 DEF ownersVars, OwnersInv, OwnersShape, GateIsHeld, LockIsHeld, RecordIsTheOwners,
       Supervises, ServiceAt
  <1>3. CASE OwnersNext
    BY <1>1, <1>3, WatchdogKeeps, ServiceStepKeeps, ConsumerStepKeeps, OutsideKeeps DEF OwnersNext
  <1>4. QED
    BY <1>1, <1>2, <1>3

(* The inductive invariant of the supervision: types, who holds the gate   *)
(* and the lock of the consumers, and whose record there is.               *)
THEOREM OwnersInductive == OwnersSpec => []OwnersInv
  <1>1. OwnersInv /\ [OwnersNext]_ownersVars => OwnersInv'
    BY OwnersInvStep, NumbersAssumption
  <1>2. QED
    BY <1>1, OwnersInvInit, PTL DEF OwnersSpec

(* Whoever starts a supervisor or a consumer, and however they end, one    *)
(* consumer works on the queue; while a supervisor supervises, the record  *)
(* names it, whatever refused or killed ones did.                          *)
THEOREM OwnersClear == OwnersSpec => []OwnersAreClear
  <1>1. OwnersInv => OwnersAreClear
    <2>1. SUFFICES ASSUME OwnersInv
                   PROVE  OwnersAreClear
      OBVIOUS
    <2>2. OneConsumer
      BY <2>1 DEF OwnersInv, LockIsHeld, OneConsumer, ConsumerAt
    <2>3. QED
      BY <2>1, <2>2 DEF OwnersInv, OwnersAreClear
  <1>2. OwnersSpec => []OwnersInv
    BY OwnersInductive
  <1>3. QED
    BY <1>1, <1>2, PTL
=============================================================================
