------------------------------ MODULE RawDrain ------------------------------
(***************************************************************************)
(* RawWatchdogHandler of watchdog_app: events of raw files, debounced per  *)
(* path, set a dirty bit; one task of a pool of one thread drains it with  *)
(* scans of the whole tree, a batch of files at a time.  The end of the    *)
(* watchdog closes the handler, at once or after what was accepted.        *)
(***************************************************************************)
EXTENDS FiniteSets, Naturals

CONSTANTS
    Files,
    Batch,   \* files one scan enqueues
    MaxEdits,    \* bound: changes of files
    MaxFaults    \* bound: scans and schedules that fail

ASSUME BatchAssumption == Batch \in Nat \ {0}

VARIABLES
    due,         \* files whose content no scan has enqueued
    events,      \* paths with an event that watchfiles has not delivered
    recent,      \* paths in last_triggered for less than DEBOUNCE_SECONDS
    flags,       \* _sync_dirty, _sync_running, _closing, _drain_on_close
    drain,       \* the task of the pool: its phase, and of its scan the files
                 \* looked at, enqueued and left over
    owed,        \* history: paths with an accepted event that no scan answered
    taken,       \* history: those the running scan has to answer
    edits, faults

drainVars == <<due, events, recent, flags, drain, owed, taken, edits, faults>>

NoDrain == [at |-> "none", looked |-> {}, enqueued |-> 0, remaining |-> 0]
Checking == [NoDrain EXCEPT !.at = "check"]

DrainInit ==
    /\ due = {} /\ events = {} /\ recent = {}
    /\ flags = [dirty |-> FALSE, running |-> FALSE, closing |-> FALSE, finish |-> FALSE]
    /\ drain = NoDrain
    /\ owed = {} /\ taken = {}
    /\ edits = 0 /\ faults = 0

Fault == faults < MaxFaults /\ faults' = faults + 1

-----------------------------------------------------------------------------
\* Operators with a suffix after an underscore are faulty variants: they show
\* which property would notice, and no specification uses them.

(* The watcher.                                                            *)

\* A file under raw/ is written; the watcher's thread gets an event for it.
Change(p) ==
    /\ edits < MaxEdits /\ edits' = edits + 1
    /\ due' = due \cup {p} /\ events' = events \cup {p}
    /\ UNCHANGED <<recent, flags, drain, owed, taken, faults>>

\* handle_event, after its filters.
Delivered(p) == p \in events /\ events' = events \ {p}
Ignore(p) ==
    /\ Delivered(p)
    /\ flags.closing \/ p \in recent
    /\ UNCHANGED <<due, recent, flags, drain, owed, taken, edits, faults>>

Accepts(p) ==
    /\ Delivered(p)
    /\ ~flags.closing /\ p \notin recent
    /\ recent' = recent \cup {p}
    /\ UNCHANGED <<due, edits>>

\* The running drain will see the dirty bit, or a task is submitted.
Coalesce(p) ==
    /\ Accepts(p) /\ flags.running
    /\ flags' = [flags EXCEPT !.dirty = TRUE]
    /\ owed' = owed \cup {p} /\ taken' = taken \ {p}
    /\ UNCHANGED <<drain, faults>>
Submit(p) ==
    /\ Accepts(p) /\ ~flags.running
    /\ flags' = [flags EXCEPT !.dirty = TRUE, !.running = TRUE]
    /\ drain' = Checking
    /\ owed' = owed \cup {p} /\ taken' = taken \ {p}
    /\ UNCHANGED faults

\* "Failed to schedule raw-source sync": the dirty bit waits for an event.
SubmitFails(p) ==
    /\ Accepts(p) /\ ~flags.running /\ Fault
    /\ flags' = [flags EXCEPT !.dirty = TRUE]
    /\ UNCHANGED <<drain, owed, taken>>

\* Three seconds later, or the path is the oldest of 1024.
Forget(p) ==
    /\ p \in recent
    /\ recent' = recent \ {p}
    /\ UNCHANGED <<due, events, flags, drain, owed, taken, edits, faults>>

-----------------------------------------------------------------------------
(* _drain_sync.                                                            *)

\* Closed without waiting, the task leaves what it has not scanned: the warning
\* tells the operator to sync.
Stopped == flags.closing /\ ~flags.finish
Return ==
    /\ drain.at = "check" /\ (Stopped \/ ~flags.dirty)
    /\ flags' = [flags EXCEPT !.running = FALSE]
    /\ drain' = NoDrain
    /\ owed' = IF Stopped THEN {} ELSE owed
    /\ UNCHANGED <<due, events, recent, taken, edits, faults>>

\* The bit is cleared before the scan looks at anything.
Begin ==
    /\ drain.at = "check" /\ ~Stopped /\ flags.dirty
    /\ flags' = [flags EXCEPT !.dirty = FALSE]
    /\ drain' = [NoDrain EXCEPT !.at = "scan"]
    /\ taken' = owed
    /\ UNCHANGED <<due, events, recent, owed, edits, faults>>

\* sync_vector_lake: a file is enqueued while the batch has room, or counted.
ToLook(p) == drain.at = "scan" /\ p \notin drain.looked
Room == drain.enqueued < Batch
EnqueueFile(p) ==
    /\ ToLook(p) /\ p \in due /\ Room
    /\ drain' = [drain EXCEPT !.looked = @ \cup {p}, !.enqueued = @ + 1]
    /\ due' = due \ {p} /\ owed' = owed \ {p} /\ taken' = taken \ {p}
    /\ UNCHANGED <<events, recent, flags, edits, faults>>
LeaveOver(p) ==
    /\ ToLook(p) /\ p \in due /\ ~Room
    /\ drain' = [drain EXCEPT !.looked = @ \cup {p}, !.remaining = @ + 1]
    /\ UNCHANGED <<due, events, recent, flags, owed, taken, edits, faults>>
Skip(p) ==
    /\ ToLook(p) /\ p \notin due
    /\ drain' = [drain EXCEPT !.looked = @ \cup {p}]
    /\ owed' = owed \ {p} /\ taken' = taken \ {p}
    /\ UNCHANGED <<due, events, recent, flags, edits, faults>>

\* Files left over and some enqueued: another round.
Again_Never == FALSE
Again == drain.remaining > 0 /\ drain.enqueued > 0
Finish_Resets ==
    /\ drain.at = "scan" /\ drain.looked = Files
    /\ flags' = [flags EXCEPT !.dirty = Again]
    /\ drain' = Checking /\ taken' = {}
    /\ UNCHANGED <<due, events, recent, owed, edits, faults>>
Finish ==
    /\ drain.at = "scan" /\ drain.looked = Files
    /\ flags' = [flags EXCEPT !.dirty = @ \/ Again]
    /\ drain' = Checking /\ taken' = {}
    /\ UNCHANGED <<due, events, recent, owed, edits, faults>>

\* The scan raises; what it had to answer waits for another event.
SyncFails ==
    /\ drain.at = "scan" /\ Fault
    /\ drain' = Checking
    /\ owed' = owed \ taken /\ taken' = {}
    /\ UNCHANGED <<due, events, recent, flags, edits>>

-----------------------------------------------------------------------------
\* shutdown(wait): later calls may only ask for more.
Shutdown(wait) ==
    /\ wait => ~flags.finish
    /\ flags' = [flags EXCEPT !.closing = TRUE, !.finish = @ \/ wait]
    /\ flags' # flags
    /\ UNCHANGED <<due, events, recent, drain, owed, taken, edits, faults>>

Deliver(p) == Ignore(p) \/ Coalesce(p) \/ Submit(p) \/ SubmitFails(p)
Look(p) == EnqueueFile(p) \/ LeaveOver(p) \/ Skip(p)
DrainStep == Return \/ Begin \/ (\E p \in Files : Look(p)) \/ Finish \/ SyncFails

DrainNext ==
    \/ \E p \in Files : Change(p) \/ Deliver(p) \/ Forget(p)
    \/ DrainStep
    \/ \E wait \in BOOLEAN : Shutdown(wait)

DrainSpec == DrainInit /\ [][DrainNext]_drainVars

\* The pool's thread goes on.
DrainFairSpec == DrainSpec /\ WF_drainVars(DrainStep)

-----------------------------------------------------------------------------
(* Correctness.                                                            *)

\* Type invariant.
DrainTypeOK ==
    /\ due \in SUBSET Files /\ events \in SUBSET Files /\ recent \in SUBSET Files
    /\ flags \in [dirty : BOOLEAN, running : BOOLEAN, closing : BOOLEAN, finish : BOOLEAN]
    /\ drain \in [at : {"none", "check", "scan"}, looked : SUBSET Files,
                  enqueued : Nat, remaining : Nat]
    /\ owed \in SUBSET Files /\ taken \in SUBSET Files
    /\ edits \in Nat /\ faults \in Nat

\* No accepted event is lost between a drain that decides to stop and the
\* handler that decides not to start one: while a path waits for its scan, a
\* task runs, and the dirty bit is set or the scan still has to look at it or
\* will ask for another one.
NothingForgotten ==
    /\ flags.running <=> drain.at # "none"
    /\ \A p \in owed : flags.running /\ (flags.dirty \/ p \in taken)
    /\ \A p \in taken : ToLook(p) \/ (drain.at = "scan" /\ Again)

\* Every accepted event is answered: a scan that looks at the file afterwards
\* enqueues what it holds, through as many batches as it takes, unless that
\* scan fails or the handler is closed without waiting.
EventsAreScanned == \A p \in Files : []<>(p \notin owed)
=============================================================================
