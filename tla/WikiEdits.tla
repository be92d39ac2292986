------------------------------ MODULE WikiEdits ------------------------------
(***************************************************************************)
(* People edit the Markdown files as well.  The watcher of the wiki        *)
(* directory (watchdog_app.WikiIndexHandler) sees that a file changed,     *)
(* ignores what the coordinator wrote itself and queues the page, at most  *)
(* once per debounce interval; the consumer thread (index_worker_loop)     *)
(* alternates outbox batches with batches of queued pages, and takes what  *)
(* a person wrote into the canonical tables (canonicalise_manual_edits)    *)
(* through the same write path as everybody else.                          *)
(*                                                                         *)
(* This module composes these two with MutationOutbox.  Watcher and        *)
(* consumer thread live in one process, of which there is one.  Nobody     *)
(* asks a person to take a page lock.                                      *)
(***************************************************************************)
EXTENDS MutationOutbox

CONSTANTS
    Daemon,    \* the consumer thread
    Editor,    \* the same thread when it runs execute_mutation_plan
    BadTexts,  \* texts that validation refuses
    MaxEdits   \* bound: edits by hand

ASSUME EditsAssumption ==
    /\ Consumers = {Daemon}
    /\ Editor \in Writers
    /\ BadTexts \cap (Payloads \cup {Keep}) = {}
    /\ MaxEdits \in Nat

VARIABLES
    stir,     \* pages with a change the watcher has not been told of
    recent,   \* last_triggered: pages queued less than the debounce ago
    queue,    \* index_queue
    legacy,   \* pending_legacy: the batch in hand
    turn,     \* where index_worker_loop is
    hand,     \* history: the file was last written by a person
    reported, \* history: the last canonicalisation of the text failed
    missed,   \* history: the last change by hand was never queued
    edits     \* counter of the bound

watchVars == <<stir, recent, queue, missed>>
loopVars  == <<legacy, turn>>
editVars  == <<watchVars, loopVars, hand, reported, edits>>
allVars   == <<vars, editVars>>

EditsInit ==
    /\ Init
    /\ stir = {} /\ recent = {} /\ queue = {} /\ legacy = {}
    /\ turn = "outbox"
    /\ hand = {} /\ reported = {} /\ missed = {}
    /\ edits = 0

\* Operators with a suffix after an underscore are faulty variants of the
\* definition they precede; no specification uses them.

\* As if any outbox row of the page were about the file as it is now.
Managed_ByPage(p) == \E k \in KeysOf(p) : Latest(k)

\* What the latest outbox row of the page says of the file as it is now
\* (is_managed_projection_state).
Managed(p) == \E k \in KeysOf(p) : Latest(k) /\ k[2] = file[p]

\* A program changes files: the watcher will hear of it.
Rewritten == {p \in Pages : file'[p] # file[p]}
ByProgram == /\ stir' = stir \cup Rewritten
             /\ hand' = hand \ Rewritten

Committing(w) == wr[w].phase = "locking" /\ wr'[w].phase = "projecting"

-----------------------------------------------------------------------------
(* People and other writers.                                               *)

HandEdit(p, t) ==
    /\ edits < MaxEdits
    /\ t # file[p]
    /\ file' = [file EXCEPT ![p] = t]
    /\ stir' = stir \cup {p}
    /\ hand' = hand \cup {p}
    /\ reported' = reported \ {p}
    /\ edits' = edits + 1
    /\ UNCHANGED <<canon, index, box, lock, wr, con, writes, upsets,
                   recent, queue, missed, loopVars>>

OtherWriter(w) ==
    /\ WriterStep(w)
    /\ ByProgram
    /\ reported' = IF Committing(w) THEN reported \ Touched(w) ELSE reported
    /\ UNCHANGED <<recent, queue, missed, loopVars, edits>>

-----------------------------------------------------------------------------
(* The watcher: WikiIndexHandler.queue_path.                               *)

\* An event of a page that was queued a moment ago is dropped.
QueuePath(p) ==
    IF p \in recent
    THEN /\ missed' = missed \cup {p}
         /\ UNCHANGED <<recent, queue>>
    ELSE /\ recent' = recent \cup {p}
         /\ queue' = queue \cup {p}
         /\ missed' = missed \ {p}

\* The event is classified by the file and the outbox as they are now.
Notice(p) ==
    /\ p \in stir
    /\ stir' = stir \ {p}
    /\ IF Managed(p) THEN UNCHANGED <<recent, queue, missed>> ELSE QueuePath(p)
    /\ UNCHANGED <<vars, loopVars, hand, reported, edits>>

\* The classification raises: the page is queued without it.
NoticeBlind(p) ==
    /\ p \in stir
    /\ Upset
    /\ stir' = stir \ {p}
    /\ QueuePath(p)
    /\ UNCHANGED <<canon, file, index, box, lock, wr, con, writes, loopVars,
                   hand, reported, edits>>

DebounceEnds(p) ==
    /\ p \in recent
    /\ recent' = recent \ {p}
    /\ UNCHANGED <<vars, stir, queue, missed, loopVars, hand, reported, edits>>

-----------------------------------------------------------------------------
(* The consumer thread: index_worker_loop.                                 *)

\* process_mutation_outbox_batch, once per round.
DaemonDrains ==
    /\ turn = "outbox"
    /\ ConsumerWork(Daemon)
    /\ ByProgram
    /\ turn' = IF con'[Daemon].phase = "idle" THEN "edits" ELSE "outbox"
    /\ UNCHANGED <<recent, queue, missed, legacy, reported, edits>>

DaemonIdle ==
    /\ turn = "outbox"
    /\ con[Daemon].phase = "idle"
    /\ \A k \in Keys : ~Claimable(k)
    /\ turn' = "edits"
    /\ UNCHANGED <<vars, watchVars, legacy, hand, reported, edits>>

\* At most 25 pages a round, more than any instance has.
DaemonTakes ==
    /\ turn = "edits"
    /\ legacy' = queue
    /\ queue' = {}
    /\ turn' = IF queue = {} THEN "outbox" ELSE "canonicalise"
    /\ UNCHANGED <<vars, stir, recent, missed, hand, reported, edits>>

\* Something else in the round raises: the queue waits for the next round.
DaemonSkips ==
    /\ turn = "edits"
    /\ Upset
    /\ turn' = "outbox"
    /\ UNCHANGED <<canon, file, index, box, lock, wr, con, writes, watchVars,
                   legacy, hand, reported, edits>>

\* The next page of the sorted batch, while no plan is being executed.
NextPage(p) ==
    /\ turn = "canonicalise"
    /\ wr[Editor].phase = "idle"
    /\ p \in legacy
    /\ \A q \in legacy : p <= q

\* Refused by the health gate or by validation, before anything is locked
\* for writing; the file stays.
Refused(p) == ~GateOpen \/ file[p] \in BadTexts

EditRead_NoRecheck(p) ==
    /\ NextPage(p)
    /\ lock[p] = Nobody
    /\ ~Refused(p)
    /\ legacy' = legacy \ {p}
    /\ lock' = [lock EXCEPT ![p] = Editor]
    /\ wr' = [wr EXCEPT ![Editor] =
                 [phase |-> "locking",
                  batch |-> [q \in Pages |-> IF q = p THEN file[p] ELSE Keep]]]
    /\ UNCHANGED <<canon, file, index, box, con, writes, upsets,
                   watchVars, turn, hand, reported, edits>>

\* Under the page lock the file is read and, unless the outbox has produced
\* it, made a mutation of one page; the lock is kept for the mutation.
EditRead(p) ==
    /\ NextPage(p)
    /\ lock[p] = Nobody
    /\ ~Managed(p)
    /\ ~Refused(p)
    /\ legacy' = legacy \ {p}
    /\ lock' = [lock EXCEPT ![p] = Editor]
    /\ wr' = [wr EXCEPT ![Editor] =
                 [phase |-> "locking",
                  batch |-> [q \in Pages |-> IF q = p THEN file[p] ELSE Keep]]]
    /\ UNCHANGED <<canon, file, index, box, con, writes, upsets,
                   watchVars, turn, hand, reported, edits>>

EditSkip(p) ==
    /\ NextPage(p)
    /\ lock[p] = Nobody
    /\ Managed(p)
    /\ legacy' = legacy \ {p}
    /\ UNCHANGED <<vars, watchVars, turn, hand, reported, edits>>

EditRefused(p) ==
    /\ NextPage(p)
    /\ lock[p] = Nobody
    /\ ~Managed(p)
    /\ Refused(p)
    /\ legacy' = legacy \ {p}
    /\ reported' = reported \cup {p}
    /\ UNCHANGED <<vars, watchVars, turn, hand, edits>>

\* The lock wait times out, or the file cannot be read.
EditFails(p) ==
    /\ NextPage(p)
    /\ Upset
    /\ legacy' = legacy \ {p}
    /\ reported' = reported \cup {p}
    /\ UNCHANGED <<canon, file, index, box, lock, wr, con, writes, watchVars,
                   turn, hand, edits>>

\* execute_mutation_plan, once the text is read.
EditPlan ==
    /\ turn = "canonicalise"
    /\ \/ WriterCommit(Editor) \/ WriterDone(Editor)
       \/ \E p \in Pages : WriterProject(Editor, p) \/ WriterDefer(Editor, p)
    /\ ByProgram
    /\ reported' = IF Committing(Editor) THEN reported \ Touched(Editor)
                                         ELSE reported
    /\ UNCHANGED <<recent, queue, missed, loopVars, edits>>

EditAborts ==
    /\ WriterAbort(Editor)
    /\ reported' = reported \cup Touched(Editor)
    /\ UNCHANGED <<watchVars, loopVars, hand, edits>>

DaemonReturns ==
    /\ turn = "canonicalise"
    /\ legacy = {}
    /\ wr[Editor].phase = "idle"
    /\ turn' = "outbox"
    /\ UNCHANGED <<vars, watchVars, legacy, hand, reported, edits>>

\* The watchdog process ends and starts again: queue, debounce table and
\* the changes it was not yet told of are gone; its locks are free.
DaemonRestarts ==
    /\ Upset
    /\ lock' = [p \in Pages |-> IF lock[p] \in {Daemon, Editor} THEN Nobody
                                                                ELSE lock[p]]
    /\ con' = [con EXCEPT ![Daemon] = IdleConsumer]
    /\ wr' = [wr EXCEPT ![Editor] = IdleWriter]
    /\ stir' = {} /\ recent' = {} /\ queue' = {} /\ legacy' = {}
    /\ turn' = "outbox"
    /\ missed' = missed \cup stir \cup queue \cup legacy
                 \cup (IF wr[Editor].phase = "locking" THEN Touched(Editor) ELSE {})
    /\ UNCHANGED <<canon, file, index, box, writes, hand, reported, edits>>

EditStep == \/ \E p \in Pages : EditRead(p) \/ EditSkip(p) \/ EditRefused(p)
            \/ EditPlan

LoopStep == DaemonDrains \/ DaemonIdle \/ DaemonTakes \/ EditStep \/ DaemonReturns

TimePasses ==
    /\ \E k \in Keys : LeaseLapses(k) \/ BackoffEnds(k)
    /\ UNCHANGED editVars

EditsNext ==
    \/ \E p \in Pages : \/ \E t \in Payloads \cup BadTexts : HandEdit(p, t)
                        \/ Notice(p) \/ NoticeBlind(p) \/ DebounceEnds(p)
                        \/ EditFails(p)
    \/ \E w \in Writers \ {Editor} : OtherWriter(w)
    \/ LoopStep \/ DaemonSkips \/ EditAborts \/ DaemonRestarts
    \/ TimePasses

EditsSpec == EditsInit /\ [][EditsNext]_allVars

\* The consumer thread goes on (a page lock that is free again and again is
\* obtained), a writer that started runs on, the watcher is told of changes,
\* and time passes.
EditsFairness ==
    /\ SF_allVars(DaemonDrains)
    /\ WF_allVars(DaemonIdle \/ DaemonTakes \/ DaemonReturns)
    /\ SF_allVars(EditStep)
    /\ \A w \in Writers \ {Editor} :
          /\ SF_allVars(WriterLock(w) /\ OtherWriter(w))
          /\ WF_allVars(/\ \/ WriterCommit(w) \/ WriterDone(w)
                           \/ \E p \in Pages : WriterProject(w, p)
                        /\ OtherWriter(w))
    /\ \A p \in Pages : WF_allVars(Notice(p)) /\ WF_allVars(DebounceEnds(p))
    /\ WF_allVars(TimePasses)

EditsFairSpec == EditsSpec /\ EditsFairness

-----------------------------------------------------------------------------
(* Correctness.                                                            *)

\* A completed row means what it says in the presence of people, too: the
\* index shows the canonical text, and so does the file unless somebody has
\* written it by hand since.
CompletedOrEdited ==
    \A k \in Keys : Latest(k) /\ box[k].status = "completed" =>
        /\ index[k[1]] = canon[k[1]]
        /\ file[k[1]] = canon[k[1]] \/ k[1] \in hand

\* Page locks and the second look at the outbox keep the loop from feeding on
\* its own output: as long as nothing was interrupted, what canonicalise_manual_edits commits was
\* written by a person.
Canonicalised == {p \in Pages : /\ wr[Editor].phase = "idle"
                                /\ wr'[Editor].batch[p] # Keep}
OnlyEditsUnlessUpset == [][upsets = 0 => Canonicalised \subseteq hand]_allVars

\* Nothing but a report, a failed row, a restart or the debounce stands
\* between a file and its canonical text for ever.
Settled(p) == \/ Shown(p)
              \/ p \in reported \cup missed
              \/ \E k \in KeysOf(p) : box[k].status = "failed"
EditsSettle == \A p \in Pages : []<>Settled(p)
=============================================================================
