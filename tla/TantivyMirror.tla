--------------------------- MODULE TantivyMirror ---------------------------
(***************************************************************************)
(* The optional tantivy copy of the full-text table.  Every change of the  *)
(* FTS5 table leaves an intent for its key in the same transaction         *)
(* (db_store._enqueue_tantivy_intent); workers replay intents into the     *)
(* native index in small durable steps (tantivy_index.replay_pending)      *)
(* under one file lock which the writers of the table never take; readers  *)
(* (search_wiki, search_if_current) use the copy only between two equal    *)
(* readings of the control row, and fall back to FTS5 otherwise.           *)
(*                                                                         *)
(* A search returns everything indexed: ranking and the query are left     *)
(* out.  Keys are numbered in the order of their names.  A native index is *)
(* known by its incarnation, unique on disk; 0 stands for a directory that *)
(* is missing or not recognised (_disk_identity is None).                  *)
(***************************************************************************)
EXTENDS Integers, FiniteSets, FiniteSetsExt

CONSTANTS
    Keys,         \* node keys, numbered in name order
    Texts,        \* row contents
    BigTexts,     \* contents above max_bytes
    Workers,      \* processes that call replay_pending
    MaxRows,      \* max_rows of a step
    MaxAttempts,  \* max_attempts of an intent and of a clear
    MaxWrites,    \* bound: transactions on the FTS table
    MaxUpsets     \* bound: crashes, native errors, lost storage, rebuilds

Gone   == "gone"    \* content of an absent row or document
Nobody == "nobody"  \* holder of a free lock

ASSUME MirrorAssumption ==
    /\ Keys \subseteq Nat /\ IsFiniteSet(Keys)
    /\ BigTexts \subseteq Texts /\ Gone \notin Texts
    /\ Nobody \notin Workers
    /\ MaxRows \in Nat \ {0} /\ MaxAttempts \in Nat \ {0}
    /\ MaxWrites \in Nat /\ MaxUpsets \in Nat

Contents == Texts \cup {Gone}

VARIABLES
    fts,     \* wiki_search_index: rowid and text of each key, rowid 0 if none
    mirror,  \* the row of tantivy_mirror_state
    queue,   \* tantivy_mirror_queue: at most one intent a key
    disk,    \* the native index directory
    born,    \* incarnations handed out so far
    lock,    \* tantivy-writer.lock with the process lock
    worker,  \* what a replay step has read
    reader,  \* what a search has read
    writes, upsets

tableVars  == <<fts, mirror, queue>>
nativeVars == <<disk, born>>
vars == <<tableVars, nativeVars, lock, worker, reader, writes, upsets>>

NoRow    == [row |-> 0, text |-> Gone]
NoIntent == [op |-> "none", epoch |-> 0, gen |-> 0, row |-> 0,
             attempts |-> 0, due |-> TRUE]
NoTexts  == [k \in Keys |-> Gone]
NoToken  == [revision |-> 0, epoch |-> 0, inc |-> 0]
IdleWorker == [pc |-> "idle", epoch |-> 0, inc |-> 0, ident |-> 0,
               batch |-> 0, items |-> {}, oversize |-> {}]
IdleReader == [pc |-> "idle", token |-> NoToken, rows |-> NoTexts,
               meta |-> NoTexts]

Queued == {k \in Keys : queue[k].op # "none"}
Table  == [k \in Keys |-> fts[k].text]   \* what SQL answers

StepStates == {"needs_clear", "seeding", "replay", "distrust", "clear",
                 "stamp", "ackclear", "admit", "commit", "ack", "finish"}
LastRow(f) == Max({f[k].row : k \in Keys} \cup {0})

\* A table that was there before the mirror: rows in any key order.
Init ==
    /\ fts \in {f \in [Keys -> {NoRow} \cup [row : 1..Cardinality(Keys),
                                            text : Texts]] :
                \A j, k \in Keys : j # k /\ f[j].row = f[k].row
                                  => f[j].row = 0}
    /\ mirror = [revision |-> 0, epoch |-> 0, phase |-> "needs_clear",
                 after |-> 0, through |-> LastRow(fts), inc |-> 0,
                 attempts |-> 0, due |-> TRUE]
    /\ queue = [k \in Keys |-> NoIntent]
    /\ disk = [inc |-> 0, docs |-> NoTexts]
    /\ born = 0
    /\ lock = Nobody
    /\ worker = [w \in Workers |-> IdleWorker]
    /\ reader = IdleReader
    /\ writes = 0
    /\ upsets = 0

Upset == upsets < MaxUpsets /\ upsets' = upsets + 1
Write == writes < MaxWrites /\ writes' = writes + 1

-----------------------------------------------------------------------------
(* Transactions on the table, each with its intent.                        *)

\* A new row takes the rowid after the largest one, which may be reused.
Enqueue(k, op, row) ==
    /\ mirror' = [mirror EXCEPT !.revision = @ + 1,
                                !.phase = IF @ = "ready" THEN "replay" ELSE @]
    /\ queue' = [queue EXCEPT ![k] =
                    [op |-> op, epoch |-> mirror.epoch,
                     gen |-> mirror.revision + 1, row |-> row,
                     attempts |-> 0, due |-> TRUE]]

UpsertSearchIndex(k, t) ==
    LET rest == [fts EXCEPT ![k] = NoRow]
        row  == LastRow(rest) + 1
    IN  /\ Write
        /\ fts' = [rest EXCEPT ![k] = [row |-> row, text |-> t]]
        /\ Enqueue(k, "upsert", row)
        /\ UNCHANGED <<nativeVars, lock, worker, reader, upsets>>

\* Operators with a suffix after an underscore are faulty variants of the
\* operator that follows them; no specification uses them.
DeleteIntent(k) == Enqueue(k, "delete", 0)

DeleteSearchIndex(k) ==
    /\ Write
    /\ fts' = [fts EXCEPT ![k] = NoRow]
    /\ DeleteIntent(k)
    /\ UNCHANGED <<nativeVars, lock, worker, reader, upsets>>

\* _reset_tantivy_epoch: every earlier intent is dropped, a scan of the rows
\* up to the largest rowid of this moment will replace them.
ResetEpoch ==
    /\ mirror' = [revision |-> mirror.revision + 1,
                  epoch |-> mirror.epoch + 1, phase |-> "needs_clear",
                  after |-> 0, through |-> LastRow(fts'), inc |-> 0,
                  attempts |-> 0, due |-> TRUE]
    /\ queue' = [k \in Keys |-> NoIntent]

ClearSearchIndex ==
    /\ Write
    /\ fts' = [k \in Keys |-> NoRow]
    /\ ResetEpoch
    /\ UNCHANGED <<nativeVars, lock, worker, reader, upsets>>

\* request_tantivy_rebuild from rebuild_from_sqlite, an operator's command;
\* its replay steps are those of a worker.
RequestRebuild ==
    /\ Upset
    /\ UNCHANGED fts
    /\ ResetEpoch
    /\ UNCHANGED <<nativeVars, lock, worker, reader, writes>>

-----------------------------------------------------------------------------
(* replay_pending                                                          *)

At(w, pc)   == lock = w /\ worker[w].pc = pc
Goto(w, pc) == worker' = [worker EXCEPT ![w].pc = pc]
Leave(w)    == lock' = Nobody /\ worker' = [worker EXCEPT ![w] = IdleWorker]

Trusted_ByPhase == mirror.phase = "needs_clear" \/ mirror.inc # 0

\* The index on disk is the one this mirror was built in.
Trusted == \/ mirror.phase = "needs_clear"
           \/ disk.inc # 0 /\ disk.inc = mirror.inc

\* A step on a ready mirror whose index is in place does nothing.
OpenStep(w) ==
    /\ lock = Nobody
    /\ ~(Trusted /\ mirror.phase = "ready")
    /\ lock' = w
    /\ worker' = [worker EXCEPT ![w] =
                    [IdleWorker EXCEPT !.pc = IF Trusted THEN mirror.phase
                                                         ELSE "distrust",
                                       !.epoch = mirror.epoch,
                                       !.inc = mirror.inc,
                                       !.ident = disk.inc]]
    /\ UNCHANGED <<tableVars, nativeVars, reader, writes, upsets>>

Distrust(w) ==
    /\ At(w, "distrust")
    /\ UNCHANGED fts
    /\ ResetEpoch
    /\ worker' = [worker EXCEPT ![w].pc = "needs_clear",
                                ![w].epoch = mirror.epoch + 1, ![w].inc = 0]
    /\ UNCHANGED <<nativeVars, lock, reader, writes, upsets>>

AdmitClear(w) ==
    /\ At(w, "needs_clear")
    /\ IF /\ mirror.epoch = worker[w].epoch
          /\ mirror.phase = "needs_clear"
          /\ mirror.attempts < MaxAttempts
          /\ mirror.due
       THEN /\ mirror' = [mirror EXCEPT !.attempts = @ + 1]
            /\ Goto(w, "clear")
            /\ UNCHANGED lock
       ELSE Leave(w) /\ UNCHANGED mirror
    /\ UNCHANGED <<fts, queue, nativeVars, reader, writes, upsets>>

\* The writer creates the directory when there is none to recognise.
Opened == IF disk.inc = 0 THEN [inc |-> born + 1, docs |-> NoTexts] ELSE disk
NativeCommit(docs) ==
    /\ disk' = [Opened EXCEPT !.docs = docs]
    /\ born' = IF disk.inc = 0 THEN born + 1 ELSE born

NativeClear(w) ==
    /\ At(w, "clear")
    /\ NativeCommit(NoTexts)
    /\ Goto(w, "stamp")
    /\ UNCHANGED <<tableVars, lock, reader, writes, upsets>>

StampIncarnation(w) ==
    /\ At(w, "stamp") /\ disk.inc # 0
    /\ born' = born + 1
    /\ disk' = [disk EXCEPT !.inc = born + 1]
    /\ worker' = [worker EXCEPT ![w].pc = "ackclear", ![w].inc = born + 1]
    /\ UNCHANGED <<tableVars, lock, reader, writes, upsets>>

AckClear(w) ==
    /\ At(w, "ackclear")
    /\ mirror' = IF /\ mirror.epoch = worker[w].epoch
                    /\ mirror.phase = "needs_clear" /\ mirror.attempts > 0
                 THEN [mirror EXCEPT !.phase = "seeding", !.attempts = 0,
                                     !.inc = worker[w].inc, !.due = TRUE]
                 ELSE mirror
    /\ Leave(w)
    /\ UNCHANGED <<fts, queue, nativeVars, reader, writes, upsets>>

\* The clear raises, before or after its commit; the next one waits.
FailClear(w) ==
    /\ \/ At(w, "clear") /\ Upset
       \/ At(w, "stamp") /\ disk.inc # 0 /\ Upset
       \/ At(w, "stamp") /\ disk.inc = 0 /\ UNCHANGED upsets
    /\ mirror' = IF /\ mirror.epoch = worker[w].epoch
                    /\ mirror.phase = "needs_clear"
                 THEN [mirror EXCEPT !.due = FALSE] ELSE mirror
    /\ Leave(w)
    /\ UNCHANGED <<fts, queue, nativeVars, reader, writes>>

\* One page of rows; intents that are already there win.
Seed(w) ==
    LET found == {k \in Keys : /\ fts[k].row > mirror.after
                               /\ fts[k].row <= mirror.through}
        page  == {k \in found :
                    Cardinality({j \in found : fts[j].row < fts[k].row})
                        < MaxRows}
        last  == IF page = {} THEN mirror.through
                              ELSE Max({fts[k].row : k \in page})
        done  == Cardinality(page) < MaxRows \/ last >= mirror.through
    IN  /\ At(w, "seeding")
        /\ IF mirror.epoch = worker[w].epoch /\ mirror.phase = "seeding"
           THEN /\ queue' = [k \in Keys |->
                     IF k \in page \ Queued
                     THEN [op |-> "upsert", epoch |-> mirror.epoch,
                           gen |-> mirror.revision, row |-> fts[k].row,
                           attempts |-> 0, due |-> TRUE]
                     ELSE queue[k]]
                /\ mirror' = [mirror EXCEPT !.after = last,
                     !.phase = IF done THEN "replay" ELSE "seeding"]
           ELSE UNCHANGED <<queue, mirror>>
        /\ Leave(w)
        /\ UNCHANGED <<fts, nativeVars, reader, writes, upsets>>

Before(j, k) == \/ queue[j].gen < queue[k].gen
                \/ queue[j].gen = queue[k].gen /\ j < k

\* tantivy_mirror_select: the oldest intents, with the texts of this moment.
Select(w) ==
    LET ripe  == {k \in Queued : /\ mirror.phase = "replay"
                                 /\ queue[k].epoch = mirror.epoch
                                 /\ queue[k].attempts < MaxAttempts
                                 /\ queue[k].due}
        first == {k \in ripe :
                    Cardinality({j \in ripe : Before(j, k)}) < MaxRows}
        items == {[key |-> k, gen |-> queue[k].gen, op |-> queue[k].op,
                   text |-> fts[k].text] : k \in first}
        bad   == {i \in items : /\ i.op = "upsert"
                                /\ \/ fts[i.key].row = 0
                                   \/ fts[i.key].row # queue[i.key].row
                                   \/ i.text \in BigTexts}
    IN  /\ At(w, "replay")
        /\ worker' = [worker EXCEPT ![w].pc = "admit",
                                    ![w].batch = mirror.epoch,
                                    ![w].items = items \ bad,
                                    ![w].oversize = bad]
        /\ UNCHANGED <<tableVars, nativeVars, lock, reader, writes, upsets>>

Same_AnyGeneration(w, i) == queue[i.key].op # "none"

\* The intent is the one that was selected.
Same(w, i) == /\ queue[i.key].op # "none"
              /\ queue[i.key].epoch = worker[w].batch
              /\ queue[i.key].gen = i.gen

Admit(w) ==
    LET open   == mirror.epoch = worker[w].batch /\ mirror.phase = "replay"
        taken  == {i \in worker[w].items : /\ open /\ Same(w, i)
                                           /\ queue[i.key].attempts < MaxAttempts}
        barred == {i \in worker[w].oversize : open /\ Same(w, i)}
    IN  /\ At(w, "admit")
        /\ queue' = [k \in Keys |->
             IF \E i \in barred : i.key = k
             THEN [queue[k] EXCEPT !.attempts = MaxAttempts]
             ELSE IF \E i \in taken : i.key = k
             THEN [queue[k] EXCEPT !.attempts = @ + 1]
             ELSE queue[k]]
        /\ worker' = [worker EXCEPT ![w].items = taken, ![w].oversize = {},
                        ![w].pc = IF taken = {} THEN "finish" ELSE "commit"]
        /\ UNCHANGED <<fts, mirror, nativeVars, lock, reader, writes, upsets>>

\* One native commit: delete each key, add the documents of the upserts.
Applied(w) == [k \in Keys |->
    IF \E i \in worker[w].items : i.key = k
    THEN LET i == CHOOSE i \in worker[w].items : i.key = k
         IN  IF i.op = "upsert" THEN i.text ELSE Gone
    ELSE Opened.docs[k]]

NativeReplay(w) ==
    /\ At(w, "commit")
    /\ NativeCommit(Applied(w))
    /\ Goto(w, "ack")
    /\ UNCHANGED <<tableVars, lock, reader, writes, upsets>>

AckItems(w) ==
    /\ At(w, "ack")
    /\ queue' = [k \in Keys |->
         IF \E i \in worker[w].items : i.key = k /\ Same(w, i)
         THEN NoIntent ELSE queue[k]]
    /\ Goto(w, "finish")
    /\ UNCHANGED <<fts, mirror, nativeVars, lock, reader, writes, upsets>>

\* The native work raises, before or after its commit.
FailItems(w) ==
    /\ At(w, "commit") \/ At(w, "ack")
    /\ Upset
    /\ queue' = [k \in Keys |->
         IF \E i \in worker[w].items : i.key = k /\ Same(w, i)
         THEN [queue[k] EXCEPT !.due = FALSE] ELSE queue[k]]
    /\ Leave(w)
    /\ UNCHANGED <<fts, mirror, nativeVars, reader, writes>>

\* Only an index that stayed in place is declared ready.
MarkReady(w) ==
    /\ At(w, "finish")
    /\ mirror' = IF /\ disk.inc = worker[w].ident
                    /\ mirror.epoch = worker[w].epoch
                    /\ mirror.inc = worker[w].inc
                    /\ mirror.phase = "replay"
                    /\ Queued = {}
                 THEN [mirror EXCEPT !.phase = "ready"] ELSE mirror
    /\ Leave(w)
    /\ UNCHANGED <<fts, queue, nativeVars, reader, writes, upsets>>

\* The process of a replay step dies; what it persisted stays.
WorkerDies(w) ==
    /\ lock = w
    /\ Upset
    /\ Leave(w)
    /\ UNCHANGED <<tableVars, nativeVars, reader, writes>>

\* The directory is removed, or its schema is no longer the declared one.
LoseStorage ==
    /\ disk.inc # 0
    /\ Upset
    /\ disk' = [inc |-> 0, docs |-> NoTexts]
    /\ UNCHANGED <<tableVars, born, lock, worker, reader, writes>>

\* retry_delay passes.
RetryDelayEnds ==
    /\ ~mirror.due \/ \E k \in Queued : ~queue[k].due
    /\ mirror' = [mirror EXCEPT !.due = TRUE]
    /\ queue' = [k \in Keys |-> [queue[k] EXCEPT !.due = TRUE]]
    /\ UNCHANGED <<fts, nativeVars, lock, worker, reader, writes, upsets>>

-----------------------------------------------------------------------------
(* search_wiki and search_if_current                                       *)

Ready == mirror.phase = "ready" /\ mirror.inc # 0 /\ Queued = {}
Token == IF Ready THEN [revision |-> mirror.revision, epoch |-> mirror.epoch,
                        inc |-> mirror.inc]
                  ELSE NoToken
\* current_token: the control row and the directory agree.
CurrentToken == IF disk.inc = Token.inc THEN Token ELSE NoToken

ReadToken ==
    /\ reader.pc = "idle" /\ CurrentToken # NoToken
    /\ reader' = [IdleReader EXCEPT !.pc = "search", !.token = CurrentToken]
    /\ UNCHANGED <<tableVars, nativeVars, lock, worker, writes, upsets>>

SearchMirror ==
    /\ reader.pc = "search"
    /\ reader' = [reader EXCEPT !.pc = "verify", !.rows = disk.docs]
    /\ UNCHANGED <<tableVars, nativeVars, lock, worker, writes, upsets>>

Confirmed_SameIndex == /\ CurrentToken.epoch = reader.token.epoch
                       /\ CurrentToken.inc = reader.token.inc
Confirmed == CurrentToken = reader.token

\* A changed token sends the caller to FTS5.
VerifySearch ==
    /\ reader.pc = "verify"
    /\ reader' = IF Confirmed
                 THEN [reader EXCEPT !.pc = "metadata"] ELSE IdleReader
    /\ UNCHANGED <<tableVars, nativeVars, lock, worker, writes, upsets>>

\* Titles and summaries of the found keys, from the table.
ReadMetadata ==
    /\ reader.pc = "metadata"
    /\ reader' = [reader EXCEPT !.pc = "confirm",
                    !.meta = [k \in Keys |-> IF reader.rows[k] = Gone
                                             THEN Gone ELSE fts[k].text]]
    /\ UNCHANGED <<tableVars, nativeVars, lock, worker, writes, upsets>>

Confirm ==
    /\ reader.pc = "confirm"
    /\ reader' = IF Confirmed
                 THEN [reader EXCEPT !.pc = "answered"] ELSE IdleReader
    /\ UNCHANGED <<tableVars, nativeVars, lock, worker, writes, upsets>>

Return ==
    /\ reader.pc = "answered"
    /\ reader' = IdleReader
    /\ UNCHANGED <<tableVars, nativeVars, lock, worker, writes, upsets>>

-----------------------------------------------------------------------------
TableWriter == \/ \E k \in Keys, t \in Texts : UpsertSearchIndex(k, t)
               \/ \E k \in Keys : DeleteSearchIndex(k)
               \/ ClearSearchIndex

ReplayStep(w) ==
    \/ Distrust(w) \/ AdmitClear(w) \/ NativeClear(w) \/ StampIncarnation(w)
    \/ AckClear(w) \/ FailClear(w) \/ Seed(w) \/ Select(w) \/ Admit(w)
    \/ NativeReplay(w) \/ AckItems(w) \/ FailItems(w) \/ MarkReady(w)

Search == ReadToken \/ SearchMirror \/ VerifySearch \/ ReadMetadata
          \/ Confirm \/ Return

Next == \/ TableWriter
        \/ RequestRebuild
        \/ \E w \in Workers : OpenStep(w) \/ ReplayStep(w) \/ WorkerDies(w)
        \/ LoseStorage \/ RetryDelayEnds
        \/ Search

Spec == Init /\ [][Next]_vars

\* The outbox consumer runs one step each round and is restarted when its
\* process dies; a step that began goes on.
FairSpec == /\ Spec
            /\ WF_vars(\E w \in Workers : OpenStep(w))
            /\ \A w \in Workers : WF_vars(ReplayStep(w))
            /\ WF_vars(RetryDelayEnds)

-----------------------------------------------------------------------------
Tokens == [revision : Nat, epoch : Nat, inc : Nat]
Items  == [key : Keys, gen : Nat, op : {"upsert", "delete"}, text : Contents]

TypeOK ==
    /\ fts \in [Keys -> [row : Nat, text : Contents]]
    /\ mirror \in [revision : Nat, epoch : Nat,
                   phase : {"needs_clear", "seeding", "replay", "ready"},
                   after : Nat, through : Nat, inc : Nat,
                   attempts : 0..MaxAttempts, due : BOOLEAN]
    /\ queue \in [Keys -> [op : {"none", "upsert", "delete"}, epoch : Nat,
                           gen : Nat, row : Nat, attempts : 0..MaxAttempts,
                           due : BOOLEAN]]
    /\ \A k \in Queued : (queue[k].op = "upsert") = (queue[k].row # 0)
    /\ disk \in [inc : Nat, docs : [Keys -> Contents]]
    /\ born \in Nat
    /\ lock \in Workers \cup {Nobody}
    /\ worker \in [Workers -> [pc : StepStates \cup {"idle"},
         epoch : Nat, inc : Nat, ident : Nat, batch : Nat,
         items : SUBSET Items, oversize : SUBSET Items]]
    /\ reader \in [pc : {"idle", "search", "verify", "metadata", "confirm",
                         "answered"},
                   token : Tokens, rows : [Keys -> Contents],
                   meta : [Keys -> Contents]]
    /\ writes \in Nat /\ upsets \in Nat

\* Once the mirror is being replayed, every key whose document differs from
\* its row still has an intent, whatever was replayed late, twice or into an
\* index that was replaced meanwhile.
NoIntentIsLost ==
    mirror.phase \in {"replay", "ready"} /\ disk.inc = mirror.inc =>
        \A k \in Keys : disk.docs[k] # fts[k].text => k \in Queued

\* An intent to copy a row names a row that is there, and an intent to
\* delete is only kept for a key without one: the two tables never part,
\* although rowids are used again.
IntentsMatchRows ==
    \A k \in Queued : /\ queue[k].epoch = mirror.epoch
                      /\ queue[k].row = fts[k].row
                      /\ (queue[k].op = "delete") = (fts[k].row = 0)

\* The queue is exactly what the mirror still has to learn.
IntentsCover == NoIntentIsLost /\ IntentsMatchRows

\* A search answered from the mirror gives the documents and the metadata
\* the FTS table has when the answer is confirmed.
AnswersAreCurrent ==
    [][reader.pc = "confirm" /\ reader'.pc = "answered"
        => reader.rows = Table /\ reader.meta = Table]_vars

\* After the last write and the last fault the mirror is served again, or
\* it is reported as blocked (an attempt count used up).
Blocked == \/ \E k \in Queued : queue[k].attempts >= MaxAttempts
           \/ mirror.phase = "needs_clear" /\ mirror.attempts >= MaxAttempts
MirrorSettled == CurrentToken # NoToken \/ Blocked
=============================================================================
