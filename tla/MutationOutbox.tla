--------------------------- MODULE MutationOutbox ---------------------------
(***************************************************************************)
(* The controlled write path of a wiki page: mutation_coordinator.py       *)
(* commits a batch to the canonical tables together with durable outbox    *)
(* rows, projects the Markdown files, and leaves the rest to the consumers *)
(* (watchdog_app.process_mutation_outbox_batch), which lease rows, project *)
(* files again where needed, publish the index and complete the rows.      *)
(*                                                                         *)
(* An outbox row is found by its idempotency key, a digest of page and     *)
(* payload: rewriting a page to an earlier text revives the earlier row    *)
(* under a new revision (projection_generation).  The version token of a   *)
(* page is a digest of its canonical rows, so equal texts have equal       *)
(* versions and base is the text the row was bound to.  A row's lease      *)
(* token is fresh at each claim, so owner, token and generation are        *)
(* compared as the generation alone.                                       *)
(*                                                                         *)
(* Pages are numbered in the order of the sorted page locks.               *)
(***************************************************************************)
EXTENDS Integers, FiniteSets, FiniteSetsExt

CONSTANTS
    Pages,        \* pages, numbered in lock order
    Texts,        \* texts a page may have
    Writers,      \* processes that run execute_mutation_batch
    Consumers,    \* runs of process_mutation_outbox_batch
    MaxAttempts,  \* max_attempts of the consumer
    MaxWrites,    \* bound: committed batches
    MaxUpsets     \* bound: exceptions, crashes, late leases

ASSUME PagesAssumption == Pages \subseteq Nat /\ IsFiniteSet(Pages)
ASSUME OutboxAssumption == /\ MaxAttempts \in Nat \ {0}
                           /\ MaxWrites \in Nat /\ MaxUpsets \in Nat

Gone   == "gone"   \* payload of a delete, text of an absent page
Keep   == "keep"   \* a page a batch does not touch
Nobody == "nobody" \* holder of a free lock

ASSUME NamesAssumption == /\ Gone \notin Texts /\ Keep \notin Texts
                          /\ Nobody \notin Writers \cup Consumers
                          /\ Writers \cap Consumers = {}

Payloads == Texts \cup {Gone}
Keys     == Pages \X Payloads

Row == [status   : {"absent", "pending", "processing", "completed",
                    "failed", "superseded"},
        rev      : Nat,
        gen      : Nat,
        attempts : Nat,
        lease    : {"none", "live", "lapsed"},
        due      : BOOLEAN,
        base     : Payloads]

\* What a consumer remembers of a row it leased.
Claims == [key : Keys, gen : Nat, rev : Nat]

VARIABLES
    canon, file, index,   \* as in PagePublisher
    box,                  \* mutation_outbox
    lock,                 \* page locks
    wr,                   \* writers: phase and batch
    con,                  \* consumers: phase, rows to project, rows ready
    writes, upsets        \* counters of the two bounds

vars == <<canon, file, index, box, lock, wr, con, writes, upsets>>

IdleWriter   == [phase |-> "idle", batch |-> [p \in Pages |-> Keep]]
IdleConsumer == [phase |-> "idle", todo |-> {}, ready |-> {}]

Init ==
    /\ canon \in [Pages -> Payloads]
    /\ file = canon
    /\ index = canon
    /\ box = [k \in Keys |-> [status |-> "absent", rev |-> 0, gen |-> 0,
                              attempts |-> 0, lease |-> "none",
                              due |-> TRUE, base |-> Gone]]
    /\ lock = [p \in Pages |-> Nobody]
    /\ wr = [w \in Writers |-> IdleWriter]
    /\ con = [c \in Consumers |-> IdleConsumer]
    /\ writes = 0
    /\ upsets = 0

Upset == upsets < MaxUpsets /\ upsets' = upsets + 1

-----------------------------------------------------------------------------
(* Page locks: taken one by one in page order, released all at once.       *)

LocksOf(q)    == {p \in Pages : lock[p] = q}
Release(q)    == lock' = [p \in Pages |-> IF lock[p] = q THEN Nobody ELSE lock[p]]
TakeNext(q, S) ==
    \E p \in S \ LocksOf(q) :
        /\ \A r \in S \ LocksOf(q) : p <= r
        /\ lock[p] = Nobody
        /\ lock' = [lock EXCEPT ![p] = q]

-----------------------------------------------------------------------------
(* Outbox rows.                                                            *)

KeysOf(p) == {k \in Keys : k[1] = p}

Latest(k) ==
    /\ box[k].status # "absent"
    /\ \A o \in KeysOf(k[1]) : box[o].rev <= box[k].rev

NextRev(p) == Max({box[k].rev : k \in KeysOf(p)}) + 1

\* Operators with a suffix after an underscore are faulty variants of the
\* definition they precede; no specification uses them.

\* The row enqueue_mutation returns unchanged instead of renewing.
Active(k) == Latest(k) /\ box[k].status \in {"pending", "processing"}

Bound_OldRevision(k) ==
    [status   |-> "pending",
     rev      |-> IF box[k].rev > 0 THEN box[k].rev ELSE NextRev(k[1]),
     gen      |-> box[k].gen + 1,
     attempts |-> 0,
     lease    |-> "none",
     due      |-> TRUE,
     base     |-> k[2]]

\* enqueue_mutation followed by bind_mutation_versions.
Bound(k) ==
    [status   |-> "pending",
     rev      |-> IF Active(k) THEN box[k].rev ELSE NextRev(k[1]),
     gen      |-> IF box[k].status = "processing" THEN box[k].gen + 1
                                                 ELSE box[k].gen,
     attempts |-> 0,
     lease    |-> "none",
     due      |-> Active(k) => box[k].due,
     base     |-> k[2]]

Superseded(k) ==
    IF box[k].status \in {"pending", "processing", "failed"}
    THEN [box[k] EXCEPT !.status = "superseded", !.lease = "none"]
    ELSE box[k]

ClaimCurrent_AnyGeneration(m) ==
    /\ Latest(m.key)
    /\ box[m.key].status = "processing"
    /\ box[m.key].lease = "live"
    /\ box[m.key].rev = m.rev

\* validate_mutation_claim and the version check of require_projection_intent.
ClaimCurrent(m) ==
    /\ Latest(m.key)
    /\ box[m.key].status = "processing"
    /\ box[m.key].lease = "live"
    /\ box[m.key].gen = m.gen
    /\ box[m.key].rev = m.rev

BoundToCanon(k) == box[k].base = canon[k[1]]

Claimable_NoRecovery(k) ==
    Latest(k) /\ box[k].status = "pending" /\ box[k].due

Claimable(k) ==
    /\ Latest(k)
    /\ \/ box[k].status = "pending" /\ box[k].due
       \/ box[k].status = "processing" /\ box[k].lease = "lapsed"

ClaimedRow(k) ==
    [box[k] EXCEPT !.status = "processing", !.lease = "live",
                   !.attempts = @ + 1, !.gen = @ + 1]

\* fail_mutation_outbox
FailedRow(k) ==
    [box[k] EXCEPT !.status = IF box[k].attempts >= MaxAttempts
                              THEN "failed" ELSE "pending",
                   !.due = FALSE,
                   !.lease = "none"]

-----------------------------------------------------------------------------
(* Writers: execute_mutation_batch.                                        *)

Touched(w) == {p \in Pages : wr[w].batch[p] # Keep}

\* runtime_health: a failed row closes the gate of every full-mode write.
GateOpen == \A k \in Keys : box[k].status # "failed"

WriterStart(w, b) ==
    /\ wr[w].phase = "idle"
    /\ writes < MaxWrites
    /\ GateOpen
    /\ \E p \in Pages : b[p] # Keep
    /\ wr' = [wr EXCEPT ![w] = [phase |-> "locking", batch |-> b]]
    /\ writes' = writes + 1
    /\ UNCHANGED <<canon, file, index, box, lock, con, upsets>>

WriterLock(w) ==
    /\ wr[w].phase = "locking"
    /\ TakeNext(w, Touched(w))
    /\ UNCHANGED <<canon, file, index, box, wr, con, writes, upsets>>

\* The canonical transaction: pages, outbox rows and their base versions.
WriterCommit(w) ==
    LET b == wr[w].batch IN
    /\ wr[w].phase = "locking"
    /\ Touched(w) \subseteq LocksOf(w)
    /\ canon' = [p \in Pages |-> IF b[p] = Keep THEN canon[p] ELSE b[p]]
    /\ box' = [k \in Keys |->
                  IF b[k[1]] = Keep THEN box[k]
                  ELSE IF k[2] = b[k[1]] THEN Bound(k)
                  ELSE IF Active(<<k[1], b[k[1]]>>) THEN box[k]
                  ELSE Superseded(k)]
    /\ wr' = [wr EXCEPT ![w].phase = "projecting"]
    /\ UNCHANGED <<file, index, lock, con, writes, upsets>>

\* A precondition, version check or callback raises: the transaction rolls
\* back and the locks are left.
WriterAbort(w) ==
    /\ wr[w].phase = "locking"
    /\ Upset
    /\ Release(w)
    /\ wr' = [wr EXCEPT ![w] = IdleWriter]
    /\ UNCHANGED <<canon, file, index, box, con, writes>>

\* materialize_markdown_projection without a claim, page by page.
WriterProject(w, p) ==
    LET k == <<p, wr[w].batch[p]>> IN
    /\ wr[w].phase = "projecting"
    /\ p \in Touched(w)
    /\ file' = IF /\ Latest(k)
                  /\ box[k].status \in {"pending", "processing", "completed"}
                  /\ BoundToCanon(k)
               THEN [file EXCEPT ![p] = k[2]]
               ELSE file
    /\ wr' = [wr EXCEPT ![w].batch[p] = Keep]
    /\ UNCHANGED <<canon, index, box, lock, con, writes, upsets>>

\* The file cannot be written now: left to the outbox.
WriterDefer(w, p) ==
    /\ wr[w].phase = "projecting"
    /\ p \in Touched(w)
    /\ Upset
    /\ wr' = [wr EXCEPT ![w].batch[p] = Keep]
    /\ UNCHANGED <<canon, file, index, box, lock, con, writes>>

WriterDone(w) ==
    /\ wr[w].phase = "projecting"
    /\ Touched(w) = {}
    /\ Release(w)
    /\ wr' = [wr EXCEPT ![w] = IdleWriter]
    /\ UNCHANGED <<canon, file, index, box, con, writes, upsets>>

WriterCrash(w) ==
    /\ wr[w].phase # "idle"
    /\ Upset
    /\ Release(w)
    /\ wr' = [wr EXCEPT ![w] = IdleWriter]
    /\ UNCHANGED <<canon, file, index, box, con, writes>>

-----------------------------------------------------------------------------
(* Consumers: process_mutation_outbox_batch.                               *)

PagesOf(S) == {m.key[1] : m \in S}

ConsumerClaim(c) ==
    LET rows == {k \in Keys : Claimable(k)} IN
    /\ con[c].phase = "idle"
    /\ rows # {}
    /\ box' = [k \in Keys |-> IF k \in rows THEN ClaimedRow(k) ELSE box[k]]
    /\ con' = [con EXCEPT ![c] =
                  [phase |-> "project",
                   todo  |-> {[key |-> k, gen |-> box[k].gen + 1,
                               rev |-> box[k].rev] : k \in rows},
                   ready |-> {}]]
    /\ UNCHANGED <<canon, file, index, lock, wr, writes, upsets>>

ConsumerProject_Unchecked(c, m) ==
    /\ con[c].phase = "project"
    /\ m \in con[c].todo
    /\ lock[m.key[1]] = Nobody
    /\ file' = [file EXCEPT ![m.key[1]] = m.key[2]]
    /\ con' = [con EXCEPT ![c].todo = @ \ {m}, ![c].ready = @ \cup {m}]
    /\ UNCHANGED <<canon, index, box, lock, wr, writes, upsets>>

\* Phase one, one row under its page lock: the claim is checked, and the
\* file is written unless it already matches.
ConsumerProject(c, m) ==
    /\ con[c].phase = "project"
    /\ m \in con[c].todo
    /\ lock[m.key[1]] = Nobody
    /\ LET valid == ClaimCurrent(m) /\ BoundToCanon(m.key) IN
       /\ file' = IF valid THEN [file EXCEPT ![m.key[1]] = m.key[2]] ELSE file
       /\ con' = [con EXCEPT ![c].todo = @ \ {m},
                             ![c].ready = IF valid THEN @ \cup {m} ELSE @]
    /\ UNCHANGED <<canon, index, box, lock, wr, writes, upsets>>

\* Phase one raises (the file, the name or the lock wait): the attempt is
\* recorded if the claim still holds.
ConsumerProjectFails(c, m) ==
    /\ con[c].phase = "project"
    /\ m \in con[c].todo
    /\ Upset
    /\ box' = IF ClaimCurrent(m) THEN [box EXCEPT ![m.key] = FailedRow(m.key)]
                                 ELSE box
    /\ con' = [con EXCEPT ![c].todo = @ \ {m}]
    /\ UNCHANGED <<canon, file, index, lock, wr, writes>>

ConsumerLock(c) ==
    /\ con[c].phase = "project"
    /\ con[c].todo = {}
    /\ TakeNext(c, PagesOf(con[c].ready))
    /\ UNCHANGED <<canon, file, index, box, wr, con, writes, upsets>>

\* Phase two under the locks of all ready pages: the claims are checked
\* again and update_index_items publishes what is canonical.
ConsumerPublish(c) ==
    LET current == {m \in con[c].ready : /\ ClaimCurrent(m)
                                         /\ BoundToCanon(m.key)} IN
    /\ con[c].phase = "project"
    /\ con[c].todo = {}
    /\ con[c].ready # {}
    /\ PagesOf(con[c].ready) \subseteq LocksOf(c)
    /\ index' = [p \in Pages |-> IF p \in PagesOf(current) THEN canon[p]
                                                           ELSE index[p]]
    /\ con' = [con EXCEPT ![c].phase = "complete", ![c].ready = current]
    /\ UNCHANGED <<canon, file, box, lock, wr, writes, upsets>>

ConsumerPublishFails_Swallowed(c) ==
    /\ con[c].phase = "project"
    /\ con[c].todo = {}
    /\ con[c].ready # {}
    /\ Upset
    /\ con' = [con EXCEPT ![c].phase = "complete"]
    /\ UNCHANGED <<canon, file, index, box, lock, wr, writes>>

\* update_index_items or the lock wait raises: every ready row is failed.
ConsumerPublishFails(c) ==
    /\ con[c].phase = "project"
    /\ con[c].todo = {}
    /\ con[c].ready # {}
    /\ Upset
    /\ box' = [k \in Keys |->
                  IF \E m \in con[c].ready : m.key = k /\ ClaimCurrent(m)
                  THEN FailedRow(k) ELSE box[k]]
    /\ Release(c)
    /\ con' = [con EXCEPT ![c] = IdleConsumer]
    /\ UNCHANGED <<canon, file, index, wr, writes>>

\* complete_mutation_outbox
ConsumerComplete(c, m) ==
    /\ con[c].phase = "complete"
    /\ m \in con[c].ready
    /\ box' = IF ClaimCurrent(m)
              THEN [box EXCEPT ![m.key].status = "completed",
                               ![m.key].lease = "none"]
              ELSE box
    /\ con' = [con EXCEPT ![c].ready = @ \ {m}]
    /\ UNCHANGED <<canon, file, index, lock, wr, writes, upsets>>

ConsumerDone(c) ==
    /\ con[c].phase \in {"project", "complete"}
    /\ con[c].todo = {}
    /\ con[c].ready = {}
    /\ Release(c)
    /\ con' = [con EXCEPT ![c] = IdleConsumer]
    /\ UNCHANGED <<canon, file, index, box, wr, writes, upsets>>

ConsumerCrash(c) ==
    /\ con[c].phase # "idle"
    /\ Upset
    /\ Release(c)
    /\ con' = [con EXCEPT ![c] = IdleConsumer]
    /\ UNCHANGED <<canon, file, index, box, wr, writes>>

-----------------------------------------------------------------------------
(* Time.                                                                   *)

Leased(k) == \E c \in Consumers : \E m \in con[c].todo \cup con[c].ready :
                m.key = k /\ ClaimCurrent(m)

LeaseLapses(k) ==
    /\ box[k].lease = "live"
    /\ IF Leased(k) THEN Upset ELSE UNCHANGED upsets
    /\ box' = [box EXCEPT ![k].lease = "lapsed"]
    /\ UNCHANGED <<canon, file, index, lock, wr, con, writes>>

BackoffEnds(k) ==
    /\ ~box[k].due
    /\ box' = [box EXCEPT ![k].due = TRUE]
    /\ UNCHANGED <<canon, file, index, lock, wr, con, writes, upsets>>

-----------------------------------------------------------------------------
WriterWork(w) == \/ \E b \in [Pages -> Payloads \cup {Keep}] : WriterStart(w, b)
                 \/ WriterLock(w) \/ WriterCommit(w) \/ WriterAbort(w)
                 \/ \E p \in Pages : WriterProject(w, p) \/ WriterDefer(w, p)
                 \/ WriterDone(w)

WriterStep(w) == WriterWork(w) \/ WriterCrash(w)

ConsumerWork(c) == \/ ConsumerClaim(c) \/ ConsumerLock(c)
                   \/ \E m \in con[c].todo : \/ ConsumerProject(c, m)
                                             \/ ConsumerProjectFails(c, m)
                   \/ ConsumerPublish(c) \/ ConsumerPublishFails(c)
                   \/ \E m \in con[c].ready : ConsumerComplete(c, m)
                   \/ ConsumerDone(c)

ConsumerStep(c) == ConsumerWork(c) \/ ConsumerCrash(c)

Next == \/ \E w \in Writers : WriterStep(w)
        \/ \E c \in Consumers : ConsumerStep(c)
        \/ \E k \in Keys : LeaseLapses(k) \/ BackoffEnds(k)

Spec == Init /\ [][Next]_vars

-----------------------------------------------------------------------------
(* Correctness.                                                            *)

\* Type invariant of the stores, the outbox and the processes' memories.
TypeOK ==
    /\ canon \in [Pages -> Payloads]
    /\ file \in [Pages -> Payloads]
    /\ index \in [Pages -> Payloads]
    /\ box \in [Keys -> Row]
    /\ lock \in [Pages -> Writers \cup Consumers \cup {Nobody}]
    /\ wr \in [Writers -> [phase : {"idle", "locking", "projecting"},
                           batch : [Pages -> Payloads \cup {Keep}]]]
    /\ con \in [Consumers -> [phase : {"idle", "project", "complete"},
                              todo  : SUBSET Claims,
                              ready : SUBSET Claims]]
    /\ writes \in 0..MaxWrites
    /\ upsets \in 0..MaxUpsets

\* The outbox agrees with the canonical tables: the last revision of a page
\* carries its canonical text and is bound to it, and no older revision is
\* still to be carried out.  (So the version conflict of
\* require_projection_intent cannot arise on this write path.)
OutboxMatchesCanon ==
    \A k \in Keys : box[k].status # "absent" =>
        IF Latest(k) THEN /\ k[2] = canon[k[1]]
                          /\ BoundToCanon(k)
                          /\ box[k].status # "superseded"
                     ELSE box[k].status \in {"completed", "superseded"}

\* A completed row is no empty word: while it is the last of its page, file
\* and index show its text, whoever else projected, failed or crashed.
CompletedIsVisible ==
    \A k \in Keys : Latest(k) /\ box[k].status = "completed" =>
        file[k[1]] = canon[k[1]] /\ index[k[1]] = canon[k[1]]

\* No row is in the hands of two consumers that could both still report on
\* it, even after leases lapsed and rows were renewed under a claim.
OneClaimant ==
    \A c, d \in Consumers :
        \A m \in con[c].todo \cup con[c].ready, n \in con[d].todo \cup con[d].ready :
            m.key = n.key /\ ClaimCurrent(m) /\ ClaimCurrent(n) => c = d

\* The three together: what the rows of the outbox say of the stores and of
\* the consumers is true.
OutboxIsSound == OutboxMatchesCanon /\ CompletedIsVisible /\ OneClaimant

\* Markdown and index move only to the canonical text of that moment: a late
\* retry never brings an older intent back (A -> B -> A included).
Publisher == INSTANCE PagePublisher
PublishesOnlyCanon == Publisher!PubSpec

\* File and index show the page as it is.
Shown(p) == file[p] = canon[p] /\ index[p] = canon[p]
=============================================================================
