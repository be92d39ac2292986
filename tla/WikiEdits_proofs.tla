-------------------------- MODULE WikiEdits_proofs --------------------------
(***************************************************************************)
(* Proofs about WikiEdits, for any number of pages, texts and writers: the *)
(* outbox stays sound when people write the files too, and as long as      *)
(* nothing was interrupted the consumer thread takes into the canonical    *)
(* tables only what a person wrote.                                        *)
(*                                                                         *)
(* The steps of WikiEdits are steps of MutationOutbox, steps that touch    *)
(* neither tables nor files, and edits by hand. Its invariant excuses the  *)
(* files of a set of pages; here the set is that of the pages a person     *)
(* wrote last. The second result needs to know who may be between a commit *)
(* and the file: only a writer that holds the page's lock.                 *)
(***************************************************************************)
EXTENDS WikiEdits, MutationOutbox_proofs

\* Writers that have nothing to do remember nothing.
IdleIsEmpty == \A w \in Writers : wr[w].phase = "idle" => wr[w] = IdleWriter

\* A page a writer has committed and not yet projected is locked by it, and
\* has the text of its batch.
Unprojected(w, p) == wr[w].phase = "projecting" /\ wr[w].batch[p] # Keep
WriterHolds == \A w \in Writers, p \in Pages : Unprojected(w, p) =>
                  lock[p] = w /\ canon[p] = wr[w].batch[p]

HasRow(p) == \E k \in KeysOf(p) : box[k].status # "absent"

\* Without an upset no row fails; what waits to be looked at was written by a
\* person or by the write path; and a page of the write path shows its text
\* on disk unless a person changed it or its writer is at work.
Undisturbed ==
    /\ GateOpen
    /\ \A p \in stir \cup queue \cup legacy : p \in hand \/ HasRow(p)
    /\ \A p \in Pages : HasRow(p) =>
          \/ p \in hand
          \/ file[p] = canon[p]
          \/ \E w \in Writers : Unprojected(w, p)

EditsInv == /\ OutboxInv(hand)
            /\ file \in [Pages -> Payloads \cup BadTexts]
            /\ IdleIsEmpty
            /\ WriterHolds
            /\ upsets = 0 => Undisturbed
-----------------------------------------------------------------------------
(* What a step of the write path does.                                     *)

\* Excusing fewer files is sound where the files show the pages.
LEMMA ExcuseFewer ==
    ASSUME NEW h, OutboxInv(h)',
           \A p \in Pages : p \in h /\ p \notin hand' => file'[p] = canon'[p]
    PROVE  OutboxInv(hand)'
  <1>1. \A k \in Keys : k[1] \in Pages
    BY KeyParts
  <1>2. \A c \in Consumers : \A m \in con'[c].ready : m.key[1] \in Pages
    BY KeyParts DEF OutboxInv, RowTypes, Claims
  <1>3. ReadyIsShown(hand)'
    BY <1>2 DEF OutboxInv, ReadyIsShown
  <1>4. CompletedIsShown(hand)'
    BY <1>1 DEF OutboxInv, CompletedIsShown
  <1>5. QED
    BY <1>3, <1>4 DEF OutboxInv

\* Excusing more files is sound always.
LEMMA ExcuseMore ==
    ASSUME NEW h, OutboxInv(hand), hand \subseteq h
    PROVE  OutboxInv(h)
  BY DEF OutboxInv, ReadyIsShown, CompletedIsShown

\* A canonical text changes only when a batch with the page is committed.
LEMMA CanonMoves ==
    ASSUME NEW h, OutboxInv(h), [Next]_vars, NEW p \in Pages, canon'[p] # canon[p]
    PROVE  \E w \in Writers : WriterCommit(w) /\ wr[w].batch[p] # Keep
  <1>1. ASSUME NEW w \in Writers, WriterStep(w)
        PROVE  WriterCommit(w) /\ wr[w].batch[p] # Keep
    <2>1. WriterCommit(w)
      BY <1>1 DEF WriterStep, WriterWork, WriterStart, WriterLock, WriterAbort, WriterProject,
         WriterDefer, WriterDone, WriterCrash
    <2>2. QED
      BY <2>1 DEF WriterCommit
  <1>2. ASSUME NEW c \in Consumers, ConsumerStep(c)
        PROVE  FALSE
    BY <1>2 DEF ConsumerStep, ConsumerWork, ConsumerClaim, ConsumerLock, ConsumerProject,
       ConsumerProjectFails, ConsumerPublish, ConsumerPublishFails, ConsumerComplete,
       ConsumerDone, ConsumerCrash
  <1>3. QED
    BY <1>1, <1>2 DEF Next, vars, LeaseLapses, BackoffEnds

\* Rows do not vanish; a page gets its first row in a commit; a row fails
\* only in an upset.
RowMoves(k) ==
    /\ box[k].status # "absent" => box'[k].status # "absent"
    /\ box'[k].status # "absent" =>
          \/ box[k].status # "absent"
          \/ \E w \in Writers : WriterCommit(w) /\ wr[w].batch[k[1]] # Keep
    /\ box'[k].status = "failed" => box[k].status = "failed" \/ Upset

\* A commit binds the rows of its batch and supersedes others of those pages.
LEMMA CommitMovesRows ==
    ASSUME NEW h, OutboxInv(h), NEW w \in Writers, WriterCommit(w), NEW k \in Keys
    PROVE  RowMoves(k)
  <1>1. box[k] \in Row
    BY DEF OutboxInv, RowTypes
  <1>2. CASE wr[w].batch[k[1]] = Keep
    BY <1>2, CommitElsewhere DEF RowMoves
  <1>3. CASE wr[w].batch[k[1]] # Keep
    <2>1. box'[k] \in {box[k], Bound(k), Superseded(k)}
      BY <1>3 DEF WriterCommit
    <2>2. Bound(k).status = "pending"
      BY DEF Bound
    <2>3. Superseded(k).status \in {box[k].status, "superseded"}
          /\ (box[k].status = "absent" => Superseded(k).status = "absent")
      BY <1>1, SupersededRow
    <2>4. QED
      BY <1>3, <2>1, <2>2, <2>3 DEF RowMoves
  <1>4. QED
    BY <1>2, <1>3

\* A consumer leases, completes or fails rows there are.
LEMMA ConsumerMovesRows ==
    ASSUME NEW h, OutboxInv(h), NEW c \in Consumers, ConsumerStep(c), NEW k \in Keys
    PROVE  RowMoves(k)
  <1>1. box \in [Keys -> Row] /\ box[k] \in Row
    BY DEF OutboxInv, RowTypes
  <1>2. CASE ConsumerClaim(c)
    <2>1. box'[k] = box[k] \/ (box'[k] = ClaimedRow(k) /\ Claimable(k))
      BY <1>2 DEF ConsumerClaim
    <2>2. QED
      BY <1>1, <2>1, ClaimedRowFields DEF RowMoves, Claimable
  <1>3. ASSUME NEW m \in con[c].todo, ConsumerProjectFails(c, m)
        PROVE  RowMoves(k)
    <2>1. Upset
      BY <1>3 DEF ConsumerProjectFails
    <2>2. box'[k] = box[k] \/ (box'[k] = FailedRow(k) /\ box[k].status = "processing")
      BY <1>1, <1>3 DEF ConsumerProjectFails, ClaimCurrent
    <2>3. QED
      BY <1>1, <2>1, <2>2, FailedRowFields DEF RowMoves
  <1>4. CASE ConsumerPublishFails(c)
    <2>1. Upset
      BY <1>4 DEF ConsumerPublishFails
    <2>2. box'[k] = box[k] \/ (box'[k] = FailedRow(k) /\ box[k].status = "processing")
      BY <1>4 DEF ConsumerPublishFails, ClaimCurrent
    <2>3. QED
      BY <1>1, <2>1, <2>2, FailedRowFields DEF RowMoves
  <1>5. ASSUME NEW m \in con[c].ready, ConsumerComplete(c, m)
        PROVE  RowMoves(k)
    <2> DEFINE row == [box[k] EXCEPT !.status = "completed", !.lease = "none"]
    <2>1. box'[k] = box[k] \/ (box'[k] = row /\ box[k].status = "processing")
      BY <1>1, <1>5 DEF ConsumerComplete, ClaimCurrent
    <2>2. row.status = "completed"
      BY <1>1, CompletedRowFields
    <2>3. QED
      BY <2>1, <2>2 DEF RowMoves
  <1>6. CASE box' = box
    BY <1>6 DEF RowMoves
  <1>7. QED
    BY <1>2, <1>3, <1>4, <1>5, <1>6
       DEF ConsumerStep, ConsumerWork, ConsumerLock, ConsumerProject, ConsumerPublish,
           ConsumerDone, ConsumerCrash

\* Every step of the write path moves the rows this way.
LEMMA StepMovesRows ==
    ASSUME NEW h, OutboxInv(h), [Next]_vars, NEW k \in Keys
    PROVE  RowMoves(k)
  <1>1. ASSUME NEW w \in Writers, WriterStep(w)
        PROVE  RowMoves(k)
    <2>1. WriterCommit(w) \/ box' = box
      BY <1>1 DEF WriterStep, WriterWork, WriterStart, WriterLock, WriterAbort, WriterProject,
         WriterDefer, WriterDone, WriterCrash
    <2>2. QED
      BY <2>1, CommitMovesRows DEF RowMoves
  <1>2. ASSUME NEW o \in Keys, LeaseLapses(o) \/ BackoffEnds(o)
        PROVE  RowMoves(k)
    <2>1. box \in [Keys -> Row] /\ box[k] \in Row
      BY DEF OutboxInv, RowTypes
    <2>2. box'[k] \in {box[k], [box[k] EXCEPT !.lease = "lapsed"], [box[k] EXCEPT !.due = TRUE]}
      BY <1>2, <2>1 DEF LeaseLapses, BackoffEnds
    <2>3. box'[k].status = box[k].status
      BY <2>1, <2>2, TimedRowFields
    <2>4. QED
      BY <2>3 DEF RowMoves
  <1>3. QED
    BY <1>1, <1>2, ConsumerMovesRows DEF Next, vars, RowMoves

\* A program changes only the file of a page that has a row.
LEMMA FileHasRow ==
    ASSUME NEW h, OutboxInv(h), [Next]_vars, NEW p \in Pages, file'[p] # file[p]
    PROVE  HasRow(p)
  <1>0. file = [q \in Pages |-> file[q]]
    BY DEF OutboxInv, RowTypes
  <1>1. ASSUME NEW w \in Writers, WriterStep(w)
        PROVE  HasRow(p)
    <2>1. PICK q \in Pages : WriterProject(w, q)
      BY <1>1 DEF WriterStep, WriterWork, WriterStart, WriterLock, WriterCommit, WriterAbort,
         WriterDefer, WriterDone, WriterCrash
    <2> DEFINE k == <<q, wr[w].batch[q]>>
    <2>2. q = p /\ Latest(k) /\ q \in Touched(w)
      BY <1>0, <2>1 DEF WriterProject
    <2>3. k \in KeysOf(p)
      <3>1. wr[w].batch \in Batches
        BY WriterMemory DEF OutboxInv
      <3>2. wr[w].batch[q] \in Payloads
        BY <2>2, <3>1 DEF Batches, Touched
      <3>3. QED
        BY <2>2, <3>2 DEF KeysOf, Keys
    <2>4. QED
      BY <2>2, <2>3 DEF HasRow, Latest
  <1>2. ASSUME NEW c \in Consumers, ConsumerStep(c)
        PROVE  HasRow(p)
    <2>1. PICK m \in con[c].todo : ConsumerProject(c, m)
      BY <1>2 DEF ConsumerStep, ConsumerWork, ConsumerClaim, ConsumerLock, ConsumerProjectFails,
         ConsumerPublish, ConsumerPublishFails, ConsumerComplete, ConsumerDone, ConsumerCrash
    <2>2. m.key[1] = p /\ Latest(m.key)
      BY <1>0, <2>1 DEF ConsumerProject, ClaimCurrent
    <2>3. m.key \in Keys
      BY ClaimParts DEF Mine, OutboxInv
    <2>4. QED
      BY <2>2, <2>3 DEF HasRow, Latest, KeysOf
  <1>3. QED
    BY <1>1, <1>2 DEF Next, vars, LeaseLapses, BackoffEnds
-----------------------------------------------------------------------------
(* Writers and their locks.                                                *)

\* Nobody is no process, and no writer is a consumer.
LEMMA Names == /\ \A w \in Writers : w # Nobody
               /\ \A w \in Writers, c \in Consumers : w # c
  BY NamesAssumption

\* An upset is counted.
LEMMA UpsetCounts == RowTypes /\ Upset => upsets' # 0
  <1>1. RowTypes => upsets \in Nat
    BY OutboxAssumption DEF RowTypes
  <1>2. QED
    BY <1>1 DEF Upset

\* What one writer remembers after its own step, and the others.
LEMMA WriterRemembers ==
    ASSUME RowTypes, NEW w \in Writers, WriterStep(w)
    PROVE  /\ \A u \in Writers : u # w => wr'[u] = wr[u]
           /\ \/ wr'[w] = IdleWriter
              \/ wr'[w].phase # "idle" /\ wr[w].phase \in {"idle", "locking"}
              \/ /\ wr[w].phase = "projecting" /\ wr'[w].phase = "projecting"
                 /\ \A p \in Pages : wr'[w].batch[p] \in {wr[w].batch[p], Keep}
  <1>1. wr \in [Writers -> WriterMemories]
    BY DEF RowTypes, WriterMemories, Batches
  <1>2. ASSUME NEW b \in Batches, WriterStart(w, b)
        PROVE  /\ \A u \in Writers : u # w => wr'[u] = wr[u]
               /\ wr'[w].phase # "idle" /\ wr[w].phase = "idle"
    BY <1>1, <1>2 DEF WriterStart
  <1>3. ASSUME WriterCommit(w)
        PROVE  /\ \A u \in Writers : u # w => wr'[u] = wr[u]
               /\ wr'[w].phase # "idle" /\ wr[w].phase = "locking"
    BY <1>1, <1>3 DEF WriterCommit, WriterMemories
  <1>4. ASSUME NEW p \in Pages, WriterProject(w, p) \/ WriterDefer(w, p)
        PROVE  /\ \A u \in Writers : u # w => wr'[u] = wr[u]
               /\ wr[w].phase = "projecting" /\ wr'[w].phase = "projecting"
               /\ \A q \in Pages : wr'[w].batch[q] \in {wr[w].batch[q], Keep}
    <2>1. wr' = [wr EXCEPT ![w].batch[p] = Keep] /\ wr[w].phase = "projecting"
      BY <1>4 DEF WriterProject, WriterDefer
    <2>2. wr[w].batch \in Batches
      BY WriterMemory
    <2>3. QED
      BY <1>1, <2>1, <2>2 DEF WriterMemories, Batches
  <1>5. ASSUME WriterLock(w)
        PROVE  wr' = wr /\ wr[w].phase = "locking"
    BY <1>5 DEF WriterLock
  <1>6. ASSUME WriterAbort(w) \/ WriterDone(w) \/ WriterCrash(w)
        PROVE  wr' = [wr EXCEPT ![w] = IdleWriter]
    BY <1>6 DEF WriterAbort, WriterDone, WriterCrash
  <1>7. QED
    BY <1>1, <1>2, <1>3, <1>4, <1>5, <1>6 DEF WriterStep, WriterWork, Batches

\* Only its writer ends what is unprojected of a page, by a projection, in
\* an upset or by letting go of nothing.
LEMMA UnprojectedEnds ==
    ASSUME RowTypes, [Next]_vars, NEW w \in Writers, NEW p \in Pages, Unprojected(w, p),
           ~ Unprojected(w, p)'
    PROVE  WriterProject(w, p) \/ Upset
  <1>1. wr \in [Writers -> WriterMemories] /\ wr[w].batch \in Batches
    BY WriterMemory DEF RowTypes, WriterMemories, Batches
  <1>2. wr' # wr
    BY DEF Unprojected
  <1>3. PICK u \in Writers : WriterStep(u)
    BY <1>2 DEF Next, vars, LeaseLapses, BackoffEnds, ConsumerStep, ConsumerWork, ConsumerClaim,
       ConsumerLock, ConsumerProject, ConsumerProjectFails, ConsumerPublish,
       ConsumerPublishFails, ConsumerComplete, ConsumerDone, ConsumerCrash
  <1>4. u = w
    BY <1>3, WriterRemembers DEF Unprojected
  <1>5. wr[w].phase = "projecting"
    BY DEF Unprojected
  <1>6. ASSUME NEW q \in Pages, WriterProject(w, q) \/ WriterDefer(w, q)
        PROVE  q = p
    <2>1. wr' = [wr EXCEPT ![w].batch[q] = Keep]
      BY <1>6 DEF WriterProject, WriterDefer
    <2>2. q # p => wr'[w].batch[p] = wr[w].batch[p] /\ wr'[w].phase = wr[w].phase
      BY <1>1, <2>1 DEF WriterMemories, Batches
    <2>3. QED
      BY <2>2 DEF Unprojected
  <1>7. ~ WriterDone(w)
    BY DEF WriterDone, Touched, Unprojected
  <1>8. QED
    BY <1>3, <1>4, <1>5, <1>6, <1>7
       DEF WriterStep, WriterWork, WriterStart, WriterLock, WriterCommit, WriterAbort,
           WriterDefer, WriterCrash

\* What writers hold stays theirs when nobody else's lock is touched, no
\* canonical text changes and no writer begins to project.
LEMMA HoldsOn ==
    ASSUME WriterHolds, canon' = canon,
           \A u \in Writers, p \in Pages : Unprojected(u, p)' =>
               /\ Unprojected(u, p) /\ wr'[u].batch[p] = wr[u].batch[p]
               /\ lock[p] = u => lock'[p] = u
    PROVE  WriterHolds'
  BY DEF WriterHolds

\* A lock that is taken was free, a lock that is released was one's own.
LEMMA LocksMove ==
    ASSUME RowTypes, NEW q, NEW u \in Writers, u # q, NEW p \in Pages, lock[p] = u,
           Release(q) \/ \E S : TakeNext(q, S)
    PROVE  lock'[p] = u
  <1>1. CASE Release(q)
    BY <1>1 DEF Release
  <1>2. CASE \E S : TakeNext(q, S)
    BY <1>2, Names DEF TakeNext, RowTypes
  <1>3. QED
    BY <1>1, <1>2

\* The writers' steps keep what is locked for whom.
LEMMA WriterKeepsHolds ==
    ASSUME RowTypes, IdleIsEmpty, WriterHolds, NEW w \in Writers, WriterStep(w)
    PROVE  IdleIsEmpty' /\ WriterHolds'
  <1>1. wr \in [Writers -> WriterMemories] /\ wr[w].batch \in Batches
    BY WriterMemory DEF RowTypes, WriterMemories, Batches
  <1>2. IdleIsEmpty'
    BY WriterRemembers DEF IdleIsEmpty
  <1>3. CASE WriterCommit(w)
    <2>1. /\ \A p \in Pages : wr[w].batch[p] # Keep => lock[p] = w
          /\ lock' = lock /\ wr' = [wr EXCEPT ![w].phase = "projecting"]
          /\ \A p \in Pages : canon'[p] = IF wr[w].batch[p] = Keep THEN canon[p]
                                          ELSE wr[w].batch[p]
      BY <1>3 DEF WriterCommit, Touched, LocksOf
    <2>2. wr'[w].batch = wr[w].batch /\ \A u \in Writers : u # w => wr'[u] = wr[u]
      BY <1>1, <2>1 DEF WriterMemories
    <2>3. ASSUME NEW u \in Writers, NEW p \in Pages, Unprojected(u, p)'
          PROVE  lock'[p] = u /\ canon'[p] = wr'[u].batch[p]
      <3>1. CASE u = w
        BY <2>1, <2>2, <2>3, <3>1 DEF Unprojected
      <3>2. CASE u # w
        <4>1. Unprojected(u, p) /\ lock[p] = u /\ canon[p] = wr[u].batch[p]
          BY <2>2, <2>3, <3>2 DEF Unprojected, WriterHolds
        <4>2. QED
          BY <2>1, <2>2, <3>2, <4>1
      <3>3. QED
        BY <3>1, <3>2
    <2>4. QED
      BY <1>2, <2>3 DEF WriterHolds
  <1>4. CASE ~ WriterCommit(w)
    <2>1. canon' = canon
      BY <1>4 DEF WriterStep, WriterWork, WriterStart, WriterLock, WriterAbort, WriterProject,
         WriterDefer, WriterDone, WriterCrash
    <2>2. ASSUME NEW p \in Pages, Unprojected(w, p)'
          PROVE  /\ Unprojected(w, p) /\ wr'[w].batch[p] = wr[w].batch[p]
                 /\ lock[p] = w => lock'[p] = w
      <3>1. wr'[w].phase = "projecting" /\ wr'[w].batch[p] # Keep
        BY <2>2 DEF Unprojected
      <3>2. ~ WriterLock(w) /\ \A b \in Batches : ~ WriterStart(w, b)
        <4>1. ASSUME NEW b \in Batches, WriterStart(w, b)
              PROVE  FALSE
          BY <1>1, <3>1, <4>1 DEF WriterStart
        <4>2. ~ WriterLock(w)
          <5>1. ASSUME WriterLock(w)
                PROVE  wr'[w].phase = "locking"
            BY <5>1 DEF WriterLock
          <5>2. QED
            BY <3>1, <5>1
        <4>3. QED
          BY <4>1, <4>2
      <3>3. ~ (WriterAbort(w) \/ WriterDone(w) \/ WriterCrash(w))
        BY <1>1, <3>1 DEF WriterAbort, WriterDone, WriterCrash, IdleWriter
      <3>4. PICK q \in Pages : WriterProject(w, q) \/ WriterDefer(w, q)
        BY <1>4, <3>2, <3>3 DEF WriterStep, WriterWork, Batches
      <3>5. /\ wr[w].phase = "projecting" /\ lock' = lock
            /\ wr' = [wr EXCEPT ![w].batch[q] = Keep]
        BY <3>4 DEF WriterProject, WriterDefer
      <3>6. wr'[w].batch[p] \in {wr[w].batch[p], Keep}
        BY <1>1, <3>5 DEF WriterMemories, Batches
      <3>7. QED
        BY <3>1, <3>5, <3>6 DEF Unprojected
    <2>3. ASSUME NEW u \in Writers, u # w, NEW p \in Pages, Unprojected(u, p)'
          PROVE  /\ Unprojected(u, p) /\ wr'[u].batch[p] = wr[u].batch[p]
                 /\ lock[p] = u => lock'[p] = u
      <3>1. wr'[u] = wr[u]
        BY <2>3, WriterRemembers
      <3>2. lock' = lock \/ Release(w) \/ \E S : TakeNext(w, S)
        BY <1>4 DEF WriterStep, WriterWork, WriterStart, WriterLock, WriterAbort, WriterProject,
           WriterDefer, WriterDone, WriterCrash
      <3>3. QED
        BY <2>3, <3>1, <3>2, LocksMove DEF Unprojected
    <2>4. WriterHolds'
      BY <2>1, <2>2, <2>3, HoldsOn
    <2>5. QED
      BY <1>2, <2>4
  <1>5. QED
    BY <1>3, <1>4

\* Every step of the write path does.
LEMMA StepKeepsHolds ==
    ASSUME RowTypes, IdleIsEmpty, WriterHolds, [Next]_vars
    PROVE  IdleIsEmpty' /\ WriterHolds'
  <1>1. ASSUME NEW c \in Consumers, ConsumerStep(c)
        PROVE  IdleIsEmpty' /\ WriterHolds'
    <2>1. /\ wr' = wr /\ canon' = canon
          /\ lock' = lock \/ Release(c) \/ \E S : TakeNext(c, S)
      BY <1>1 DEF ConsumerStep, ConsumerWork, ConsumerClaim, ConsumerLock, ConsumerProject,
         ConsumerProjectFails, ConsumerPublish, ConsumerPublishFails, ConsumerComplete,
         ConsumerDone, ConsumerCrash
    <2>2. \A u \in Writers, p \in Pages : lock[p] = u => lock'[p] = u
      BY <2>1, LocksMove, Names
    <2>3. WriterHolds'
      BY <2>1, <2>2, HoldsOn DEF Unprojected
    <2>4. QED
      BY <2>1, <2>3 DEF IdleIsEmpty
  <1>2. ASSUME wr' = wr, canon' = canon, lock' = lock
        PROVE  IdleIsEmpty' /\ WriterHolds'
    BY <1>2 DEF IdleIsEmpty, WriterHolds, Unprojected
  <1>3. QED
    BY <1>1, <1>2, WriterKeepsHolds DEF Next, vars, LeaseLapses, BackoffEnds
-----------------------------------------------------------------------------
(* Steps of the write path beside people.                                  *)

\* A step of the write path, or none; whoever watches hears of the files it
\* changed and of no others.
ProgramStep ==
    /\ [Next]_vars
    /\ hand' = hand \ Rewritten
    /\ (stir \cup queue \cup legacy)' \subseteq stir \cup queue \cup legacy \cup Rewritten

\* A page that has rows has a last one, and it carries the canonical text.
LEMMA LastRow ==
    ASSUME NEW h, OutboxInv(h), NEW p \in Pages, HasRow(p)
    PROVE  \E o \in KeysOf(p) : /\ Latest(o) /\ o[2] = canon[p] /\ BoundToCanon(o)
                                /\ box[o].status \notin {"absent", "superseded"}
  <1>1. PICK o \in KeysOf(p) : \A q \in KeysOf(p) : box[q].rev <= box[o].rev
    BY DEF OutboxInv, Revisions
  <1>2. \A q \in KeysOf(p) : q \in Keys /\ q[1] = p /\ box[q].rev \in Nat
    BY DEF KeysOf, OutboxInv, RowTypes, Row
  <1>3. box[o].rev # 0
    <2>1. PICK q \in KeysOf(p) : box[q].status # "absent"
      BY DEF HasRow
    <2>2. box[q].rev # 0 /\ box[q].rev <= box[o].rev
      BY <1>1, <1>2, <2>1 DEF OutboxInv, Revisions
    <2>3. QED
      BY <1>2, <2>2
  <1>4. Latest(o) /\ box[o].status # "absent"
    BY <1>1, <1>2, <1>3 DEF Latest, OutboxInv, Revisions
  <1>5. o[2] = canon[p] /\ BoundToCanon(o) /\ box[o].status # "superseded"
    BY <1>2, <1>4 DEF OutboxInv, OutboxMatchesCanon
  <1>6. QED
    BY <1>4, <1>5

\* A projection of a page that has a row shows its canonical text, unless a
\* row failed.
LEMMA ProjectsWhatItCommitted ==
    ASSUME EditsInv, GateOpen, NEW w \in Writers, NEW p \in Pages, HasRow(p), WriterProject(w, p)
    PROVE  file'[p] = canon[p]
  <1> DEFINE k == <<p, wr[w].batch[p]>>
  <1>1. /\ p \in Touched(w) /\ wr[w].phase = "projecting"
        /\ file' = IF /\ Latest(k)
                      /\ box[k].status \in {"pending", "processing", "completed"}
                      /\ BoundToCanon(k)
                   THEN [file EXCEPT ![p] = k[2]]
                   ELSE file
    BY DEF WriterProject
  <1>2. canon[p] = wr[w].batch[p]
    BY <1>1 DEF EditsInv, WriterHolds, Unprojected, Touched
  <1>3. PICK o \in KeysOf(p) : /\ Latest(o) /\ o[2] = canon[p] /\ BoundToCanon(o)
                              /\ box[o].status \notin {"absent", "superseded"}
    BY LastRow DEF EditsInv
  <1>4. o \in Keys /\ o[1] = p /\ box[o] \in Row
    BY DEF KeysOf, EditsInv, OutboxInv, RowTypes
  <1>5. o = k
    BY <1>2, <1>3, <1>4, KeyParts
  <1>6. box[o].status \in {"pending", "processing", "completed"}
    BY <1>3, <1>4 DEF GateOpen, Row
  <1>7. file \in [Pages -> Payloads \cup BadTexts] /\ k[2] = canon[p]
    BY <1>2 DEF EditsInv
  <1> HIDE DEF k
  <1>8. QED
    BY <1>1, <1>3, <1>5, <1>6, <1>7

\* Without an upset such a step leaves what it finds undisturbed.
LEMMA ProgramUndisturbed ==
    ASSUME EditsInv, ProgramStep, upsets' = 0
    PROVE  upsets = 0 /\ Undisturbed'
  <1>1. PICK h : h = hand
    OBVIOUS
  <1>2. OutboxInv(h) /\ RowTypes /\ [Next]_vars
    BY <1>1 DEF EditsInv, OutboxInv, ProgramStep
  <1>3. ~ Upset
    BY <1>2, UpsetCounts
  <1>4. upsets = 0
    BY <1>3 DEF ProgramStep, Next, vars, WriterStep, WriterWork, WriterStart, WriterLock,
       WriterCommit, WriterAbort, WriterProject, WriterDefer, WriterDone, WriterCrash,
       ConsumerStep, ConsumerWork, ConsumerClaim, ConsumerLock, ConsumerProject,
       ConsumerProjectFails, ConsumerPublish, ConsumerPublishFails, ConsumerComplete,
       ConsumerDone, ConsumerCrash, LeaseLapses, BackoffEnds
  <1>5. Undisturbed
    BY <1>4 DEF EditsInv
  <1>6. \A k \in Keys : RowMoves(k)
    BY <1>2, StepMovesRows
  <1>7. GateOpen'
    BY <1>3, <1>5, <1>6 DEF Undisturbed, GateOpen, RowMoves
  <1>8. \A p \in Pages : HasRow(p) => HasRow(p)'
    BY <1>6 DEF HasRow, KeysOf, RowMoves
  <1>9. \A p \in Rewritten : p \in Pages /\ HasRow(p)
    BY <1>2, FileHasRow DEF Rewritten
  <1>10. ASSUME NEW p \in (stir \cup queue \cup legacy)'
         PROVE  p \in hand' \/ HasRow(p)'
    <2>1. p \in hand' \/ p \in Rewritten \/ HasRow(p)
      BY <1>5, <1>10 DEF ProgramStep, Undisturbed
    <2>2. HasRow(p) => HasRow(p)'
      BY <1>6 DEF HasRow, KeysOf, RowMoves
    <2>3. QED
      BY <1>9, <2>1, <2>2
  <1>11. ASSUME NEW p \in Pages, HasRow(p)'
         PROVE  \/ p \in hand'
                \/ file'[p] = canon'[p]
                \/ \E w \in Writers : Unprojected(w, p)'
    <2>1. CASE \E w \in Writers : WriterCommit(w) /\ wr[w].batch[p] # Keep
      <3>1. PICK w \in Writers : WriterCommit(w) /\ wr[w].batch[p] # Keep
        BY <2>1
      <3>2. wr \in [Writers -> WriterMemories]
        BY <1>2 DEF RowTypes, WriterMemories, Batches
      <3>3. Unprojected(w, p)'
        BY <3>1, <3>2 DEF WriterCommit, Unprojected, WriterMemories
      <3>4. QED
        BY <3>3
    <2>2. CASE ~ \E w \in Writers : WriterCommit(w) /\ wr[w].batch[p] # Keep
      <3>1. canon'[p] = canon[p]
        BY <1>2, <2>2, CanonMoves
      <3>2. HasRow(p)
        BY <1>6, <1>11, <2>2 DEF HasRow, KeysOf, RowMoves
      <3>3. file'[p] # file[p] => file'[p] = canon[p]
        BY <1>2, FileMoves
      <3>4. p \in hand => p \in hand' \/ file'[p] # file[p]
        BY DEF ProgramStep, Rewritten
      <3>5. ASSUME NEW w \in Writers, Unprojected(w, p), ~ Unprojected(w, p)'
            PROVE  file'[p] = canon[p]
        BY <1>2, <1>3, <1>5, <3>2, <3>5, UnprojectedEnds, ProjectsWhatItCommitted
           DEF Undisturbed
      <3>6. QED
        BY <1>5, <3>1, <3>2, <3>3, <3>4, <3>5 DEF Undisturbed
    <2>3. QED
      BY <2>1, <2>2
  <1>12. QED
    BY <1>4, <1>7, <1>10, <1>11 DEF Undisturbed

\* The write path keeps the invariant beside people.
LEMMA ProgramKeeps ==
    ASSUME EditsInv, ProgramStep
    PROVE  EditsInv'
  <1>1. PICK h : h = hand
    OBVIOUS
  <1>2. OutboxInv(h) /\ RowTypes /\ [Next]_vars
    BY <1>1 DEF EditsInv, OutboxInv, ProgramStep
  <1>3. OutboxInv(h)'
    BY <1>2, OutboxInvStep
  <1>4. \A p \in Pages : file'[p] # file[p] => file'[p] = canon[p] /\ canon' = canon
    BY <1>2, FileMoves
  <1>5. OutboxInv(hand)'
    <2>1. \A p \in Pages : p \in h /\ p \notin hand' => file'[p] = canon'[p]
      BY <1>1, <1>4 DEF ProgramStep, Rewritten
    <2>2. QED
      BY <1>3, <2>1, ExcuseFewer
  <1>6. file' \in [Pages -> Payloads \cup BadTexts]
    <2>1. file' = [p \in Pages |-> file'[p]]
      BY <1>3 DEF OutboxInv, RowTypes
    <2>2. \A p \in Pages : file'[p] \in Payloads \cup BadTexts
      BY <1>2, <1>4 DEF EditsInv, RowTypes
    <2>3. QED
      BY <2>1, <2>2
  <1>7. IdleIsEmpty' /\ WriterHolds'
    BY <1>2, StepKeepsHolds DEF EditsInv
  <1>8. QED
    BY <1>5, <1>6, <1>7, ProgramUndisturbed DEF EditsInv
-----------------------------------------------------------------------------
(* People, the watcher and the rounds of the consumer thread.              *)

\* A person writes a file: nobody is blamed for it.
LEMMA HandEditKeeps ==
    ASSUME EditsInv, NEW p \in Pages, NEW t \in Payloads \cup BadTexts, HandEdit(p, t)
    PROVE  EditsInv'
  <1>1. /\ file' = [file EXCEPT ![p] = t] /\ stir' = stir \cup {p} /\ hand' = hand \cup {p}
        /\ UNCHANGED <<canon, index, box, lock, wr, con, writes, upsets, queue, legacy>>
    BY DEF HandEdit, loopVars
  <1>2. file \in [Pages -> Payloads \cup BadTexts]
    BY DEF EditsInv
  <1>3. file' \in [Pages -> Payloads \cup BadTexts]
    BY <1>1, <1>2
  <1>4. PICK h : h = hand \cup {p}
    OBVIOUS
  <1>5. OutboxInv(h)
    BY <1>4, ExcuseMore DEF EditsInv
  <1>6. RowTypes'
    BY <1>1, <1>3 DEF EditsInv, OutboxInv, RowTypes
  <1>7. \A q \in Pages : file'[q] \in {file[q], canon[q]} \/ q \in h
    BY <1>1, <1>2, <1>4
  <1>8. OutboxInv(h)'
    BY <1>1, <1>5, <1>6, <1>7, IdleStep
  <1>9. OutboxInv(hand)'
    BY <1>1, <1>4, <1>8, ExcuseFewer
  <1>10. IdleIsEmpty' /\ WriterHolds'
    BY <1>1 DEF EditsInv, IdleIsEmpty, WriterHolds, Unprojected
  <1>11. ASSUME Undisturbed
         PROVE  Undisturbed'
    <2>1. GateOpen' /\ \A q \in Pages : HasRow(q)' <=> HasRow(q)
      BY <1>1, <1>11 DEF Undisturbed, GateOpen, HasRow
    <2>2. \A q \in (stir \cup queue \cup legacy)' : q \in hand' \/ HasRow(q)'
      BY <1>1, <1>11 DEF Undisturbed, HasRow
    <2>3. ASSUME NEW q \in Pages, HasRow(q)'
          PROVE  q \in hand' \/ file'[q] = canon'[q] \/ \E w \in Writers : Unprojected(w, q)'
      BY <1>1, <1>2, <1>11, <2>1, <2>3 DEF Undisturbed, Unprojected
    <2>4. QED
      BY <2>1, <2>2, <2>3 DEF Undisturbed
  <1>12. QED
    BY <1>1, <1>3, <1>9, <1>10, <1>11 DEF EditsInv

\* A step that changes no store, no file and no row, and lets go of what a
\* process remembers at most.
LEMMA AsideKeeps ==
    ASSUME EditsInv, RowTypes', IdleIsEmpty', WriterHolds',
           UNCHANGED <<canon, file, index, box, hand>>,
           \A c \in Consumers : con'[c] = con[c] \/ con'[c] = IdleConsumer,
           upsets' = 0 => upsets = 0 /\ Undisturbed'
    PROVE  EditsInv'
  <1>1. PICK h : h = hand
    OBVIOUS
  <1>2. OutboxInv(h)
    BY <1>1 DEF EditsInv
  <1>3. OutboxInv(h)'
    BY <1>2, IdleStep
  <1>4. OutboxInv(hand)'
    BY <1>1, <1>3, ExcuseFewer
  <1>5. QED
    BY <1>4 DEF EditsInv

\* What goes wrong in a round changes no store, and is an upset.
LEMMA MishapKeeps ==
    ASSUME EditsInv, Upset, UNCHANGED <<canon, file, index, box, lock, wr, con, writes, hand>>
    PROVE  EditsInv'
  <1>1. RowTypes
    BY DEF EditsInv, OutboxInv
  <1>2. upsets' # 0 /\ upsets' \in 0 .. MaxUpsets
    BY <1>1, UpsetCounts, UpsetType
  <1>3. RowTypes'
    BY <1>1, <1>2 DEF RowTypes
  <1>4. IdleIsEmpty' /\ WriterHolds'
    BY DEF EditsInv, IdleIsEmpty, WriterHolds, Unprojected
  <1>5. QED
    BY <1>2, <1>3, <1>4, AsideKeeps

\* A restart frees the locks of the thread and forgets what it was doing.
LEMMA RestartKeeps ==
    ASSUME EditsInv, DaemonRestarts
    PROVE  EditsInv'
  <1>1. /\ lock' = [p \in Pages |-> IF lock[p] \in {Daemon, Editor} THEN Nobody ELSE lock[p]]
        /\ con' = [con EXCEPT ![Daemon] = IdleConsumer]
        /\ wr' = [wr EXCEPT ![Editor] = IdleWriter]
        /\ UNCHANGED <<canon, file, index, box, writes, hand>> /\ Upset
    BY DEF DaemonRestarts
  <1>2. Daemon \in Consumers /\ Editor \in Writers
    BY EditsAssumption
  <1>3. RowTypes /\ wr \in [Writers -> WriterMemories] /\ con \in [Consumers -> Memories]
    BY DEF EditsInv, OutboxInv, RowTypes, WriterMemories, Batches, Memories
  <1>4. upsets' # 0 /\ upsets' \in 0 .. MaxUpsets
    BY <1>1, <1>3, UpsetCounts, UpsetType
  <1>5. wr' \in [Writers -> WriterMemories] /\ con' \in [Consumers -> Memories]
    BY <1>1, <1>2, <1>3, WriterMemory, ConsumerMemory
  <1>6. RowTypes'
    BY <1>1, <1>3, <1>4, <1>5 DEF RowTypes, WriterMemories, Batches, Memories
  <1>7. IdleIsEmpty'
    BY <1>1, <1>3 DEF EditsInv, IdleIsEmpty
  <1>8. ASSUME NEW u \in Writers, NEW p \in Pages, Unprojected(u, p)'
        PROVE  lock'[p] = u /\ canon'[p] = wr'[u].batch[p]
    <2>1. u # Editor
      BY <1>1, <1>2, <1>3, <1>8 DEF Unprojected, IdleWriter
    <2>2. wr'[u] = wr[u]
      BY <1>1, <1>3, <2>1
    <2>3. lock[p] = u /\ canon[p] = wr[u].batch[p]
      BY <1>8, <2>2 DEF EditsInv, WriterHolds, Unprojected
    <2>4. QED
      BY <1>1, <1>2, <2>1, <2>2, <2>3, Names
  <1>9. WriterHolds'
    BY <1>8 DEF WriterHolds
  <1>10. QED
    BY <1>1, <1>3, <1>4, <1>6, <1>7, <1>9, AsideKeeps

\* The thread reads a file under the page's lock, and makes it a batch.
LEMMA EditReadKeeps ==
    ASSUME EditsInv, NEW p \in Pages, EditRead(p)
    PROVE  EditsInv'
  <1> DEFINE b == [q \in Pages |-> IF q = p THEN file[p] ELSE Keep]
  <1>1. /\ legacy' = legacy \ {p} /\ lock[p] = Nobody /\ file[p] \notin BadTexts
        /\ lock' = [lock EXCEPT ![p] = Editor]
        /\ wr' = [wr EXCEPT ![Editor] = [phase |-> "locking", batch |-> b]]
        /\ UNCHANGED <<canon, file, index, box, con, writes, upsets, stir, queue, hand>>
        /\ wr[Editor].phase = "idle"
    BY DEF EditRead, watchVars, Refused, NextPage
  <1>2. RowTypes /\ wr \in [Writers -> WriterMemories] /\ Editor \in Writers
    BY EditsAssumption DEF EditsInv, OutboxInv, RowTypes, WriterMemories, Batches
  <1>3. b \in Batches
    BY <1>1 DEF EditsInv, Batches
  <1> HIDE DEF b
  <1>4. wr' \in [Writers -> WriterMemories]
    BY <1>1, <1>2, <1>3, WriterMemory
  <1>5. RowTypes'
    BY <1>1, <1>2, <1>4 DEF RowTypes, WriterMemories, Batches
  <1>6. wr'[Editor].phase = "locking" /\ \A u \in Writers : u # Editor => wr'[u] = wr[u]
    BY <1>1, <1>2
  <1>7. IdleIsEmpty'
    BY <1>6 DEF EditsInv, IdleIsEmpty
  <1>8. \A u \in Writers, q \in Pages : Unprojected(u, q)' <=> Unprojected(u, q)
    BY <1>1, <1>6 DEF Unprojected
  <1>9. WriterHolds'
    <2>1. \A u \in Writers, q \in Pages : lock[q] = u => lock'[q] = u
      BY <1>1, <1>2, Names DEF RowTypes
    <2>2. ASSUME NEW u \in Writers, NEW q \in Pages, Unprojected(u, q)'
          PROVE  lock'[q] = u /\ canon'[q] = wr'[u].batch[q]
      <3>1. u # Editor /\ Unprojected(u, q)
        BY <1>6, <1>8, <2>2 DEF Unprojected
      <3>2. QED
        BY <1>1, <1>6, <2>1, <3>1 DEF EditsInv, WriterHolds
    <2>3. QED
      BY <2>2 DEF WriterHolds
  <1>10. Undisturbed => Undisturbed'
    BY <1>1, <1>8 DEF Undisturbed, GateOpen, HasRow
  <1>11. QED
    BY <1>1, <1>5, <1>7, <1>9, <1>10, AsideKeeps DEF EditsInv
-----------------------------------------------------------------------------
(* The invariant, and what it is for.                                      *)

\* At the start there is no row, and nobody is at work.
LEMMA EditsInvInit == EditsInit => EditsInv
  <1>1. SUFFICES ASSUME EditsInit
                 PROVE  EditsInv
    OBVIOUS
  <1>2. /\ Init /\ hand = {} /\ stir = {} /\ queue = {} /\ legacy = {}
        /\ wr = [w \in Writers |-> IdleWriter]
    BY <1>1 DEF EditsInit, Init
  <1>3. OutboxInv({})
    BY <1>2, OutboxInvInit
  <1>4. file \in [Pages -> Payloads \cup BadTexts]
    BY <1>2 DEF Init
  <1>5. IdleIsEmpty /\ WriterHolds
    BY <1>2 DEF IdleIsEmpty, WriterHolds, Unprojected, IdleWriter
  <1>6. Undisturbed
    <2>1. \A k \in Keys : box[k].status = "absent"
      BY <1>2 DEF Init
    <2>2. QED
      BY <1>2, <2>1 DEF Undisturbed, GateOpen, HasRow, KeysOf
  <1>7. QED
    BY <1>2, <1>3, <1>4, <1>5, <1>6 DEF EditsInv

\* Which steps of the composition are steps of the write path.
LEMMA WatcherSteps ==
    ASSUME NEW p \in Pages, Notice(p) \/ DebounceEnds(p) \/ EditSkip(p) \/ EditRefused(p)
    PROVE  ProgramStep
  <1>1. UNCHANGED vars /\ UNCHANGED hand
    BY DEF Notice, DebounceEnds, EditSkip, EditRefused, watchVars
  <1>2. Rewritten = {}
    BY <1>1 DEF vars, Rewritten
  <1>3. (stir \cup queue \cup legacy)' \subseteq stir \cup queue \cup legacy
    BY DEF Notice, QueuePath, DebounceEnds, EditSkip, EditRefused, watchVars, loopVars
  <1>4. QED
    BY <1>1, <1>2, <1>3 DEF ProgramStep

\* The consumer thread takes pages from the queue, or returns at once.
LEMMA RoundSteps ==
    ASSUME DaemonIdle \/ DaemonTakes \/ DaemonReturns
    PROVE  ProgramStep
  <1>1. UNCHANGED vars /\ UNCHANGED hand
    BY DEF DaemonIdle, DaemonTakes, DaemonReturns
  <1>2. Rewritten = {}
    BY <1>1 DEF vars, Rewritten
  <1>3. (stir \cup queue \cup legacy)' \subseteq stir \cup queue \cup legacy
    BY DEF DaemonIdle, DaemonTakes, DaemonReturns, watchVars
  <1>4. QED
    BY <1>1, <1>2, <1>3 DEF ProgramStep

\* Writers, the drain, the planned edit, time and stutters.
LEMMA WritePathSteps ==
    ASSUME \/ \E w \in Writers : OtherWriter(w)
           \/ DaemonDrains \/ EditPlan \/ EditAborts \/ TimePasses \/ UNCHANGED allVars
    PROVE  ProgramStep
  <1>1. Daemon \in Consumers /\ Editor \in Writers
    BY EditsAssumption
  <1>2. [Next]_vars
    BY <1>1 DEF OtherWriter, DaemonDrains, EditPlan, EditAborts, TimePasses, allVars, Next,
       ConsumerStep, WriterStep, WriterWork
  <1>3. CASE (\E w \in Writers : OtherWriter(w)) \/ DaemonDrains \/ EditPlan
    BY <1>2, <1>3 DEF OtherWriter, DaemonDrains, EditPlan, ByProgram, ProgramStep, loopVars
  <1>4. CASE EditAborts \/ TimePasses \/ UNCHANGED allVars
    <2>1. UNCHANGED <<file, stir, queue, legacy, hand>>
      BY <1>4 DEF EditAborts, WriterAbort, TimePasses, LeaseLapses, BackoffEnds, editVars,
         watchVars, loopVars, allVars, vars
    <2>2. Rewritten = {}
      BY <2>1 DEF Rewritten
    <2>3. QED
      BY <1>2, <2>1, <2>2 DEF ProgramStep
  <1>5. QED
    BY <1>3, <1>4

\* Every step keeps the invariant.
LEMMA EditsInvStep == EditsInv /\ [EditsNext]_allVars => EditsInv'
  <1>1. SUFFICES ASSUME EditsInv, [EditsNext]_allVars
                 PROVE  EditsInv'
    OBVIOUS
  <1>2. CASE ProgramStep
    BY <1>1, <1>2, ProgramKeeps
  <1>3. ASSUME NEW p \in Pages, NoticeBlind(p) \/ EditFails(p)
        PROVE  EditsInv'
    BY <1>1, <1>3, MishapKeeps DEF NoticeBlind, EditFails, watchVars
  <1>4. CASE DaemonSkips
    BY <1>1, <1>4, MishapKeeps DEF DaemonSkips
  <1>5. QED
    BY <1>1, <1>2, <1>3, <1>4, HandEditKeeps, RestartKeeps, EditReadKeeps, WatcherSteps,
       RoundSteps, WritePathSteps
       DEF EditsNext, LoopStep, EditStep

\* The inductive invariant holds in every reachable state.
THEOREM EditsInductive == EditsSpec => []EditsInv
  BY EditsInvInit, EditsInvStep, PTL DEF EditsSpec

\* A completed row means what it says although people write the files: the
\* index shows the canonical text, and so does the file unless a person wrote
\* it since.
THEOREM EditsSound == EditsSpec => []CompletedOrEdited
  <1>1. EditsInv => CompletedOrEdited
    BY DEF EditsInv, OutboxInv, CompletedIsShown, CompletedOrEdited
  <1>2. QED
    BY <1>1, EditsInductive, PTL

\* What the thread has read of a page, without an upset, a person wrote.
LEMMA ReadsEdits ==
    ASSUME EditsInv, upsets = 0, NEW q \in Pages, EditRead(q)
    PROVE  Canonicalised \subseteq hand
  <1>1. SUFFICES ASSUME NEW p \in Canonicalised
                 PROVE  p \in hand
    OBVIOUS
  <1>2. p \in Pages /\ wr'[Editor].batch[p] # Keep
    BY DEF Canonicalised
  <1>3. /\ q \in legacy /\ lock[q] = Nobody /\ ~ Managed(q)
        /\ wr' = [wr EXCEPT ![Editor] =
                     [phase |-> "locking",
                      batch |-> [r \in Pages |-> IF r = q THEN file[q] ELSE Keep]]]
    BY DEF EditRead, NextPage
  <1>4. p = q
    <2>1. Editor \in Writers /\ wr \in [Writers -> WriterMemories]
      BY EditsAssumption DEF EditsInv, OutboxInv, RowTypes, WriterMemories, Batches
    <2>2. QED
      BY <1>2, <1>3, <2>1
  <1>5. SUFFICES ASSUME q \notin hand
                 PROVE  FALSE
    BY <1>4
  <1>6. HasRow(q)
    BY <1>3, <1>5 DEF EditsInv, Undisturbed
  <1>7. file[q] = canon[q]
    BY <1>3, <1>5, <1>6, Names DEF EditsInv, Undisturbed, WriterHolds
  <1>8. PICK o \in KeysOf(q) : Latest(o) /\ o[2] = canon[q]
    BY <1>6, LastRow DEF EditsInv
  <1>9. QED
    BY <1>3, <1>7, <1>8 DEF Managed

\* No other step makes the idle editor begin a batch.
LEMMA OnlyReadsBegin ==
    ASSUME EditsInv, [EditsNext]_allVars, \A q \in Pages : ~ EditRead(q)
    PROVE  Canonicalised = {}
  <1>1. SUFFICES ASSUME NEW p \in Canonicalised
                 PROVE  FALSE
    OBVIOUS
  <1>2. /\ p \in Pages /\ wr[Editor].phase = "idle" /\ wr'[Editor].batch[p] # Keep
        /\ Editor \in Writers /\ RowTypes
    BY EditsAssumption DEF Canonicalised, EditsInv, OutboxInv
  <1>3. wr[Editor] = IdleWriter /\ wr'[Editor] # IdleWriter /\ wr'[Editor] # wr[Editor]
    BY <1>2 DEF EditsInv, IdleIsEmpty, IdleWriter
  <1>4. ASSUME NEW w \in Writers \ {Editor}, OtherWriter(w)
        PROVE  FALSE
    BY <1>2, <1>3, <1>4, WriterRemembers DEF OtherWriter
  <1>5. wr' # wr
    BY <1>3
  <1>6. ~ DaemonDrains
    BY <1>5 DEF DaemonDrains, ConsumerWork, ConsumerClaim, ConsumerLock, ConsumerProject,
       ConsumerProjectFails, ConsumerPublish, ConsumerPublishFails, ConsumerComplete,
       ConsumerDone
  <1>7. ~ EditPlan /\ ~ EditAborts
    BY <1>2 DEF EditPlan, EditAborts, WriterCommit, WriterDone, WriterProject, WriterDefer,
       WriterAbort
  <1>8. ~ DaemonRestarts
    BY <1>2, <1>3 DEF DaemonRestarts, RowTypes
  <1>9. QED
    BY <1>1, <1>4, <1>5, <1>6, <1>7, <1>8
       DEF EditsNext, allVars, vars, HandEdit, Notice, NoticeBlind, DebounceEnds, EditFails,
           LoopStep, EditStep, DaemonIdle, DaemonTakes, DaemonReturns, EditSkip, EditRefused,
           DaemonSkips, TimePasses, LeaseLapses, BackoffEnds

\* As long as nothing was interrupted, no batch of the consumer thread holds
\* what the write path itself has put into a file.
THEOREM EditsOnly == EditsSpec => OnlyEditsUnlessUpset
  <1>1. EditsInv /\ [EditsNext]_allVars
           => [upsets = 0 => Canonicalised \subseteq hand]_allVars
    BY ReadsEdits, OnlyReadsBegin
  <1>2. QED
    BY <1>1, EditsInductive, PTL DEF EditsSpec, OnlyEditsUnlessUpset
=============================================================================
