------------------------ MODULE MutationOutbox_proofs ------------------------
(***************************************************************************)
(* Proofs about MutationOutbox, for every number of pages, texts, writers  *)
(* and consumers and every bound.                                          *)
(*                                                                         *)
(* A page has one last revision, and it carries the canonical text; a      *)
(* claim that still holds is on that revision, of a generation no other    *)
(* consumer has.  So what a claim lets a consumer write is canonical, and  *)
(* what it completes it has shown.  A commit is the only step that makes   *)
(* another revision the last one, and it leaves no row of the page leased. *)
(***************************************************************************)
EXTENDS MutationOutbox, TLAPS

Mine(c) == con[c].todo \cup con[c].ready

\* Revisions start at 1 and are never given twice to a page, and some
\* revision is the last.
Revisions ==
    /\ \A k \in Keys : box[k].status = "absent" <=> box[k].rev = 0
    /\ \A k, o \in Keys : k[1] = o[1] /\ box[k].rev = box[o].rev /\ box[k].rev # 0 => k = o
    /\ \A p \in Pages : \E k \in KeysOf(p) : \A o \in KeysOf(p) : box[o].rev <= box[k].rev

\* A claim is not newer than its row, and no two consumers have one of the
\* same generation.
Generations ==
    /\ \A c \in Consumers : \A m \in Mine(c) : m.gen <= box[m.key].gen
    /\ \A c, d \in Consumers : \A m \in Mine(c), n \in Mine(d) :
          m.key = n.key /\ m.gen = n.gen => c = d

\* What a consumer has ready it has written, and once it has published the
\* index shows it: as long as the claim holds.  Somebody else may have written
\* the files of the pages in h since.
ReadyIsShown(h) ==
    \A c \in Consumers : \A m \in con[c].ready : ClaimCurrent(m) =>
        /\ file[m.key[1]] = canon[m.key[1]] \/ m.key[1] \in h
        /\ con[c].phase = "complete" => index[m.key[1]] = canon[m.key[1]]

\* CompletedIsVisible, but for files of pages in h.
CompletedIsShown(h) ==
    \A k \in Keys : Latest(k) /\ box[k].status = "completed" =>
        /\ file[k[1]] = canon[k[1]] \/ k[1] \in h
        /\ index[k[1]] = canon[k[1]]

\* TypeOK, but for the texts of the files.
RowTypes ==
    /\ canon \in [Pages -> Payloads]
    /\ file = [p \in Pages |-> file[p]]
    /\ index \in [Pages -> Payloads]
    /\ box \in [Keys -> Row]
    /\ lock \in [Pages -> Writers \cup Consumers \cup {Nobody}]
    /\ wr \in [Writers -> [phase : {"idle", "locking", "projecting"},
                           batch : [Pages -> Payloads \cup {Keep}]]]
    /\ con \in [Consumers -> [phase : {"idle", "project", "complete"},
                              todo  : SUBSET Claims,
                              ready : SUBSET Claims]]
    /\ writes \in 0..MaxWrites
    /\ upsets \in 0..MaxUpsets

OutboxInv(h) == /\ RowTypes /\ Revisions /\ Generations /\ ReadyIsShown(h)
                /\ OutboxMatchesCanon /\ CompletedIsShown(h)

Statuses == {"absent", "pending", "processing", "completed", "failed", "superseded"}
Memories == [phase : {"idle", "project", "complete"},
             todo  : SUBSET Claims, ready : SUBSET Claims]
-----------------------------------------------------------------------------
(* Keys and revisions.                                                     *)

\* A key is a page and a payload.
LEMMA KeyParts == \A k \in Keys : k[1] \in Pages /\ k[2] \in Payloads /\ k = <<k[1], k[2]>>
  BY DEF Keys

\* A page and a payload are a key.
LEMMA KeyOf == \A p \in Pages, x \in Payloads :
                 <<p, x>> \in Keys /\ <<p, x>>[1] = p /\ <<p, x>>[2] = x
  BY DEF Keys

\* The next revision of a page is above all it has.
LEMMA NextIsNew ==
    ASSUME RowTypes, Revisions, NEW p \in Pages
    PROVE  NextRev(p) \in Nat \ {0} /\ \A o \in KeysOf(p) : box[o].rev < NextRev(p)
  <1> DEFINE revs == {box[k].rev : k \in KeysOf(p)}
  <1>1. revs \subseteq Nat
    BY DEF RowTypes, Row, KeysOf
  <1>2. \E x \in revs : \A y \in revs : x >= y
    <2>1. PICK k \in KeysOf(p) : \A o \in KeysOf(p) : box[o].rev <= box[k].rev
      BY DEF Revisions
    <2>2. box[k].rev \in revs /\ \A y \in revs : y <= box[k].rev
      BY <2>1
    <2> HIDE DEF revs
    <2>3. \A y \in revs : box[k].rev >= y
      BY <1>1, <2>2
    <2>4. QED
      BY <2>2, <2>3
  <1>3. Max(revs) \in revs /\ \A y \in revs : Max(revs) >= y
    BY <1>2 DEF Max
  <1>4. \A o \in KeysOf(p) : box[o].rev \in revs
    OBVIOUS
  <1>5. NextRev(p) = Max(revs) + 1
    BY DEF NextRev
  <1> DEFINE top == Max(revs)
  <1> HIDE DEF revs, top
  <1>6. top \in Nat /\ NextRev(p) = top + 1 /\ \A o \in KeysOf(p) : box[o].rev \in Nat /\ top >= box[o].rev
    BY <1>1, <1>3, <1>4, <1>5 DEF top
  <1>7. QED
    BY <1>6

\* A page has one last revision.
LEMMA OneLatest ==
    ASSUME RowTypes, Revisions, NEW k \in Keys, NEW o \in Keys,
           k[1] = o[1], Latest(k), Latest(o)
    PROVE  k = o
  <1>1. box[k].rev \in Nat /\ box[o].rev \in Nat
    BY DEF RowTypes, Row
  <1>2. box[k].rev = box[o].rev /\ box[k].rev # 0
    BY <1>1 DEF Latest, KeysOf, Revisions
  <1>3. QED
    BY <1>2 DEF Revisions
-----------------------------------------------------------------------------
(* Rows after a step.                                                      *)

\* What enqueue writes: the row is pending, and a finished one gets a new
\* revision.
LEMMA BoundRow ==
    ASSUME RowTypes, Revisions, NEW k \in Keys
    PROVE  /\ Bound(k) \in Row
           /\ Bound(k).status = "pending" /\ Bound(k).base = k[2]
           /\ Bound(k).gen >= box[k].gen
           /\ Bound(k).rev = IF Active(k) THEN box[k].rev ELSE NextRev(k[1])
  <1>1. /\ box[k].rev \in Nat /\ box[k].gen \in Nat /\ box[k].due \in BOOLEAN
        /\ k[1] \in Pages /\ k[2] \in Payloads
    BY KeyParts DEF RowTypes, Row
  <1> DEFINE r == IF Active(k) THEN box[k].rev ELSE NextRev(k[1])
             g == IF box[k].status = "processing" THEN box[k].gen + 1 ELSE box[k].gen
             d == Active(k) => box[k].due
  <1>2. r \in Nat /\ g \in Nat /\ g >= box[k].gen /\ d \in BOOLEAN
    BY <1>1, NextIsNew
  <1>3. Bound(k) = [status |-> "pending", rev |-> r, gen |-> g, attempts |-> 0,
                    lease |-> "none", due |-> d, base |-> k[2]]
    BY DEF Bound
  <1> HIDE DEF r, g, d
  <1>4. Bound(k) \in Row
    BY <1>1, <1>2, <1>3 DEF Row
  <1>5. Bound(k).status = "pending" /\ Bound(k).base = k[2] /\ Bound(k).gen = g /\ Bound(k).rev = r
    BY <1>3
  <1>6. QED
    BY <1>2, <1>4, <1>5 DEF r

\* What supersession writes: an unfinished row of the page leaves the queue.
LEMMA SupersededRow ==
    ASSUME NEW k \in Keys, box[k] \in Row
    PROVE  /\ Superseded(k) \in Row
           /\ Superseded(k).rev = box[k].rev /\ Superseded(k).gen = box[k].gen
           /\ Superseded(k).status = IF box[k].status \in {"pending", "processing", "failed"}
                                     THEN "superseded" ELSE box[k].status
  BY DEF Superseded, Row

\* What a claim writes: a new generation, the same revision and text.
LEMMA ClaimedRowFields ==
    ASSUME NEW k \in Keys, box[k] \in Row
    PROVE  /\ ClaimedRow(k) \in Row
           /\ ClaimedRow(k).rev = box[k].rev /\ ClaimedRow(k).gen = box[k].gen + 1
           /\ ClaimedRow(k).base = box[k].base /\ ClaimedRow(k).status = "processing"
  <1> DEFINE a == box[k].attempts + 1
             g == box[k].gen + 1
  <1>1. a \in Nat /\ g \in Nat
    BY DEF Row
  <1>2. ClaimedRow(k) = [box[k] EXCEPT !.status = "processing", !.lease = "live",
                                       !.attempts = a, !.gen = g]
    BY DEF ClaimedRow, Row
  <1> HIDE DEF a, g
  <1>3. ClaimedRow(k) \in Row
    BY <1>1, <1>2 DEF Row
  <1>4. /\ ClaimedRow(k).rev = box[k].rev /\ ClaimedRow(k).gen = g
        /\ ClaimedRow(k).base = box[k].base /\ ClaimedRow(k).status = "processing"
    BY <1>2 DEF Row
  <1>5. QED
    BY <1>3, <1>4 DEF g

\* What a failure writes: the row is failed or pending again, nothing else
\* moves.
LEMMA FailedRowFields ==
    ASSUME NEW k \in Keys, box[k] \in Row
    PROVE  /\ FailedRow(k) \in Row
           /\ FailedRow(k).rev = box[k].rev /\ FailedRow(k).gen = box[k].gen
           /\ FailedRow(k).base = box[k].base /\ FailedRow(k).status \in {"failed", "pending"}
  <1> DEFINE s == IF box[k].attempts >= MaxAttempts THEN "failed" ELSE "pending"
  <1>1. s \in {"failed", "pending"}
    OBVIOUS
  <1>2. FailedRow(k) = [box[k] EXCEPT !.status = s, !.due = FALSE, !.lease = "none"]
    BY DEF FailedRow
  <1> HIDE DEF s
  <1>3. QED
    BY <1>1, <1>2 DEF Row

\* What a completion writes: status and lease only.
LEMMA CompletedRowFields ==
    ASSUME NEW r \in Row, NEW q, q = [r EXCEPT !.status = "completed", !.lease = "none"]
    PROVE  /\ q \in Row /\ q.rev = r.rev /\ q.gen = r.gen /\ q.base = r.base
           /\ q.status = "completed"
  BY DEF Row

\* What time does to a row: its lease lapses or its delay ends.
LEMMA TimedRowFields ==
    ASSUME NEW r \in Row, NEW q, q = [r EXCEPT !.lease = "lapsed"] \/ q = [r EXCEPT !.due = TRUE]
    PROVE  /\ q \in Row /\ q.rev = r.rev /\ q.gen = r.gen /\ q.base = r.base
           /\ q.status = r.status /\ q.lease \in {r.lease, "lapsed"}
  BY DEF Row

-----------------------------------------------------------------------------
(* Steps that change no canonical text.                                    *)

\* Index and file show the page, or the index does and the page is in h.
ShownTo(h, p) == (file[p] = canon[p] \/ p \in h) /\ index[p] = canon[p]

\* The tables: revisions stay, a row changes hands only while it is the last
\* of its page, and is completed only when the page shows its text.
TablesQuiet(h) ==
    /\ canon' = canon
    /\ \A p \in Pages :
          /\ file'[p] \in {file[p], canon[p]} \/ p \in h
          /\ index'[p] \in {index[p], canon[p]}
    /\ \A k \in Keys :
          /\ box'[k].rev = box[k].rev /\ box'[k].base = box[k].base
          /\ \/ box'[k].status = box[k].status
             \/ /\ Latest(k) /\ box[k].status \in {"pending", "processing"}
                /\ \/ box'[k].status \in {"pending", "processing", "failed"}
                   \/ box'[k].status = "completed" /\ ShownTo(h, k[1])

\* A step that moves no revision and no canonical text keeps what relates
\* them.
LEMMA TablesStep ==
    ASSUME NEW h, OutboxInv(h), TablesQuiet(h)
    PROVE  Revisions' /\ OutboxMatchesCanon' /\ CompletedIsShown(h)'
  <1>1. \A k \in Keys : box[k].status = "absent" <=> box'[k].status = "absent"
    BY DEF TablesQuiet
  <1>2. \A k \in Keys : Latest(k)' <=> Latest(k)
    BY <1>1, KeyParts DEF TablesQuiet, Latest, KeysOf
  <1>3. Revisions'
    BY <1>1 DEF OutboxInv, Revisions, TablesQuiet, KeysOf
  <1>4. OutboxMatchesCanon'
    BY <1>1, <1>2, KeyParts DEF OutboxInv, OutboxMatchesCanon, BoundToCanon, TablesQuiet
  <1>5. CompletedIsShown(h)'
    <2>1. SUFFICES ASSUME NEW k \in Keys, Latest(k)', box'[k].status = "completed"
                   PROVE  (file'[k[1]] = canon[k[1]] \/ k[1] \in h) /\ index'[k[1]] = canon[k[1]]
      BY DEF CompletedIsShown, TablesQuiet
    <2>2. (file[k[1]] = canon[k[1]] \/ k[1] \in h) /\ index[k[1]] = canon[k[1]]
      BY <1>2, <2>1 DEF OutboxInv, CompletedIsShown, TablesQuiet, ShownTo
    <2>3. QED
      BY <2>2, KeyParts DEF TablesQuiet
  <1>6. QED
    BY <1>3, <1>4, <1>5

\* The claims: none gets valid again, and what is added to the ready ones is
\* shown.
ClaimsQuiet(h) ==
    /\ \A k \in Keys :
          /\ box'[k].gen = box[k].gen
          /\ box'[k].status = "processing" /\ box'[k].lease = "live"
                => box[k].status = "processing" /\ box[k].lease = "live"
    /\ \A c \in Consumers : Mine(c)' \subseteq Mine(c)
    /\ \A c \in Consumers : \A m \in con'[c].ready :
          ClaimCurrent(m) => /\ (file'[m.key[1]] = canon[m.key[1]] \/ m.key[1] \in h)
                             /\ con'[c].phase = "complete" => index'[m.key[1]] = canon[m.key[1]]

\* A step that also leaves the claims in memory alone keeps what they say.
LEMMA ClaimsStep ==
    ASSUME NEW h, OutboxInv(h), TablesQuiet(h), ClaimsQuiet(h)
    PROVE  Generations' /\ ReadyIsShown(h)'
  <1>1. \A k \in Keys : box[k].status = "absent" <=> box'[k].status = "absent"
    BY DEF TablesQuiet
  <1>2. \A k \in Keys : Latest(k)' <=> Latest(k)
    BY <1>1, KeyParts DEF TablesQuiet, Latest, KeysOf
  <1>3. \A c \in Consumers : \A m \in Mine(c) : m \in Claims /\ m.key \in Keys
    BY DEF OutboxInv, RowTypes, Claims, Mine
  <1>4. Generations'
    BY <1>3 DEF OutboxInv, Generations, ClaimsQuiet
  <1>5. \A c \in Consumers : \A m \in Mine(c) : ClaimCurrent(m)' => ClaimCurrent(m)
    BY <1>2, <1>3 DEF ClaimCurrent, ClaimsQuiet, TablesQuiet
  <1>6. \A c \in Consumers : con'[c].ready \subseteq Mine(c)
    BY DEF ClaimsQuiet, Mine
  <1>7. ReadyIsShown(h)'
    BY <1>5, <1>6 DEF ReadyIsShown, ClaimsQuiet, TablesQuiet
  <1>8. QED
    BY <1>4, <1>7

\* Both together: the step keeps the invariant.
LEMMA QuietStep ==
    ASSUME NEW h, OutboxInv(h), RowTypes', TablesQuiet(h), ClaimsQuiet(h)
    PROVE  OutboxInv(h)'
  BY TablesStep, ClaimsStep DEF OutboxInv

\* A step that touches no row and no memory of a consumer, or lets go of one.
LEMMA IdleStep ==
    ASSUME NEW h, OutboxInv(h), RowTypes', canon' = canon, box' = box, index' = index,
           \A p \in Pages : file'[p] \in {file[p], canon[p]} \/ p \in h,
           \A c \in Consumers : con'[c] = con[c] \/ con'[c] = IdleConsumer
    PROVE  OutboxInv(h)'
  <1>1. index \in [Pages -> Payloads]
    BY DEF OutboxInv, RowTypes
  <1>2. TablesQuiet(h)
    BY DEF TablesQuiet
  <1>3. \A c \in Consumers : Mine(c)' \subseteq Mine(c)
    BY DEF Mine, IdleConsumer
  <1>4. ASSUME NEW c \in Consumers, NEW m \in con'[c].ready, ClaimCurrent(m)
        PROVE  /\ (file'[m.key[1]] = canon[m.key[1]] \/ m.key[1] \in h)
               /\ con'[c].phase = "complete" => index'[m.key[1]] = canon[m.key[1]]
    <2>1. con'[c] = con[c] /\ m \in con[c].ready
      BY <1>4 DEF IdleConsumer
    <2>2. m.key[1] \in Pages
      BY <2>1, KeyParts DEF OutboxInv, RowTypes, Claims
    <2>3. QED
      BY <1>4, <2>1, <2>2 DEF OutboxInv, ReadyIsShown
  <1>5. ClaimsQuiet(h)
    BY <1>3, <1>4 DEF ClaimsQuiet
  <1>6. QED
    BY <1>2, <1>5, QuietStep
-----------------------------------------------------------------------------
(* Locks, writers.                                                         *)

\* Locks taken and released are locks of writers and consumers.
LEMMA LockTypes ==
    ASSUME RowTypes, NEW q \in Writers \cup Consumers
    PROVE  /\ Release(q) => lock' \in [Pages -> Writers \cup Consumers \cup {Nobody}]
           /\ \A S : TakeNext(q, S) => lock' \in [Pages -> Writers \cup Consumers \cup {Nobody}]
  BY DEF RowTypes, Release, TakeNext

\* An upset is counted within its bound.
LEMMA UpsetType == RowTypes /\ Upset => upsets' \in 0 .. MaxUpsets
  BY OutboxAssumption DEF RowTypes, Upset

Batches == [Pages -> Payloads \cup {Keep}]
WriterMemories == [phase : {"idle", "locking", "projecting"}, batch : Batches]

\* What a writer remembers after a step.
LEMMA WriterMemory ==
    ASSUME RowTypes, NEW w \in Writers
    PROVE  /\ wr[w].phase \in {"idle", "locking", "projecting"} /\ wr[w].batch \in Batches
           /\ [wr EXCEPT ![w] = IdleWriter] \in [Writers -> WriterMemories]
           /\ \A b \in Batches :
                [wr EXCEPT ![w] = [phase |-> "locking", batch |-> b]] \in [Writers -> WriterMemories]
           /\ [wr EXCEPT ![w].phase = "projecting"] \in [Writers -> WriterMemories]
           /\ \A p \in Pages : [wr EXCEPT ![w].batch[p] = Keep] \in [Writers -> WriterMemories]
  BY DEF RowTypes, WriterMemories, Batches, IdleWriter

\* A writer that starts has changed nothing yet.
LEMMA WriterStartInv ==
    ASSUME NEW h, OutboxInv(h), NEW w \in Writers, NEW b \in Batches, WriterStart(w, b)
    PROVE  OutboxInv(h)'
  <1>1. wr' \in [Writers -> WriterMemories]
    BY WriterMemory DEF WriterStart, OutboxInv
  <1>2. writes' \in 0 .. MaxWrites
    BY OutboxAssumption DEF WriterStart, OutboxInv, RowTypes
  <1>3. RowTypes'
    BY <1>1, <1>2 DEF WriterStart, OutboxInv, RowTypes, WriterMemories, Batches
  <1>4. QED
    BY <1>3, IdleStep DEF WriterStart

\* Taking a page lock changes no table and no claim.
LEMMA WriterLockInv ==
    ASSUME NEW h, OutboxInv(h), NEW w \in Writers, WriterLock(w)
    PROVE  OutboxInv(h)'
  <1>1. RowTypes'
    BY LockTypes DEF WriterLock, OutboxInv, RowTypes
  <1>2. QED
    BY <1>1, IdleStep DEF WriterLock

\* A writer lets go: with a raised exception, at its end or in a crash.
LEMMA WriterLeavesInv ==
    ASSUME NEW h, OutboxInv(h), NEW w \in Writers, WriterAbort(w) \/ WriterDone(w) \/ WriterCrash(w)
    PROVE  OutboxInv(h)'
  <1>1. /\ wr' = [wr EXCEPT ![w] = IdleWriter] /\ Release(w)
        /\ UNCHANGED <<canon, file, index, box, con, writes>>
        /\ UNCHANGED upsets \/ Upset
    BY DEF WriterAbort, WriterDone, WriterCrash
  <1>2. wr' \in [Writers -> WriterMemories]
    BY <1>1, WriterMemory DEF OutboxInv
  <1>3. upsets' \in 0 .. MaxUpsets
    BY <1>1, UpsetType DEF OutboxInv, RowTypes
  <1>4. RowTypes'
    BY <1>1, <1>2, <1>3, LockTypes DEF OutboxInv, RowTypes, WriterMemories, Batches
  <1>5. QED
    BY <1>1, <1>4, IdleStep

\* The page a writer projects shows the canonical text: the last revision
\* of the page carries it.
LEMMA WriterProjectFile ==
    ASSUME NEW h, OutboxInv(h), NEW w \in Writers, NEW p \in Pages, WriterProject(w, p)
    PROVE  file' = file \/ file' = [file EXCEPT ![p] = canon[p]]
  <1> DEFINE k == <<p, wr[w].batch[p]>>
  <1>1. p \in Touched(w) /\ (file' = file \/ (Latest(k) /\ file' = [file EXCEPT ![p] = k[2]]))
    BY DEF WriterProject
  <1>2. wr[w].batch[p] \in Payloads
    <2>1. wr[w].batch \in Batches /\ wr[w].batch[p] # Keep
      BY <1>1, WriterMemory DEF Touched, OutboxInv
    <2>2. QED
      BY <2>1 DEF Batches
  <1>3. k \in Keys /\ k[1] = p
    BY <1>2 DEF Keys
  <1> HIDE DEF k
  <1>4. Latest(k) => k[2] = canon[p]
    BY <1>3 DEF OutboxInv, OutboxMatchesCanon, Latest
  <1>5. QED
    BY <1>1, <1>4

\* A writer shows the canonical text of a page it has locked, or leaves it to
\* a consumer.
LEMMA WriterProjectInv ==
    ASSUME NEW h, OutboxInv(h), NEW w \in Writers, NEW p \in Pages, WriterProject(w, p) \/ WriterDefer(w, p)
    PROVE  OutboxInv(h)'
  <1>1. /\ wr' = [wr EXCEPT ![w].batch[p] = Keep]
        /\ UNCHANGED <<canon, index, box, lock, con, writes>>
        /\ UNCHANGED upsets \/ Upset
    BY DEF WriterProject, WriterDefer
  <1>2. file' = file \/ file' = [file EXCEPT ![p] = canon[p]]
    BY WriterProjectFile DEF WriterDefer
  <1>3. wr' \in [Writers -> WriterMemories]
    BY <1>1, WriterMemory DEF OutboxInv
  <1>4. upsets' \in 0 .. MaxUpsets
    BY <1>1, UpsetType DEF OutboxInv, RowTypes
  <1>5. /\ file' = [q \in Pages |-> file'[q]]
        /\ \A r \in Pages : file'[r] \in {file[r], canon[r]}
    BY <1>2 DEF OutboxInv, RowTypes
  <1>6. RowTypes'
    BY <1>1, <1>3, <1>4, <1>5 DEF OutboxInv, RowTypes, WriterMemories, Batches
  <1>7. QED
    BY <1>1, <1>5, <1>6, IdleStep
-----------------------------------------------------------------------------
(* The commit of a batch.                                                  *)

\* A page the batch leaves alone.
LEMMA CommitElsewhere ==
    ASSUME NEW w \in Writers, WriterCommit(w), NEW k \in Keys, wr[w].batch[k[1]] = Keep
    PROVE  /\ canon'[k[1]] = canon[k[1]] /\ box'[k] = box[k]
           /\ Latest(k)' <=> Latest(k)
  <1>1. canon'[k[1]] = canon[k[1]]
    BY KeyParts DEF WriterCommit
  <1>2. \A o \in KeysOf(k[1]) : box'[o] = box[o]
    BY DEF WriterCommit, KeysOf
  <1>3. k \in KeysOf(k[1])
    BY DEF KeysOf
  <1>4. QED
    BY <1>1, <1>2, <1>3 DEF Latest, KeysOf

\* A page of the batch: the row of its new text is pending, bound and the
\* last; the others are finished, and none is the last.
LEMMA CommitHere ==
    ASSUME NEW h, OutboxInv(h), NEW w \in Writers, WriterCommit(w), NEW p \in Pages,
           NEW n, wr[w].batch[p] # Keep, n = <<p, wr[w].batch[p]>>
    PROVE  /\ n \in KeysOf(p) /\ canon'[p] = n[2]
           /\ box'[n] \in Row /\ box'[n].status = "pending" /\ box'[n].base = n[2]
           /\ box'[n].rev # 0 /\ box'[n].gen >= box[n].gen
           /\ \A o \in KeysOf(p) : o # n =>
                 /\ box'[o] \in Row /\ box'[o].gen = box[o].gen /\ box'[o].rev = box[o].rev
                 /\ box'[o].rev < box'[n].rev
                 /\ box'[o].status = "absent" <=> box[o].status = "absent"
                 /\ box'[o].status \in {"absent", "completed", "superseded"}
  <1> DEFINE b == wr[w].batch
  <1>1. b \in Batches
    BY WriterMemory DEF OutboxInv
  <1>2. b[p] \in Payloads
    BY <1>1 DEF Batches
  <1>3. n \in Keys /\ n \in KeysOf(p) /\ n[1] = p /\ n[2] = b[p]
    BY <1>2 DEF Keys, KeysOf
  <1>4. canon'[p] = n[2]
    BY <1>3 DEF WriterCommit
  <1>5. box'[n] = Bound(n)
    BY <1>3 DEF WriterCommit
  <1>6. \A o \in KeysOf(p) : /\ o \in Keys /\ o[1] = p /\ box[o] \in Row
                           /\ box[o].rev \in Nat /\ box[o].gen \in Nat
    BY DEF KeysOf, OutboxInv, RowTypes, Row
  <1>7. \A o \in KeysOf(p) : o # n => o[2] # b[p]
    BY <1>6, KeyParts
  <1>8. \A o \in KeysOf(p) : o # n => box'[o] = IF Active(n) THEN box[o] ELSE Superseded(o)
    BY <1>6, <1>7 DEF WriterCommit
  <1>9. /\ box'[n] \in Row /\ box'[n].status = "pending" /\ box'[n].base = n[2]
        /\ box'[n].gen >= box[n].gen
        /\ box'[n].rev = IF Active(n) THEN box[n].rev ELSE NextRev(p)
    BY <1>3, <1>5, BoundRow DEF OutboxInv
  <1>10. CASE Active(n)
    <2>1. Latest(n) /\ box[n].rev # 0 /\ box'[n].rev = box[n].rev
      BY <1>3, <1>9, <1>10 DEF Active, Latest, OutboxInv, Revisions
    <2>2. ASSUME NEW o \in KeysOf(p), o # n
          PROVE  /\ box'[o] \in Row /\ box'[o].gen = box[o].gen /\ box'[o].rev = box[o].rev
                 /\ box'[o].rev < box'[n].rev
                 /\ box'[o].status = "absent" <=> box[o].status = "absent"
                 /\ box'[o].status \in {"absent", "completed", "superseded"}
      <3>1. box'[o] = box[o]
        BY <1>8, <1>10, <2>2
      <3>2. ~ Latest(o)
        BY <1>3, <1>6, <2>1, <2>2, OneLatest DEF OutboxInv
      <3>3. box[o].status \in {"absent", "completed", "superseded"}
        BY <1>6, <3>2 DEF OutboxInv, OutboxMatchesCanon
      <3>4. box[o].rev <= box[n].rev
        BY <1>3, <2>1 DEF Latest
      <3>5. box[o].rev # box[n].rev
        BY <1>3, <1>6, <2>1, <2>2 DEF OutboxInv, Revisions
      <3>6. box[o].rev < box[n].rev
        BY <1>3, <1>6, <3>4, <3>5
      <3>7. QED
        BY <1>6, <2>1, <3>1, <3>3, <3>6
    <2>3. QED
      BY <1>3, <1>4, <1>9, <2>1, <2>2
  <1>11. CASE ~ Active(n)
    <2>1. /\ box'[n].rev = NextRev(p) /\ NextRev(p) \in Nat \ {0}
          /\ \A o \in KeysOf(p) : box[o].rev < NextRev(p)
      BY <1>9, <1>11, NextIsNew DEF OutboxInv
    <2>2. ASSUME NEW o \in KeysOf(p), o # n
          PROVE  /\ box'[o] \in Row /\ box'[o].gen = box[o].gen /\ box'[o].rev = box[o].rev
                 /\ box'[o].rev < box'[n].rev
                 /\ box'[o].status = "absent" <=> box[o].status = "absent"
                 /\ box'[o].status \in {"absent", "completed", "superseded"}
      <3>1. box'[o] = Superseded(o)
        BY <1>8, <1>11, <2>2
      <3>2. box[o].status \in Statuses
        BY <1>6 DEF Row, Statuses
      <3>3. QED
        BY <1>6, <2>1, <3>1, <3>2, SupersededRow DEF Statuses
    <2>3. QED
      BY <1>3, <1>4, <1>9, <2>1, <2>2
  <1>12. QED
    BY <1>10, <1>11

\* A commit gives each page one new last revision.
LEMMA CommitRevisions ==
    ASSUME NEW h, OutboxInv(h), NEW w \in Writers, WriterCommit(w)
    PROVE  Revisions'
  <1> DEFINE b == wr[w].batch
             new(p) == <<p, b[p]>>
  <1>1. ASSUME NEW k \in Keys
        PROVE  box'[k].status = "absent" <=> box'[k].rev = 0
    <2>1. CASE b[k[1]] = Keep
      BY <2>1, CommitElsewhere DEF OutboxInv, Revisions
    <2>2. CASE b[k[1]] # Keep
      <3>1. k[1] \in Pages /\ k \in KeysOf(k[1])
        BY KeyParts DEF KeysOf
      <3>2. CASE k = new(k[1])
        BY <2>2, <3>1, <3>2, CommitHere
      <3>3. CASE k # new(k[1])
        <4> DEFINE n == new(k[1])
        <4>1. n \in KeysOf(k[1]) /\ box'[n] \in Row /\ \A q \in KeysOf(k[1]) : q # n =>
                 /\ box'[q] \in Row /\ box'[q].rev = box[q].rev
                 /\ box'[q].status = "absent" <=> box[q].status = "absent"
          BY <2>2, <3>1, CommitHere
        <4> HIDE DEF n
        <4>2. box'[k].rev = box[k].rev /\ (box'[k].status = "absent" <=> box[k].status = "absent")
          BY <3>1, <3>3, <4>1 DEF n
        <4>3. QED
          BY <4>2 DEF OutboxInv, Revisions
      <3>4. QED
        BY <3>2, <3>3
    <2>3. QED
      BY <2>1, <2>2
  <1>2. ASSUME NEW k \in Keys, NEW o \in Keys, k[1] = o[1], box'[k].rev = box'[o].rev,
               box'[k].rev # 0
        PROVE  k = o
    <2>1. CASE b[k[1]] = Keep
      BY <1>2, <2>1, CommitElsewhere DEF OutboxInv, Revisions
    <2>2. CASE b[k[1]] # Keep
      <3>1. k[1] \in Pages /\ k \in KeysOf(k[1]) /\ o \in KeysOf(k[1])
        BY <1>2, KeyParts DEF KeysOf
      <3> DEFINE n == new(k[1])
      <3>2. n \in KeysOf(k[1]) /\ box'[n] \in Row /\ \A q \in KeysOf(k[1]) : q # n =>
               box'[q] \in Row /\ box'[q].rev = box[q].rev /\ box'[q].rev < box'[n].rev
        BY <2>2, <3>1, CommitHere
      <3> HIDE DEF n
      <3>3. \A q \in KeysOf(k[1]) : box'[q].rev \in Nat
        BY <3>2 DEF Row
      <3>4. CASE k = n \/ o = n
        BY <1>2, <3>1, <3>2, <3>3, <3>4
      <3>5. CASE k # n /\ o # n
        BY <1>2, <3>1, <3>2, <3>5 DEF OutboxInv, Revisions
      <3>6. QED
        BY <3>4, <3>5
    <2>3. QED
      BY <2>1, <2>2
  <1>3. ASSUME NEW p \in Pages
        PROVE  \E k \in KeysOf(p) : \A o \in KeysOf(p) : box'[o].rev <= box'[k].rev
    <2>1. CASE b[p] = Keep
      <3>1. \A o \in KeysOf(p) : box'[o] = box[o]
        BY <2>1, CommitElsewhere DEF KeysOf
      <3>2. QED
        BY <3>1 DEF OutboxInv, Revisions
    <2>2. CASE b[p] # Keep
      <3> DEFINE n == new(p)
      <3>1. n \in KeysOf(p) /\ box'[n] \in Row /\ \A q \in KeysOf(p) : q # n =>
               box'[q] \in Row /\ box'[q].rev < box'[n].rev
        BY <2>2, CommitHere
      <3> HIDE DEF n
      <3>2. \A q \in KeysOf(p) : box'[q].rev \in Nat
        BY <3>1 DEF Row
      <3>3. \A o \in KeysOf(p) : box'[o].rev <= box'[n].rev
        BY <3>1, <3>2
      <3>4. QED
        BY <3>1, <3>3
    <2>3. QED
      BY <2>1, <2>2
  <1>4. QED
    BY <1>1, <1>2, <1>3 DEF Revisions, KeysOf

\* After the commit the last revision of a page of the batch is the row of
\* its new text.
LEMMA CommitLatest ==
    ASSUME NEW h, OutboxInv(h), NEW w \in Writers, WriterCommit(w), NEW k \in Keys,
           wr[w].batch[k[1]] # Keep
    PROVE  /\ box'[k].gen >= box[k].gen /\ box'[k] \in Row
           /\ box'[k].status \in {"absent", "pending", "completed", "superseded"}
           /\ Latest(k)' => /\ box'[k].status = "pending"
                            /\ k[2] = canon'[k[1]] /\ box'[k].base = canon'[k[1]]
           /\ box'[k].status = "pending" => Latest(k)'
  <1> DEFINE p == k[1]
             n == <<p, wr[w].batch[p]>>
  <1>1. p \in Pages /\ k \in KeysOf(p) /\ box[k].gen \in Nat /\ box[k].status \in Statuses
    BY KeyParts DEF KeysOf, OutboxInv, RowTypes, Row, Statuses
  <1>2. /\ n \in KeysOf(p) /\ canon'[p] = n[2]
        /\ box'[n] \in Row /\ box'[n].status = "pending" /\ box'[n].base = n[2]
        /\ box'[n].rev # 0 /\ box'[n].gen >= box[n].gen
        /\ \A o \in KeysOf(p) : o # n =>
              /\ box'[o] \in Row /\ box'[o].gen = box[o].gen /\ box'[o].rev = box[o].rev
              /\ box'[o].rev < box'[n].rev
              /\ box'[o].status = "absent" <=> box[o].status = "absent"
              /\ box'[o].status \in {"absent", "completed", "superseded"}
    BY <1>1, CommitHere
  <1> HIDE DEF n
  <1>3. \A o \in KeysOf(p) : box'[o].rev \in Nat
    BY <1>2 DEF Row
  <1>4. CASE k = n
    <2>1. \A o \in KeysOf(p) : box'[o].rev <= box'[k].rev
      BY <1>2, <1>3, <1>4
    <2>2. Latest(k)'
      BY <1>2, <1>4, <2>1 DEF Latest, KeysOf
    <2>3. QED
      BY <1>2, <1>4, <2>2
  <1>5. CASE k # n
    <2>1. ~ (box'[n].rev <= box'[k].rev)
      BY <1>1, <1>2, <1>3, <1>5
    <2>2. ~ Latest(k)'
      BY <1>2, <2>1 DEF Latest, KeysOf
    <2>3. box'[k].gen >= box[k].gen
      BY <1>1, <1>2, <1>5
    <2>4. QED
      BY <1>1, <1>2, <1>5, <2>2, <2>3
  <1>6. QED
    BY <1>4, <1>5

\* A commit: the last revision carries the new text and no older claim on the
\* page holds.
LEMMA WriterCommitInv ==
    ASSUME NEW h, OutboxInv(h), NEW w \in Writers, WriterCommit(w)
    PROVE  OutboxInv(h)'
  <1> DEFINE b == wr[w].batch
  <1>1. b \in Batches
    BY WriterMemory DEF OutboxInv
  <1>2. \A k \in Keys : box'[k] \in Row /\ box'[k].gen >= box[k].gen
    <2>1. \A k \in Keys : box[k] \in Row /\ box[k].gen \in Nat
      BY DEF OutboxInv, RowTypes, Row
    <2>2. \A k \in Keys : b[k[1]] = Keep => box'[k] = box[k]
      BY CommitElsewhere
    <2>3. \A k \in Keys : b[k[1]] # Keep => box'[k] \in Row /\ box'[k].gen >= box[k].gen
      BY CommitLatest
    <2>4. QED
      BY <2>1, <2>2, <2>3
  <1>3. RowTypes'
    <2>1. box' \in [Keys -> Row]
      BY <1>2 DEF WriterCommit
    <2>2. canon' \in [Pages -> Payloads]
      BY <1>1 DEF WriterCommit, OutboxInv, RowTypes, Batches
    <2>3. wr' \in [Writers -> WriterMemories]
      BY WriterMemory DEF WriterCommit, OutboxInv
    <2>4. QED
      BY <2>1, <2>2, <2>3 DEF WriterCommit, OutboxInv, RowTypes, WriterMemories, Batches
  <1>4. \A k \in Keys : b[k[1]] = Keep =>
            /\ canon'[k[1]] = canon[k[1]] /\ box'[k] = box[k] /\ (Latest(k)' <=> Latest(k))
    BY CommitElsewhere
  <1>5. \A k \in Keys : b[k[1]] # Keep =>
            /\ box'[k].status \in {"absent", "pending", "completed", "superseded"}
            /\ Latest(k)' => /\ box'[k].status = "pending"
                             /\ k[2] = canon'[k[1]] /\ box'[k].base = canon'[k[1]]
            /\ box'[k].status = "pending" => Latest(k)'
    BY CommitLatest
  <1>6. OutboxMatchesCanon'
    <2>1. ASSUME NEW k \in Keys, box'[k].status # "absent"
          PROVE  IF Latest(k)' THEN /\ k[2] = canon'[k[1]]
                                    /\ box'[k].base = canon'[k[1]]
                                    /\ box'[k].status # "superseded"
                               ELSE box'[k].status \in {"completed", "superseded"}
      <3>1. CASE b[k[1]] = Keep
        BY <1>4, <2>1, <3>1 DEF OutboxInv, OutboxMatchesCanon, BoundToCanon
      <3>2. CASE b[k[1]] # Keep
        BY <1>5, <2>1, <3>2
      <3>3. QED
        BY <3>1, <3>2
    <2>2. QED
      BY <2>1 DEF OutboxMatchesCanon, BoundToCanon
  <1>7. CompletedIsShown(h)'
    <2>1. ASSUME NEW k \in Keys, Latest(k)', box'[k].status = "completed"
          PROVE  (file[k[1]] = canon'[k[1]] \/ k[1] \in h) /\ index[k[1]] = canon'[k[1]]
      <3>1. b[k[1]] = Keep
        BY <1>5, <2>1
      <3>2. QED
        BY <1>4, <2>1, <3>1 DEF OutboxInv, CompletedIsShown
    <2>2. QED
      BY <2>1 DEF CompletedIsShown, WriterCommit
  <1>8. \A c \in Consumers : \A m \in Mine(c) : m.key \in Keys /\ m.gen \in Nat
    BY DEF OutboxInv, RowTypes, Claims, Mine
  <1>9. con' = con /\ file' = file /\ index' = index /\ \A c : Mine(c)' = Mine(c)
    BY DEF WriterCommit, Mine
  <1>10. Generations'
    <2>1. ASSUME NEW c \in Consumers, NEW m \in Mine(c)
          PROVE  m.gen <= box'[m.key].gen
      <3>1. m.gen <= box[m.key].gen /\ box'[m.key].gen >= box[m.key].gen
        BY <1>2, <1>8 DEF OutboxInv, Generations
      <3>2. box[m.key].gen \in Nat /\ box'[m.key].gen \in Nat /\ m.gen \in Nat
        BY <1>2, <1>8 DEF OutboxInv, RowTypes, Row
      <3>3. QED
        BY <3>1, <3>2
    <2>2. QED
      BY <1>9, <2>1 DEF OutboxInv, Generations
  <1>11. ReadyIsShown(h)'
    <2>1. ASSUME NEW c \in Consumers, NEW m \in con[c].ready, ClaimCurrent(m)'
          PROVE  /\ (file[m.key[1]] = canon'[m.key[1]] \/ m.key[1] \in h)
                 /\ con[c].phase = "complete" => index[m.key[1]] = canon'[m.key[1]]
      <3>1. m.key \in Keys
        BY <1>8 DEF Mine
      <3>2. b[m.key[1]] = Keep
        BY <1>5, <2>1, <3>1 DEF ClaimCurrent
      <3>3. ClaimCurrent(m)
        BY <1>4, <2>1, <3>1, <3>2 DEF ClaimCurrent
      <3>4. QED
        BY <1>4, <3>1, <3>2, <3>3 DEF OutboxInv, ReadyIsShown
    <2>2. QED
      BY <1>9, <2>1 DEF ReadyIsShown
  <1>12. QED
    BY <1>3, <1>6, <1>7, <1>10, <1>11, CommitRevisions DEF OutboxInv
-----------------------------------------------------------------------------
(* Consumers.                                                              *)

\* What a consumer remembers after a step.
LEMMA ConsumerMemory ==
    ASSUME RowTypes, NEW c \in Consumers
    PROVE  /\ con[c] \in Memories /\ con[c].todo \subseteq Claims /\ con[c].ready \subseteq Claims
           /\ [con EXCEPT ![c] = IdleConsumer] \in [Consumers -> Memories]
           /\ \A S \in SUBSET Claims :
                [con EXCEPT ![c] = [phase |-> "project", todo |-> S, ready |-> {}]]
                    \in [Consumers -> Memories]
           /\ \A S, T \in SUBSET Claims :
                [con EXCEPT ![c].todo = S, ![c].ready = T] \in [Consumers -> Memories]
           /\ \A S \in SUBSET Claims :
                /\ [con EXCEPT ![c].todo = S] \in [Consumers -> Memories]
                /\ [con EXCEPT ![c].ready = S] \in [Consumers -> Memories]
           /\ \A S \in SUBSET Claims :
                [con EXCEPT ![c].phase = "complete", ![c].ready = S] \in [Consumers -> Memories]
  <1>1. con \in [Consumers -> Memories]
    BY DEF RowTypes, Memories
  <1>2. QED
    BY <1>1 DEF Memories, IdleConsumer

\* A claim in a consumer's memory names a row.
LEMMA ClaimParts ==
    ASSUME RowTypes, NEW c \in Consumers, NEW m \in Mine(c)
    PROVE  /\ m \in Claims /\ m.key \in Keys /\ m.key[1] \in Pages /\ m.key[2] \in Payloads
           /\ m.gen \in Nat /\ box[m.key] \in Row
  BY KeyParts DEF Mine, RowTypes, Claims

\* A claim that holds is on the row of the canonical text.
LEMMA ClaimIsCanon ==
    ASSUME NEW h, OutboxInv(h), NEW c \in Consumers, NEW m \in Mine(c), ClaimCurrent(m)
    PROVE  m.key[2] = canon[m.key[1]] /\ Latest(m.key) /\ box[m.key].status = "processing"
  BY ClaimParts DEF ClaimCurrent, OutboxInv, OutboxMatchesCanon

\* A consumer that takes its locks changes no row.
LEMMA ConsumerLockInv ==
    ASSUME NEW h, OutboxInv(h), NEW c \in Consumers, ConsumerLock(c)
    PROVE  OutboxInv(h)'
  <1>1. RowTypes'
    BY LockTypes DEF ConsumerLock, OutboxInv, RowTypes
  <1>2. QED
    BY <1>1, IdleStep DEF ConsumerLock

\* A consumer has nothing left, or crashes.
LEMMA ConsumerLeavesInv ==
    ASSUME NEW h, OutboxInv(h), NEW c \in Consumers, ConsumerDone(c) \/ ConsumerCrash(c)
    PROVE  OutboxInv(h)'
  <1>1. /\ con' = [con EXCEPT ![c] = IdleConsumer] /\ Release(c)
        /\ UNCHANGED <<canon, file, index, box, wr, writes>>
        /\ UNCHANGED upsets \/ Upset
    BY DEF ConsumerDone, ConsumerCrash
  <1>2. con' \in [Consumers -> Memories]
    BY <1>1, ConsumerMemory DEF OutboxInv
  <1>3. upsets' \in 0 .. MaxUpsets
    BY <1>1, UpsetType DEF OutboxInv, RowTypes
  <1>4. RowTypes'
    BY <1>1, <1>2, <1>3, LockTypes DEF OutboxInv, RowTypes, Memories
  <1>5. \A d \in Consumers : con'[d] = con[d] \/ con'[d] = IdleConsumer
    BY <1>1 DEF OutboxInv, RowTypes
  <1>6. QED
    BY <1>1, <1>4, <1>5, IdleStep

\* A batch of rows is leased: the claims there were on them hold no longer.
LEMMA ConsumerClaimInv ==
    ASSUME NEW h, OutboxInv(h), NEW c \in Consumers, ConsumerClaim(c)
    PROVE  OutboxInv(h)'
  <1> DEFINE rows == {k \in Keys : Claimable(k)}
             claims == {[key |-> k, gen |-> box[k].gen + 1, rev |-> box[k].rev] : k \in rows}
  <1>1. /\ \A k \in Keys : box'[k] = IF k \in rows THEN ClaimedRow(k) ELSE box[k]
        /\ box' = [k \in Keys |-> IF k \in rows THEN ClaimedRow(k) ELSE box[k]]
        /\ con' = [con EXCEPT ![c] = [phase |-> "project", todo |-> claims, ready |-> {}]]
        /\ UNCHANGED <<canon, file, index, lock, wr, writes, upsets>>
    BY DEF ConsumerClaim
  <1>2. \A k \in Keys : box[k] \in Row /\ box[k].gen \in Nat /\ box[k].rev \in Nat
    BY DEF OutboxInv, RowTypes, Row
  <1>3. \A k \in rows : box'[k] = ClaimedRow(k)
    BY <1>1
  <1>4. \A k \in rows : k \in Keys /\ Latest(k) /\ box[k].status \in {"pending", "processing"}
    BY DEF Claimable
  <1>5. claims \subseteq Claims
    BY <1>2 DEF Claims
  <1>6. \A m \in claims : m.key \in rows /\ m.gen = box[m.key].gen + 1
    OBVIOUS
  <1> HIDE DEF rows, claims
  <1>7. \A k \in Keys : k \notin rows => box'[k] = box[k]
    BY <1>1
  <1>8. \A k \in rows : /\ box'[k] \in Row /\ box'[k].rev = box[k].rev /\ box'[k].base = box[k].base
                       /\ box'[k].gen = box[k].gen + 1 /\ box'[k].status = "processing"
    BY <1>2, <1>3, <1>4, ClaimedRowFields
  <1>9. \A k \in Keys : box'[k] \in Row /\ box'[k].rev = box[k].rev /\ box'[k].base = box[k].base
    BY <1>2, <1>7, <1>8
  <1>10. RowTypes'
    <2>1. box' \in [Keys -> Row]
      BY <1>1, <1>9
    <2>2. con' \in [Consumers -> Memories]
      BY <1>1, <1>5, ConsumerMemory DEF OutboxInv
    <2>3. QED
      BY <1>1, <2>1, <2>2 DEF OutboxInv, RowTypes, Memories
  <1>11. TablesQuiet(h)
    <2>1. ASSUME NEW k \in Keys
          PROVE  \/ box'[k].status = box[k].status
                 \/ /\ Latest(k) /\ box[k].status \in {"pending", "processing"}
                    /\ box'[k].status \in {"pending", "processing", "failed"}
      BY <1>4, <1>7, <1>8
    <2>2. QED
      BY <1>1, <1>9, <2>1 DEF TablesQuiet
  <1>12. /\ con'[c].ready = {} /\ Mine(c)' = claims
        /\ \A d \in Consumers : d # c => con'[d] = con[d] /\ Mine(d)' = Mine(d)
    BY <1>1 DEF OutboxInv, RowTypes, Mine
  <1>13. \A d \in Consumers : \A m \in Mine(d) : m.key \in Keys /\ m.gen \in Nat /\ m.gen <= box[m.key].gen
    BY ClaimParts DEF OutboxInv, Generations
  <1>14. Generations'
    <2>1. ASSUME NEW d \in Consumers, NEW m \in Mine(d)'
          PROVE  m.gen <= box'[m.key].gen
      <3>1. CASE d = c
        BY <1>2, <1>4, <1>6, <1>12, <1>8, <2>1, <3>1
      <3>2. CASE d # c
        <4>1. m.key \in Keys /\ m.gen \in Nat /\ m.gen <= box[m.key].gen
          BY <1>12, <1>13, <2>1, <3>2
        <4>2. box'[m.key].gen = box[m.key].gen + 1 \/ box'[m.key].gen = box[m.key].gen
          BY <4>1, <1>7, <1>8
        <4>3. box[m.key].gen \in Nat
          BY <1>2, <4>1
        <4>4. QED
          BY <4>1, <4>2, <4>3
      <3>3. QED
        BY <3>1, <3>2
    <2>2. ASSUME NEW d \in Consumers, d # c, NEW m \in Mine(c)', NEW n \in Mine(d)',
                 m.key = n.key
          PROVE  m.gen # n.gen
      <3>1. n.key \in Keys /\ n.gen \in Nat /\ n.gen <= box[n.key].gen /\ m.gen = box[n.key].gen + 1
        BY <1>6, <1>12, <1>13, <2>2
      <3>2. QED
        BY <1>2, <3>1
    <2>3. ASSUME NEW d \in Consumers, NEW e \in Consumers, NEW m \in Mine(d)', NEW n \in Mine(e)',
                 m.key = n.key, m.gen = n.gen
          PROVE  d = e
      <3>1. CASE d # c /\ e # c
        BY <1>12, <2>3, <3>1 DEF OutboxInv, Generations
      <3>2. QED
        BY <2>2, <2>3, <3>1
    <2>4. QED
      BY <2>1, <2>3 DEF Generations
  <1>15. ReadyIsShown(h)'
    <2>1. ASSUME NEW d \in Consumers, NEW m \in con'[d].ready, ClaimCurrent(m)'
          PROVE  /\ (file'[m.key[1]] = canon'[m.key[1]] \/ m.key[1] \in h)
                 /\ con'[d].phase = "complete" => index'[m.key[1]] = canon'[m.key[1]]
      <3>1. d # c /\ con'[d] = con[d] /\ m \in con[d].ready /\ m \in Mine(d)
        BY <1>12, <2>1 DEF Mine
      <3>2. m.key \in Keys /\ m.gen \in Nat /\ m.gen <= box[m.key].gen /\ m.gen = box'[m.key].gen
        BY <1>13, <2>1, <3>1 DEF ClaimCurrent
      <3>3. m.key \notin rows
        BY <1>2, <1>8, <3>2
      <3>4. box'[m.key] = box[m.key]
        BY <1>7, <3>2, <3>3
      <3>5. Latest(m.key)
        BY <1>9, <2>1, <3>2, <3>4 DEF ClaimCurrent, Latest, KeysOf
      <3>6. ClaimCurrent(m)
        BY <2>1, <3>4, <3>5 DEF ClaimCurrent
      <3>7. QED
        BY <1>1, <3>1, <3>6 DEF OutboxInv, ReadyIsShown
    <2>2. QED
      BY <2>1 DEF ReadyIsShown
  <1>16. QED
    BY <1>10, <1>11, <1>14, <1>15, TablesStep DEF OutboxInv

\* Phase one of a row: written if its claim holds, and then it is the
\* canonical text that is written.
LEMMA ProjectedFile ==
    ASSUME NEW h, OutboxInv(h), NEW c \in Consumers, NEW m \in con[c].todo, ConsumerProject(c, m)
    PROVE  /\ file' = file \/ file' = [file EXCEPT ![m.key[1]] = canon[m.key[1]]]
           /\ m \in con'[c].ready /\ m \notin con[c].ready =>
                file'[m.key[1]] = canon[m.key[1]]
  <1>1. m \in Mine(c)
    BY DEF Mine
  <1>2. m.key[1] \in Pages
    BY <1>1, ClaimParts DEF OutboxInv
  <1> DEFINE valid == ClaimCurrent(m) /\ BoundToCanon(m.key)
  <1>3. /\ file' = IF valid THEN [file EXCEPT ![m.key[1]] = m.key[2]] ELSE file
        /\ con' = [con EXCEPT ![c].todo = @ \ {m},
                              ![c].ready = IF valid THEN @ \cup {m} ELSE @]
    BY DEF ConsumerProject
  <1>4. valid => m.key[2] = canon[m.key[1]]
    BY <1>1, ClaimIsCanon
  <1> HIDE DEF valid
  <1>5. CASE valid
    BY <1>2, <1>3, <1>4, <1>5 DEF OutboxInv, RowTypes
  <1>6. CASE ~ valid
    BY <1>3, <1>6 DEF OutboxInv, RowTypes
  <1>7. QED
    BY <1>5, <1>6

\* A consumer writes the text of a claim that holds, which is the canonical
\* one.
LEMMA ConsumerProjectInv ==
    ASSUME NEW h, OutboxInv(h), NEW c \in Consumers, NEW m \in con[c].todo, ConsumerProject(c, m)
    PROVE  OutboxInv(h)'
  <1>1. m \in Mine(c) /\ m \in Claims /\ m.key[1] \in Pages
    BY ClaimParts DEF Mine, OutboxInv
  <1>2. PICK S \in SUBSET Claims, T \in SUBSET Claims :
          /\ con' = [con EXCEPT ![c].todo = S, ![c].ready = T]
          /\ S \subseteq con[c].todo /\ T \subseteq con[c].ready \cup {m}
    <2>1. con[c].todo \subseteq Claims /\ con[c].ready \subseteq Claims
      BY ConsumerMemory DEF OutboxInv
    <2> DEFINE T == IF ClaimCurrent(m) /\ BoundToCanon(m.key) THEN con[c].ready \cup {m}
                    ELSE con[c].ready
    <2>2. con' = [con EXCEPT ![c].todo = con[c].todo \ {m}, ![c].ready = T]
      BY DEF ConsumerProject, OutboxInv, RowTypes
    <2>3. T \in SUBSET Claims /\ T \subseteq con[c].ready \cup {m}
      BY <1>1, <2>1
    <2> HIDE DEF T
    <2>4. QED
      BY <2>1, <2>2, <2>3
  <1>3. con' \in [Consumers -> Memories]
    BY <1>2, ConsumerMemory DEF OutboxInv
  <1>4. /\ con'[c].phase = "project" /\ con'[c].todo = S /\ con'[c].ready = T
        /\ \A d \in Consumers : d # c => con'[d] = con[d]
    BY <1>2 DEF ConsumerProject, OutboxInv, RowTypes
  <1>5. file' = file \/ file' = [file EXCEPT ![m.key[1]] = canon[m.key[1]]]
    BY ProjectedFile
  <1>6. /\ file' = [q \in Pages |-> file'[q]]
        /\ \A p \in Pages : file'[p] \in {file[p], canon[p]}
    BY <1>1, <1>5 DEF OutboxInv, RowTypes
  <1>7. RowTypes'
    BY <1>3, <1>6 DEF ConsumerProject, OutboxInv, RowTypes, Memories
  <1>8. TablesQuiet(h)
    BY <1>6 DEF ConsumerProject, TablesQuiet
  <1>9. \A d \in Consumers : Mine(d)' \subseteq Mine(d)
    BY <1>1, <1>2, <1>4 DEF Mine
  <1>10. ASSUME NEW d \in Consumers, NEW n \in con'[d].ready, ClaimCurrent(n)
         PROVE  /\ (file'[n.key[1]] = canon[n.key[1]] \/ n.key[1] \in h)
                /\ con'[d].phase = "complete" => index'[n.key[1]] = canon[n.key[1]]
    <2>1. n \in Mine(d)
      BY <1>9 DEF Mine
    <2>2. n.key[1] \in Pages /\ index' = index
      BY <2>1, ClaimParts DEF OutboxInv, ConsumerProject
    <2>3. CASE n \in con[d].ready
      <3>1. con'[d].phase = con[d].phase
        BY <1>4 DEF ConsumerProject
      <3>2. QED
        BY <1>6, <1>10, <2>2, <2>3, <3>1 DEF OutboxInv, ReadyIsShown
    <2>4. CASE n \notin con[d].ready
      <3>1. d = c /\ n = m
        BY <1>2, <1>4, <1>10, <2>4
      <3>2. QED
        BY <1>4, <1>10, <2>4, <3>1, ProjectedFile
    <2>5. QED
      BY <2>3, <2>4
  <1>11. ClaimsQuiet(h)
    BY <1>9, <1>10 DEF ClaimsQuiet, ConsumerProject
  <1>12. QED
    BY <1>7, <1>8, <1>11, QuietStep

\* A step that only lets claims go, and changes rows.
LEMMA DropStep ==
    ASSUME NEW h, OutboxInv(h), RowTypes',
           UNCHANGED <<canon, file, index>>,
           \A k \in Keys :
              /\ box'[k].rev = box[k].rev /\ box'[k].base = box[k].base /\ box'[k].gen = box[k].gen
              /\ \/ box'[k].status = box[k].status
                 \/ /\ Latest(k) /\ box[k].status \in {"pending", "processing"}
                    /\ \/ box'[k].status \in {"pending", "failed"}
                       \/ box'[k].status = "completed" /\ ShownTo(h, k[1])
              /\ box'[k].status = "processing" => box'[k].lease \in {box[k].lease, "lapsed"},
           \A c \in Consumers :
              /\ con'[c].phase \in {con[c].phase, "idle"}
              /\ con'[c].todo \subseteq con[c].todo /\ con'[c].ready \subseteq con[c].ready
    PROVE  OutboxInv(h)'
  <1>1. TablesQuiet(h)
    BY DEF OutboxInv, RowTypes, TablesQuiet
  <1>2. \A c \in Consumers : Mine(c)' \subseteq Mine(c)
    BY DEF Mine
  <1>3. ASSUME NEW c \in Consumers, NEW m \in con'[c].ready, ClaimCurrent(m)
        PROVE  /\ (file'[m.key[1]] = canon[m.key[1]] \/ m.key[1] \in h)
               /\ con'[c].phase = "complete" => index'[m.key[1]] = canon[m.key[1]]
    BY <1>3 DEF OutboxInv, ReadyIsShown
  <1>4. ClaimsQuiet(h)
    BY <1>2, <1>3 DEF ClaimsQuiet
  <1>5. QED
    BY <1>1, <1>4, QuietStep

\* A projection that fails settles its row as failed and drops the claim.
LEMMA ConsumerProjectFailsInv ==
    ASSUME NEW h, OutboxInv(h), NEW c \in Consumers, NEW m \in con[c].todo, ConsumerProjectFails(c, m)
    PROVE  OutboxInv(h)'
  <1>1. m \in Mine(c) /\ m.key \in Keys
    BY ClaimParts DEF Mine, OutboxInv
  <1>2. /\ box' = IF ClaimCurrent(m) THEN [box EXCEPT ![m.key] = FailedRow(m.key)] ELSE box
        /\ con' = [con EXCEPT ![c].todo = con[c].todo \ {m}]
        /\ UNCHANGED <<canon, file, index, lock, wr, writes>> /\ Upset
    BY DEF ConsumerProjectFails, OutboxInv, RowTypes
  <1>3. \A k \in Keys : box[k] \in Row
    BY DEF OutboxInv, RowTypes
  <1>4. \A k \in Keys : box'[k] = box[k] \/ (box'[k] = FailedRow(k) /\ k = m.key /\ ClaimCurrent(m))
    <2>1. CASE ClaimCurrent(m)
      BY <1>1, <1>2, <2>1 DEF OutboxInv, RowTypes
    <2>2. CASE ~ ClaimCurrent(m)
      BY <1>2, <2>2
    <2>3. QED
      BY <2>1, <2>2
  <1>5. box' \in [Keys -> Row]
    BY <1>1, <1>2, <1>3, FailedRowFields DEF OutboxInv, RowTypes
  <1>6. con' \in [Consumers -> Memories]
    BY <1>2, ConsumerMemory DEF OutboxInv
  <1>7. RowTypes'
    BY <1>2, <1>5, <1>6, UpsetType DEF OutboxInv, RowTypes, Memories
  <1>8. ASSUME NEW k \in Keys
        PROVE  /\ box'[k].rev = box[k].rev /\ box'[k].base = box[k].base /\ box'[k].gen = box[k].gen
               /\ \/ box'[k].status = box[k].status
                  \/ /\ Latest(k) /\ box[k].status \in {"pending", "processing"}
                     /\ box'[k].status \in {"pending", "failed"}
               /\ box'[k].status = "processing" => box'[k].lease \in {box[k].lease, "lapsed"}
    <2>1. CASE box'[k] = box[k]
      BY <2>1
    <2>2. CASE box'[k] = FailedRow(k) /\ k = m.key /\ ClaimCurrent(m)
      <3>1. Latest(k) /\ box[k].status = "processing"
        BY <1>1, <2>2, ClaimIsCanon
      <3>2. QED
        BY <1>3, <2>2, <3>1, FailedRowFields
    <2>3. QED
      BY <1>4, <2>1, <2>2
  <1>9. \A d \in Consumers :
           /\ con'[d].phase \in {con[d].phase, "idle"}
           /\ con'[d].todo \subseteq con[d].todo /\ con'[d].ready \subseteq con[d].ready
    BY <1>2 DEF OutboxInv, RowTypes
  <1>10. QED
    BY <1>2, <1>7, <1>8, <1>9, DropStep

\* A publication that fails settles the rows that still hold and completes
\* none.
LEMMA ConsumerPublishFailsInv ==
    ASSUME NEW h, OutboxInv(h), NEW c \in Consumers, ConsumerPublishFails(c)
    PROVE  OutboxInv(h)'
  <1> DEFINE mine(k) == \E m \in con[c].ready : m.key = k /\ ClaimCurrent(m)
  <1>1. /\ box' = [k \in Keys |-> IF mine(k) THEN FailedRow(k) ELSE box[k]]
        /\ con' = [con EXCEPT ![c] = IdleConsumer]
        /\ UNCHANGED <<canon, file, index, wr, writes>> /\ Upset /\ Release(c)
    BY DEF ConsumerPublishFails
  <1>2. \A k \in Keys : mine(k) => Latest(k) /\ box[k].status = "processing"
    BY ClaimIsCanon DEF Mine
  <1> HIDE DEF mine
  <1>3. \A k \in Keys : box[k] \in Row
    BY DEF OutboxInv, RowTypes
  <1>4. \A k \in Keys : box'[k] = box[k] \/ (box'[k] = FailedRow(k) /\ mine(k))
    BY <1>1
  <1>5. box' \in [Keys -> Row]
    BY <1>1, <1>3, FailedRowFields
  <1>6. con' \in [Consumers -> Memories]
    BY <1>1, ConsumerMemory DEF OutboxInv
  <1>7. RowTypes'
    BY <1>1, <1>5, <1>6, UpsetType, LockTypes DEF OutboxInv, RowTypes, Memories
  <1>8. ASSUME NEW k \in Keys
        PROVE  /\ box'[k].rev = box[k].rev /\ box'[k].base = box[k].base /\ box'[k].gen = box[k].gen
               /\ \/ box'[k].status = box[k].status
                  \/ /\ Latest(k) /\ box[k].status \in {"pending", "processing"}
                     /\ box'[k].status \in {"pending", "failed"}
               /\ box'[k].status = "processing" => box'[k].lease \in {box[k].lease, "lapsed"}
    BY <1>2, <1>3, <1>4, FailedRowFields
  <1>9. \A d \in Consumers :
           /\ con'[d].phase \in {con[d].phase, "idle"}
           /\ con'[d].todo \subseteq con[d].todo /\ con'[d].ready \subseteq con[d].ready
    BY <1>1 DEF OutboxInv, RowTypes, IdleConsumer
  <1>10. QED
    BY <1>1, <1>7, <1>8, <1>9, DropStep

\* A row is completed when its page shows its text.
LEMMA ConsumerCompleteInv ==
    ASSUME NEW h, OutboxInv(h), NEW c \in Consumers, NEW m \in con[c].ready, ConsumerComplete(c, m)
    PROVE  OutboxInv(h)'
  <1>1. m \in Mine(c) /\ m.key \in Keys
    BY ClaimParts DEF Mine, OutboxInv
  <1> DEFINE row == [box[m.key] EXCEPT !.status = "completed", !.lease = "none"]
  <1>2. /\ box' = IF ClaimCurrent(m) THEN [box EXCEPT ![m.key] = row] ELSE box
        /\ con' = [con EXCEPT ![c].ready = con[c].ready \ {m}]
        /\ UNCHANGED <<canon, file, index, lock, wr, writes, upsets>>
        /\ con[c].phase = "complete"
    BY DEF ConsumerComplete, OutboxInv, RowTypes
  <1>3. \A k \in Keys : box[k] \in Row
    BY DEF OutboxInv, RowTypes
  <1>4. /\ row \in Row /\ row.rev = box[m.key].rev /\ row.gen = box[m.key].gen
        /\ row.base = box[m.key].base /\ row.status = "completed"
    BY <1>1, <1>3, CompletedRowFields
  <1> HIDE DEF row
  <1>5. box' \in [Keys -> Row]
    BY <1>1, <1>2, <1>4 DEF OutboxInv, RowTypes
  <1>6. con' \in [Consumers -> Memories]
    BY <1>2, ConsumerMemory DEF OutboxInv
  <1>7. RowTypes'
    BY <1>2, <1>5, <1>6 DEF OutboxInv, RowTypes, Memories
  <1>8. ClaimCurrent(m) => ShownTo(h, m.key[1])
    BY <1>2 DEF OutboxInv, ReadyIsShown, ShownTo
  <1>9. ASSUME NEW k \in Keys
        PROVE  /\ box'[k].rev = box[k].rev /\ box'[k].base = box[k].base /\ box'[k].gen = box[k].gen
               /\ \/ box'[k].status = box[k].status
                  \/ /\ Latest(k) /\ box[k].status \in {"pending", "processing"}
                     /\ box'[k].status = "completed" /\ ShownTo(h, k[1])
               /\ box'[k].status = "processing" => box'[k].lease \in {box[k].lease, "lapsed"}
    <2>1. CASE k = m.key /\ ClaimCurrent(m)
      <3>1. Latest(k) /\ box[k].status = "processing" /\ ShownTo(h, k[1])
        BY <1>1, <1>8, <2>1, ClaimIsCanon
      <3>2. /\ box'[k].rev = box[k].rev /\ box'[k].base = box[k].base /\ box'[k].gen = box[k].gen
            /\ box'[k].status = "completed"
        BY <1>1, <1>2, <1>4, <2>1 DEF OutboxInv, RowTypes
      <3>3. QED
        BY <3>1, <3>2
    <2>2. CASE ~ (k = m.key /\ ClaimCurrent(m))
      <3>1. box'[k] = box[k]
        BY <1>1, <1>2, <2>2 DEF OutboxInv, RowTypes
      <3>2. QED
        BY <3>1
    <2>3. QED
      BY <2>1, <2>2
  <1>10. \A d \in Consumers :
           /\ con'[d].phase \in {con[d].phase, "idle"}
           /\ con'[d].todo \subseteq con[d].todo /\ con'[d].ready \subseteq con[d].ready
    BY <1>2 DEF OutboxInv, RowTypes
  <1>11. QED
    BY <1>2, <1>7, <1>9, <1>10, DropStep

\* Leases that lapse and delays that end move no revision and no text.
LEMMA TimeInv ==
    ASSUME NEW h, OutboxInv(h), NEW k \in Keys, LeaseLapses(k) \/ BackoffEnds(k)
    PROVE  OutboxInv(h)'
  <1>1. PICK row :
        /\ row = [box[k] EXCEPT !.lease = "lapsed"] \/ row = [box[k] EXCEPT !.due = TRUE]
        /\ box' = [box EXCEPT ![k] = row]
        /\ UNCHANGED <<canon, file, index, lock, wr, con, writes>>
        /\ UNCHANGED upsets \/ Upset
    BY DEF LeaseLapses, BackoffEnds
  <1>2. upsets' \in 0 .. MaxUpsets
    BY <1>1, UpsetType DEF OutboxInv, RowTypes
  <1>3. box[k] \in Row
    BY DEF OutboxInv, RowTypes
  <1>4. /\ row \in Row /\ row.rev = box[k].rev /\ row.gen = box[k].gen /\ row.base = box[k].base
        /\ row.status = box[k].status /\ row.lease \in {box[k].lease, "lapsed"}
    BY <1>1, <1>3, TimedRowFields
  <1>5. box' \in [Keys -> Row]
    BY <1>1, <1>4 DEF OutboxInv, RowTypes
  <1>6. RowTypes'
    BY <1>1, <1>2, <1>5 DEF OutboxInv, RowTypes
  <1>7. \A q \in Keys :
           /\ box'[q].rev = box[q].rev /\ box'[q].base = box[q].base /\ box'[q].gen = box[q].gen
           /\ box'[q].status = box[q].status /\ box'[q].lease \in {box[q].lease, "lapsed"}
    BY <1>1, <1>4 DEF OutboxInv, RowTypes
  <1>8. QED
    BY <1>1, <1>6, <1>7, DropStep

\* Phase two: the index shows the canonical text of the rows that still hold.
LEMMA ConsumerPublishInv ==
    ASSUME NEW h, OutboxInv(h), NEW c \in Consumers, ConsumerPublish(c)
    PROVE  OutboxInv(h)'
  <1> DEFINE held == {m \in con[c].ready : ClaimCurrent(m) /\ BoundToCanon(m.key)}
  <1>1. /\ index' = [p \in Pages |-> IF p \in PagesOf(held) THEN canon[p] ELSE index[p]]
        /\ con' = [con EXCEPT ![c].phase = "complete", ![c].ready = held]
        /\ con[c].todo = {}
        /\ UNCHANGED <<canon, file, box, lock, wr, writes, upsets>>
    BY DEF ConsumerPublish
  <1>2. held \subseteq con[c].ready /\ held \in SUBSET Claims
    BY ConsumerMemory DEF OutboxInv
  <1>3. \A m \in held : m.key[1] \in PagesOf(held)
    BY DEF PagesOf
  <1> HIDE DEF held
  <1>4. con' \in [Consumers -> Memories]
    BY <1>1, <1>2, ConsumerMemory DEF OutboxInv
  <1>5. /\ con'[c].phase = "complete" /\ con'[c].ready = held /\ con'[c].todo = con[c].todo
        /\ \A d \in Consumers : d # c => con'[d] = con[d]
    BY <1>1 DEF OutboxInv, RowTypes
  <1>6. /\ index' \in [Pages -> Payloads]
        /\ \A p \in Pages : index'[p] \in {index[p], canon[p]}
    BY <1>1 DEF OutboxInv, RowTypes
  <1>7. RowTypes'
    BY <1>1, <1>4, <1>6 DEF OutboxInv, RowTypes, Memories
  <1>8. TablesQuiet(h)
    BY <1>1, <1>6 DEF TablesQuiet
  <1>9. \A d \in Consumers : Mine(d)' \subseteq Mine(d) /\ con'[d].ready \subseteq con[d].ready
    BY <1>2, <1>5 DEF Mine
  <1>10. ASSUME NEW d \in Consumers, NEW m \in con'[d].ready, ClaimCurrent(m)
         PROVE  /\ (file'[m.key[1]] = canon[m.key[1]] \/ m.key[1] \in h)
                /\ con'[d].phase = "complete" => index'[m.key[1]] = canon[m.key[1]]
    <2>1. m \in Mine(d) /\ m.key[1] \in Pages
      BY <1>9, <1>10, ClaimParts DEF Mine, OutboxInv
    <2>2. (file'[m.key[1]] = canon[m.key[1]] \/ m.key[1] \in h)
      BY <1>1, <1>9, <1>10 DEF OutboxInv, ReadyIsShown
    <2>3. CASE d = c
      BY <1>1, <1>3, <1>5, <1>10, <2>1, <2>2, <2>3
    <2>4. CASE d # c
      BY <1>5, <1>6, <1>9, <1>10, <2>1, <2>2, <2>4 DEF OutboxInv, ReadyIsShown
    <2>5. QED
      BY <2>3, <2>4
  <1>11. ClaimsQuiet(h)
    BY <1>1, <1>9, <1>10 DEF ClaimsQuiet
  <1>12. QED
    BY <1>7, <1>8, <1>11, QuietStep
-----------------------------------------------------------------------------
(* The invariant, and what it is for.                                      *)

\* At the start the outbox is empty and all that is shown is canonical.
LEMMA OutboxInvInit == Init => OutboxInv({})
  <1>1. SUFFICES ASSUME Init
                 PROVE  OutboxInv({})
    OBVIOUS
  <1>2. \A c \in Consumers : con[c] = IdleConsumer
    BY <1>1 DEF Init
  <1>3. \A k \in Keys : box[k] = [status |-> "absent", rev |-> 0, gen |-> 0, attempts |-> 0,
                                 lease |-> "none", due |-> TRUE, base |-> Gone]
    BY <1>1 DEF Init
  <1>4. RowTypes
    <2>1. box \in [Keys -> Row]
      BY <1>1 DEF Init, Row, Payloads
    <2>2. wr \in [Writers -> WriterMemories] /\ con \in [Consumers -> Memories]
      BY <1>1 DEF Init, IdleWriter, IdleConsumer, WriterMemories, Memories, Batches
    <2>3. writes \in 0 .. MaxWrites /\ upsets \in 0 .. MaxUpsets
      BY <1>1, OutboxAssumption DEF Init
    <2>4. /\ canon \in [Pages -> Payloads] /\ file \in [Pages -> Payloads]
          /\ index \in [Pages -> Payloads]
          /\ lock \in [Pages -> Writers \cup Consumers \cup {Nobody}]
      BY <1>1 DEF Init
    <2>5. QED
      BY <2>1, <2>2, <2>3, <2>4 DEF RowTypes, WriterMemories, Memories, Batches
  <1>5. Revisions
    <2>1. \A p \in Pages : <<p, Gone>> \in KeysOf(p)
      BY DEF KeysOf, Keys, Payloads
    <2>2. \A k \in Keys : box[k].rev = 0 /\ box[k].status = "absent"
      BY <1>3
    <2>3. \A p \in Pages : \A o \in KeysOf(p) : box[o].rev <= box[<<p, Gone>>].rev
      BY <2>1, <2>2 DEF KeysOf
    <2>4. QED
      BY <2>1, <2>2, <2>3 DEF Revisions
  <1>6. Generations /\ ReadyIsShown({})
    BY <1>2 DEF Generations, ReadyIsShown, Mine, IdleConsumer
  <1>7. OutboxMatchesCanon /\ CompletedIsShown({})
    BY <1>3 DEF OutboxMatchesCanon, CompletedIsShown
  <1>8. QED
    BY <1>4, <1>5, <1>6, <1>7 DEF OutboxInv

\* Every step keeps the invariant of the outbox.
LEMMA OutboxInvStep ==
    ASSUME NEW h, OutboxInv(h), [Next]_vars
    PROVE  OutboxInv(h)'
  <1>1. CASE UNCHANGED vars
    <2>1. RowTypes'
      BY <1>1 DEF vars, OutboxInv, RowTypes
    <2>2. QED
      BY <1>1, <2>1, IdleStep DEF vars
  <1>2. ASSUME NEW w \in Writers, WriterStep(w)
        PROVE  OutboxInv(h)'
    BY <1>2, WriterStartInv, WriterLockInv, WriterCommitInv, WriterLeavesInv,
       WriterProjectInv DEF WriterStep, WriterWork, Batches
  <1>3. ASSUME NEW c \in Consumers, ConsumerStep(c)
        PROVE  OutboxInv(h)'
    BY <1>3, ConsumerClaimInv, ConsumerLockInv, ConsumerProjectInv, ConsumerProjectFailsInv,
       ConsumerPublishInv, ConsumerPublishFailsInv, ConsumerCompleteInv, ConsumerLeavesInv
       DEF ConsumerStep, ConsumerWork
  <1>4. QED
    BY <1>1, <1>2, <1>3, TimeInv DEF Next

-----------------------------------------------------------------------------
(* The outbox implements PagePublisher.                                    *)

\* The initial states are initial states of the abstract publisher.
LEMMA PublisherInit == Init => Publisher!PubInit
  BY DEF Init, Publisher!PubInit

\* A step of a writer commits a batch, shows the file of one page, or is
\* none that a reader of the pages sees.
LEMMA WriterPublishes ==
    ASSUME NEW h, OutboxInv(h), OutboxInv(h)', NEW w \in Writers, WriterStep(w)
    PROVE  [Publisher!PubNext]_(Publisher!pubVars)
  <1>1. ASSUME WriterCommit(w)
        PROVE  Publisher!CommitBatch
    BY <1>1 DEF WriterCommit, Publisher!CommitBatch, OutboxInv, RowTypes
  <1>2. ASSUME NEW p \in Pages, WriterProject(w, p)
        PROVE  Publisher!ShowFile(p) \/ UNCHANGED <<canon, file, index>>
    BY <1>2, WriterProjectFile DEF Publisher!ShowFile, WriterProject
  <1>3. QED
    BY <1>1, <1>2
       DEF WriterStep, WriterWork, WriterStart, WriterLock, WriterAbort, WriterDefer, WriterDone,
           WriterCrash, Publisher!PubNext, Publisher!pubVars

\* A consumer's step shows canonical text, or is no step of the publisher.
LEMMA ConsumerPublishes ==
    ASSUME NEW h, OutboxInv(h), NEW c \in Consumers, ConsumerStep(c)
    PROVE  [Publisher!PubNext]_(Publisher!pubVars)
  <1>1. ASSUME NEW m \in con[c].todo, ConsumerProject(c, m)
        PROVE  \/ \E p \in Pages : Publisher!ShowFile(p)
               \/ UNCHANGED <<canon, file, index>>
    <2>1. m.key[1] \in Pages
      BY ClaimParts DEF Mine, OutboxInv
    <2>2. file' = file \/ file' = [file EXCEPT ![m.key[1]] = canon[m.key[1]]]
      BY <1>1, ProjectedFile
    <2>3. QED
      BY <1>1, <2>1, <2>2 DEF ConsumerProject, Publisher!ShowFile
  <1>2. ASSUME ConsumerPublish(c)
        PROVE  \E S \in SUBSET Pages : Publisher!ShowIndex(S)
    <2> DEFINE S == Pages \cap PagesOf({m \in con[c].ready : ClaimCurrent(m) /\ BoundToCanon(m.key)})
    <2>1. index' = [p \in Pages |-> IF p \in S THEN canon[p] ELSE index[p]]
      BY <1>2 DEF ConsumerPublish
    <2>2. S \in SUBSET Pages /\ UNCHANGED <<canon, file>>
      BY <1>2 DEF ConsumerPublish
    <2> HIDE DEF S
    <2>3. QED
      BY <2>1, <2>2 DEF Publisher!ShowIndex
  <1>3. QED
    BY <1>1, <1>2
       DEF ConsumerStep, ConsumerWork, ConsumerClaim, ConsumerLock, ConsumerProjectFails,
           ConsumerPublishFails, ConsumerComplete, ConsumerDone, ConsumerCrash,
           Publisher!PubNext, Publisher!pubVars

\* Every step is one of the abstract publisher or leaves it unchanged.
LEMMA PublisherStep ==
    ASSUME NEW h, OutboxInv(h), [Next]_vars
    PROVE  [Publisher!PubNext]_(Publisher!pubVars)
  <1>1. OutboxInv(h)'
    BY OutboxInvStep
  <1>2. ASSUME NEW k \in Keys, LeaseLapses(k) \/ BackoffEnds(k)
        PROVE  UNCHANGED <<canon, file, index>>
    BY <1>2 DEF LeaseLapses, BackoffEnds
  <1>3. QED
    BY <1>1, <1>2, WriterPublishes, ConsumerPublishes DEF Next, vars, Publisher!pubVars

\* A file changes to the canonical text of its page, and not in the step that
\* changes that text.
LEMMA FileMoves ==
    ASSUME NEW h, OutboxInv(h), [Next]_vars, NEW p \in Pages, file'[p] # file[p]
    PROVE  file'[p] = canon[p] /\ canon' = canon
  <1>1. [Publisher!PubNext]_(Publisher!pubVars)
    BY PublisherStep
  <1>2. file = [q \in Pages |-> file[q]]
    BY DEF OutboxInv, RowTypes
  <1>3. QED
    BY <1>1, <1>2 DEF Publisher!PubNext, Publisher!pubVars, Publisher!CommitBatch,
       Publisher!ShowFile, Publisher!ShowIndex

\* The inductive invariant holds in every reachable state, and files have
\* texts of pages.
THEOREM OutboxInductive == Spec => [](OutboxInv({}) /\ TypeOK)
  <1>1. Init => OutboxInv({}) /\ TypeOK
    BY OutboxInvInit DEF OutboxInv, RowTypes, TypeOK, Init
  <1>2. OutboxInv({}) /\ TypeOK /\ [Next]_vars => OutboxInv({})' /\ TypeOK'
    <2>1. SUFFICES ASSUME OutboxInv({}), TypeOK, [Next]_vars
                   PROVE  OutboxInv({})' /\ TypeOK'
      OBVIOUS
    <2>2. OutboxInv({})'
      BY <2>1, OutboxInvStep
    <2>3. file' \in [Pages -> Payloads]
      <3>1. \A p \in Pages : file'[p] \in {file[p], canon[p]}
        BY <2>1, FileMoves
      <3>2. file' = [p \in Pages |-> file'[p]]
        BY <2>2 DEF OutboxInv, RowTypes
      <3>3. \A p \in Pages : file'[p] \in Payloads
        BY <2>1, <3>1 DEF TypeOK
      <3>4. QED
        BY <3>2, <3>3
    <2>4. QED
      BY <2>2, <2>3 DEF OutboxInv, RowTypes, TypeOK
  <1>3. QED
    BY <1>1, <1>2, PTL DEF Spec

\* Two claims that hold on one row are of one generation, hence of one
\* consumer.
LEMMA OneClaimantFromInv == OutboxInv({}) => OneClaimant
  BY DEF OutboxInv, Generations, OneClaimant, ClaimCurrent, Mine

\* What the rows of the outbox say of the pages and of the consumers is true,
\* with any number of writers and consumers, crashes and late leases.
THEOREM OutboxSound == Spec => []OutboxIsSound
  <1>1. OutboxInv({}) => OutboxIsSound
    BY OneClaimantFromInv DEF OutboxInv, OutboxIsSound, CompletedIsShown, CompletedIsVisible
  <1>2. QED
    BY <1>1, OutboxInductive, PTL

\* The whole write path implements the abstract publisher: file and index of
\* a page move only to its canonical text of that moment.
THEOREM ImplementsPublisher == Spec => PublishesOnlyCanon
  <1>1. OutboxInv({}) /\ [Next]_vars => [Publisher!PubNext]_(Publisher!pubVars)
    BY PublisherStep
  <1>2. QED
    BY <1>1, PublisherInit, OutboxInductive, PTL DEF Spec, PublishesOnlyCanon, Publisher!PubSpec
=============================================================================
