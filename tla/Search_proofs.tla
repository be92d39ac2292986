--------------------------- MODULE Search_proofs ----------------------------
(***************************************************************************)
(* Proofs about what is made from canonical pages and memories and answers *)
(* searches: TantivyMirror, VectorViews, IndexPublication and GramIndex,   *)
(* for every instance.  Each answers, at last, with what the database      *)
(* holds.                                                                  *)
(***************************************************************************)
EXTENDS ProjectionParts, VectorViews, FiniteSetTheorems, SequenceTheorems, WellFoundedInduction,
        TLAPS

\* A set of numbers that is not empty has a least member,
LEMMA LeastExists ==
    ASSUME NEW S \in SUBSET Nat, S # {}
    PROVE  \E m \in S : \A x \in S : m <= x
<1> DEFINE R == {ss \in Nat \X Nat : ss[1] < ss[2]}
<1>1. IsWellFoundedOn(R, Nat)
  BY NatLessThanWellFounded, Zenon DEF OpToRel
<1>2. \A x, m \in Nat : x < m => <<x, m>> \in R
  OBVIOUS
<1> HIDE DEF R
<1>3. PICK m \in S : \A x \in S : ~ (<<x, m>> \in R)
  BY <1>1, WFMin, Zenon
<1>4. ASSUME NEW x \in S PROVE m <= x
  <2>1. x \in Nat /\ m \in Nat /\ ~(x < m) BY <1>2, <1>3
  <2> QED BY <2>1
<1> QED BY <1>4

\* and a greatest one if it is bounded.
LEMMA GreatestExists ==
    ASSUME NEW S \in SUBSET Nat, S # {}, NEW b \in Nat, \A x \in S : x <= b
    PROVE  Max(S) \in S /\ \A x \in S : x <= Max(S)
<1> DEFINE D == {d \in Nat : \E x \in S : d = b - x}
<1>1. D # {}
  <2>1. PICK x \in S : TRUE OBVIOUS
  <2>2. b - x \in D BY <2>1
  <2> QED BY <2>2
<1>2. PICK m \in D : \A d \in D : m <= d
  BY <1>1, LeastExists
<1>3. PICK y \in S : m = b - y BY <1>2
<1>4. ASSUME NEW x \in S PROVE y >= x
  <2>1. b - x \in D OBVIOUS
  <2> QED BY <1>2, <1>3, <2>1
<1>5. Max(S) \in S /\ \A x \in S : Max(S) >= x BY <1>4 DEF Max
<1> QED BY <1>5

-----------------------------------------------------------------------------
(* TantivyMirror.                                                          *)
(* A worker keeps what it read over many steps while others write, clear   *)
(* and reset.  What it has in hand is stated relative to the epoch it was  *)
(* read in: in that epoch its items are on record with the rows they were  *)
(* read from, what it acknowledges is on the disk, and once the mirror was *)
(* reset nothing that it does is admitted.                                 *)

\* What the variables hold.
TableRows == [row : Nat, text : Contents]
Mirrors == [revision : Nat, epoch : Nat,
            phase : {"needs_clear", "seeding", "replay", "ready"},
            after : Nat, through : Nat, inc : Nat,
            attempts : 0..MaxAttempts, due : BOOLEAN]
Intents == [op : {"none", "upsert", "delete"}, epoch : Nat, gen : Nat,
            row : Nat, attempts : 0..MaxAttempts, due : BOOLEAN]
Disks == [inc : Nat, docs : [Keys -> Contents]]
WorkerStates == [pc : StepStates \cup {"idle"}, epoch : Nat, inc : Nat,
                 ident : Nat, batch : Nat,
                 items : SUBSET Items, oversize : SUBSET Items]
ReaderStates == [pc : {"idle", "search", "verify", "metadata", "confirm", "answered"},
                 token : Tokens, rows : [Keys -> Contents], meta : [Keys -> Contents]]

\* An intent to upsert names a row of the table, one to delete none.
OpMatchesRow == \A k \in Queued : (queue[k].op = "upsert") = (queue[k].row # 0)

\* Rows and texts go together, and rowids grow no faster than the writes.
RowsOK ==
    \A k \in Keys : /\ fts[k].row = 0 <=> fts[k].text = Gone
                    /\ fts[k].row <= Cardinality(Keys) + writes

\* Incarnations that are on record were born; generations are no newer than the revision.
IncsOK ==
    /\ mirror.inc <= born /\ disk.inc <= born
    /\ mirror.phase = "needs_clear" <=> mirror.inc = 0
    /\ \A k \in Queued : queue[k].gen <= mirror.revision

\* Only who holds the replay lock is at work.
LocksOK ==
    \A w \in Workers :
        IF lock = w THEN worker[w].pc # "idle" ELSE worker[w] = IdleWorker

\* A worker that clears: the mirror asks for it, and the disk it stamps is empty.
ClearAt(w) ==
    /\ worker[w].pc \in {"clear", "stamp", "ackclear"} => mirror.phase = "needs_clear"
    /\ worker[w].pc \in {"stamp", "ackclear"} => disk.docs = NoTexts
    /\ worker[w].pc = "ackclear" => /\ worker[w].inc # 0
                                    /\ worker[w].inc <= born
                                    /\ disk.inc \in {0, worker[w].inc}

\* An item of a batch that is still current is the row it was read from.
ItemOK(w, i) ==
    /\ i.gen <= mirror.revision
    /\ worker[w].batch = mirror.epoch => i.key \in Queued /\ mirror.phase = "replay"
    /\ Same(w, i) => /\ i.op = queue[i.key].op
                     /\ i.op = "upsert" => i.text = fts[i.key].text

\* A batch has one item of a key.
OneItemAKey(w) ==
    \A i, j \in worker[w].items : i.key = j.key => i = j

\* A batch belongs to the epoch it was read in, or the mirror was reset since.
BatchAt(w) ==
    /\ worker[w].pc \in {"replay", "admit", "commit", "ack"} =>
          mirror.phase \in {"replay", "needs_clear"}
    /\ worker[w].pc \in {"admit", "commit", "ack"} =>
          /\ worker[w].batch <= mirror.epoch
          /\ worker[w].batch # mirror.epoch => mirror.phase = "needs_clear"
          /\ OneItemAKey(w)
          /\ \A i \in worker[w].items : ItemOK(w, i)

\* What is acknowledged is on the disk.
AckAt(w) ==
    worker[w].pc = "ack" /\ mirror.phase = "replay" /\ disk.inc = mirror.inc
    => \A i \in worker[w].items : Same(w, i) => disk.docs[i.key] = fts[i.key].text

\* What a worker has in hand.
StepOK(w) == ClearAt(w) /\ BatchAt(w) /\ AckAt(w)

\* While the mirror is seeded, every row is queued or lies ahead of the seeding.
CoverOK ==
    /\ mirror.phase = "needs_clear" => mirror.after = 0
    /\ mirror.phase \in {"needs_clear", "seeding"} =>
          \A k \in Keys : fts[k].text # Gone =>
              \/ k \in Queued
              \/ mirror.after < fts[k].row /\ fts[k].row <= mirror.through
    /\ mirror.phase = "seeding" /\ disk.inc = mirror.inc => disk.docs = NoTexts

\* A reader's token is of this revision only if nothing was enqueued since.
TokenOK ==
    reader.pc # "idle" =>
        /\ reader.token.inc # 0 /\ reader.token.inc <= born
        /\ reader.token.revision <= mirror.revision
        /\ mirror.revision = reader.token.revision =>
              /\ mirror.phase = "ready" /\ Queued = {}
              /\ mirror.inc = reader.token.inc

\* What a reader took from the disk and the table under that token is what they hold.
RowsReadOK ==
    /\ reader.pc \in {"verify", "metadata", "confirm"} =>
          (mirror.revision = reader.token.revision /\ disk.inc = reader.token.inc
              => reader.rows = disk.docs)
    /\ reader.pc = "confirm" /\ mirror.revision = reader.token.revision =>
          \A k \in Keys : reader.meta[k] = IF reader.rows[k] = Gone THEN Gone
                                            ELSE fts[k].text

\* All of it that is not about a worker.
StateOK == RowsOK /\ IncsOK /\ CoverOK /\ IntentsCover /\ TokenOK /\ RowsReadOK

\* The inductive invariant.
MirrorInv ==
    TypeOK /\ StateOK /\ LocksOK /\ \A w \in Workers : StepOK(w)

-----------------------------------------------------------------------------
\* The type invariant with the sets above.
LEMMA Types ==
    TypeOK <=> /\ fts \in [Keys -> TableRows] /\ mirror \in Mirrors
               /\ queue \in [Keys -> Intents] /\ OpMatchesRow
               /\ disk \in Disks /\ born \in Nat
               /\ lock \in Workers \cup {Nobody}
               /\ worker \in [Workers -> WorkerStates]
               /\ reader \in ReaderStates
               /\ writes \in Nat /\ upsets \in Nat
  BY DEF TypeOK, TableRows, Mirrors, Intents, OpMatchesRow, Disks, WorkerStates, ReaderStates

\* The same of the next state.
LEMMA TypesNext ==
    TypeOK' <=> /\ fts' \in [Keys -> TableRows] /\ mirror' \in Mirrors
               /\ queue' \in [Keys -> Intents] /\ OpMatchesRow'
               /\ disk' \in Disks /\ born' \in Nat
               /\ lock' \in Workers \cup {Nobody}
               /\ worker' \in [Workers -> WorkerStates]
               /\ reader' \in ReaderStates
               /\ writes' \in Nat /\ upsets' \in Nat
  BY DEF TypeOK, TableRows, Mirrors, Intents, OpMatchesRow, Disks, WorkerStates, ReaderStates

\* The idle worker, the idle reader and the empty records have their types.
LEMMA Idle ==
    /\ IdleWorker.pc = "idle" /\ IdleWorker \in WorkerStates
    /\ IdleReader.pc = "idle" /\ IdleReader \in ReaderStates
    /\ NoTexts \in [Keys -> Contents]
    /\ NoIntent \in Intents /\ NoIntent.op = "none"
    /\ NoRow \in TableRows /\ NoRow.row = 0 /\ NoRow.text = Gone
<1>1. NoTexts \in [Keys -> Contents] BY DEF NoTexts, Contents
<1>2. NoIntent \in Intents /\ NoIntent.op = "none"
  BY MirrorAssumption DEF NoIntent, Intents
<1>3. IdleWorker.pc = "idle" /\ IdleWorker \in WorkerStates
  BY DEF IdleWorker, WorkerStates
<1>4. IdleReader.pc = "idle" /\ IdleReader \in ReaderStates
  BY <1>1 DEF IdleReader, ReaderStates, NoToken, Tokens
<1>5. NoRow \in TableRows /\ NoRow.row = 0 /\ NoRow.text = Gone
  BY DEF NoRow, TableRows, Contents
<1> QED BY <1>1, <1>2, <1>3, <1>4, <1>5

\* An idle worker has nothing in hand.
LEMMA IdleIsOK ==
    ASSUME NEW w \in Workers, worker'[w].pc = "idle" PROVE StepOK(w)'
  BY DEF StepOK, ClearAt, BatchAt, AckAt

\* A worker that leaves gives up the lock and what it had in hand.
LEMMA Leaving ==
    ASSUME MirrorInv, NEW w \in Workers, lock = w, Leave(w)
    PROVE  /\ lock' \in Workers \cup {Nobody}
           /\ worker' \in [Workers -> WorkerStates]
           /\ LocksOK' /\ \A v \in Workers : StepOK(v)'
<1>1. \A v \in Workers : worker'[v] = IdleWorker
  BY MirrorAssumption, Types DEF MirrorInv, LocksOK, Leave
<1>2. worker' \in [Workers -> WorkerStates] BY Types, Idle DEF Leave, MirrorInv
<1>3. LocksOK' BY <1>1, MirrorAssumption DEF LocksOK, Leave
<1>4. \A v \in Workers : StepOK(v)' BY <1>1, Idle, IdleIsOK
<1> QED BY <1>2, <1>3, <1>4 DEF Leave

\* The holder of the lock moves on; the others stay idle.
LEMMA Moving ==
    ASSUME MirrorInv, NEW w \in Workers, lock = w \/ lock = Nobody, lock' = w,
           NEW s \in WorkerStates, s.pc # "idle",
           worker' = [worker EXCEPT ![w] = s]
    PROVE  /\ lock' \in Workers \cup {Nobody}
           /\ worker' \in [Workers -> WorkerStates]
           /\ worker'[w] = s
           /\ LocksOK' 
           /\ StepOK(w)' => \A v \in Workers : StepOK(v)'
<1>1. worker'[w] = s /\ \A v \in Workers \ {w} : worker'[v] = IdleWorker
  BY MirrorAssumption, Types DEF MirrorInv, LocksOK
<1>2. worker' \in [Workers -> WorkerStates] BY Types DEF MirrorInv
<1>3. LocksOK' BY <1>1, MirrorAssumption DEF LocksOK
<1>4. \A v \in Workers \ {w} : StepOK(v)' BY <1>1, Idle, IdleIsOK
<1> QED BY <1>1, <1>2, <1>3, <1>4

\* A step of a worker alone changes nothing but the worker.
LEMMA StateStays ==
    ASSUME StateOK, UNCHANGED <<tableVars, nativeVars, reader, writes>>
    PROVE  StateOK'
  BY DEF StateOK, RowsOK, IncsOK, CoverOK, IntentsCover, NoIntentIsLost,
     IntentsMatchRows, TokenOK, RowsReadOK, Queued, tableVars, nativeVars

\* An untouched queue matches the rows as before.
LEMMA QueueStays ==
    ASSUME OpMatchesRow, UNCHANGED queue PROVE OpMatchesRow'
  BY DEF OpMatchesRow, Queued

-----------------------------------------------------------------------------
\* Opening the mirror: the lock is taken, and the phase decides what comes first.
LEMMA KeepOpenStep ==
    ASSUME MirrorInv, NEW w \in Workers, OpenStep(w) PROVE MirrorInv'
<1> USE DEF OpenStep
<1> DEFINE s == [IdleWorker EXCEPT !.pc = IF Trusted THEN mirror.phase ELSE "distrust",
                                 !.epoch = mirror.epoch, !.inc = mirror.inc,
                                 !.ident = disk.inc]
<1>1. s \in WorkerStates /\ s.pc \in {"needs_clear", "seeding", "replay", "distrust"}
      /\ (s.pc = "replay" => mirror.phase = "replay")
  BY Types DEF MirrorInv, IdleWorker, WorkerStates, Mirrors, Disks, StepStates
<1>2. worker' = [worker EXCEPT ![w] = s] OBVIOUS
<1> HIDE DEF s
<1>3. TypeOK'
  BY <1>1, <1>2, Moving, Types, TypesNext, QueueStays DEF MirrorInv, tableVars, nativeVars
<1>4. StateOK' BY StateStays DEF MirrorInv
<1>5. worker'[w] = s BY <1>1, <1>2, Moving
<1>6. StepOK(w)' BY <1>1, <1>5 DEF StepOK, ClearAt, BatchAt, AckAt, tableVars
<1> QED BY <1>1, <1>2, <1>3, <1>4, <1>6, Moving DEF MirrorInv

\* A worker that dies leaves the tables, and gives up the lock.
LEMMA KeepWorkerDies ==
    ASSUME MirrorInv, NEW w \in Workers, WorkerDies(w) PROVE MirrorInv'
<1> USE DEF WorkerDies
<1>1. TypeOK'
  BY Leaving, Types, TypesNext, QueueStays DEF MirrorInv, tableVars, nativeVars, Upset
<1>2. StateOK' BY StateStays DEF MirrorInv
<1> QED BY <1>1, <1>2, Leaving DEF MirrorInv

\* A batch is read from the queue: an item for each row that is due.
LEMMA KeepSelect ==
    ASSUME MirrorInv, NEW w \in Workers, Select(w) PROVE MirrorInv'
<1> DEFINE ripe == {k \in Queued : /\ mirror.phase = "replay"
                                 /\ queue[k].epoch = mirror.epoch
                                 /\ queue[k].attempts < MaxAttempts
                                 /\ queue[k].due}
           first == {k \in ripe :
                    Cardinality({j \in ripe : Before(j, k)}) < MaxRows}
           items == {[key |-> k, gen |-> queue[k].gen, op |-> queue[k].op,
                   text |-> fts[k].text] : k \in first}
           bad   == {i \in items : /\ i.op = "upsert"
                                /\ \/ fts[i.key].row = 0
                                   \/ fts[i.key].row # queue[i.key].row
                                   \/ i.text \in BigTexts}
           s == [worker[w] EXCEPT !.pc = "admit", !.batch = mirror.epoch,
                                  !.items = items \ bad, !.oversize = bad]
<1>1. /\ lock = w /\ worker[w].pc = "replay" /\ lock' = w
      /\ worker' = [worker EXCEPT ![w] = s]
      /\ UNCHANGED <<tableVars, nativeVars, reader, writes, upsets>>
  BY Types DEF Select, At, MirrorInv
<1>2. first \subseteq Queued /\ Queued \subseteq Keys
      /\ (first # {} => mirror.phase = "replay")
  BY DEF Queued
<1>3. fts \in [Keys -> TableRows] /\ mirror \in Mirrors /\ queue \in [Keys -> Intents]
      /\ worker[w] \in WorkerStates
  BY Types DEF MirrorInv
<1> HIDE DEF first
<1>4. \A i \in items : /\ i \in Items /\ i.key \in first /\ i.gen = queue[i.key].gen
                       /\ i.op = queue[i.key].op /\ i.text = fts[i.key].text
                       /\ i = [key |-> i.key, gen |-> queue[i.key].gen, op |-> queue[i.key].op,
                               text |-> fts[i.key].text]
  BY <1>2, <1>3 DEF Items, Queued, Intents, TableRows
<1> HIDE DEF items
<1>5. bad \subseteq items OBVIOUS
<1> HIDE DEF bad
<1>6. s \in WorkerStates /\ s.pc = "admit" /\ s.batch = mirror.epoch /\ s.items \subseteq items
  BY <1>3, <1>4, <1>5 DEF WorkerStates, StepStates, Mirrors
<1> HIDE DEF s
<1>7. worker'[w] = s BY <1>1, <1>6, Moving
<1>8. TypeOK'
  BY <1>1, <1>6, Moving, Types, TypesNext, QueueStays DEF MirrorInv, tableVars, nativeVars
<1>9. StateOK' BY <1>1, StateStays DEF MirrorInv
<1>10. StepOK(w)'
  <2>1. mirror.phase \in {"replay", "needs_clear"} BY <1>1 DEF MirrorInv, StepOK, BatchAt
  <2>2. OneItemAKey(w)' BY <1>4, <1>6, <1>7 DEF OneItemAKey
  <2>3. \A i \in items : i.key \in Queued /\ i.gen <= mirror.revision /\ mirror.phase = "replay"
    BY <1>2, <1>4 DEF MirrorInv, StateOK, IncsOK
  <2>4. ASSUME NEW i \in s.items PROVE ItemOK(w, i)'
    BY <1>1, <1>4, <1>6, <1>7, <2>3 DEF ItemOK, Queued, tableVars
  <2>5. BatchAt(w)' BY <1>1, <1>3, <1>6, <1>7, <2>1, <2>2, <2>4 DEF BatchAt, tableVars, Mirrors
  <2> QED BY <1>6, <1>7, <2>5 DEF StepOK, ClearAt, AckAt
<1> QED BY <1>1, <1>6, <1>8, <1>9, <1>10, Moving DEF MirrorInv

\* LastRow is the greatest rowid of a table whose rowids are bounded.
LEMMA LastRowIsLast ==
    ASSUME NEW f \in [Keys -> TableRows], NEW b \in Nat, \A k \in Keys : f[k].row <= b
    PROVE  LastRow(f) \in Nat /\ LastRow(f) <= b /\ \A k \in Keys : f[k].row <= LastRow(f)
<1> DEFINE S == {f[k].row : k \in Keys} \cup {0}
<1>1. S \in SUBSET Nat /\ S # {} /\ \A x \in S : x <= b BY DEF TableRows
<1>2. \A k \in Keys : f[k].row \in S OBVIOUS
<1> HIDE DEF S
<1>3. Max(S) \in S /\ \A x \in S : x <= Max(S) BY <1>1, GreatestExists
<1>4. LastRow(f) = Max(S) BY DEF LastRow, S
<1> QED BY <1>1, <1>2, <1>3, <1>4

\* A seeding that goes up to LastRow has every row ahead.
LEMMA ReachesAll ==
    ASSUME NEW f \in [Keys -> TableRows], NEW n \in Nat,
           \A k \in Keys : f[k].row <= Cardinality(Keys) + n
    PROVE  LastRow(f) \in Nat /\ LastRow(f) <= Cardinality(Keys) + n
           /\ \A k \in Keys : f[k].row <= LastRow(f)
<1>1. Cardinality(Keys) + n \in Nat BY MirrorAssumption, FS_CardinalityType
<1> QED BY <1>1, LastRowIsLast

\* A reset starts a new epoch: the queue is empty and everything lies ahead.
LEMMA Resets ==
    ASSUME MirrorInv, ResetEpoch, fts' \in [Keys -> TableRows], writes' \in Nat, RowsOK',
           UNCHANGED <<nativeVars, reader>>
    PROVE  /\ mirror' \in Mirrors /\ queue' \in [Keys -> Intents] /\ OpMatchesRow'
           /\ StateOK'
<1>1. mirror \in Mirrors /\ queue \in [Keys -> Intents] /\ reader \in ReaderStates
      /\ disk \in Disks /\ born \in Nat
  BY Types DEF MirrorInv
<1>2. LastRow(fts') \in Nat /\ \A k \in Keys : fts'[k].row <= LastRow(fts')
  BY ReachesAll DEF RowsOK
<1>3. mirror' \in Mirrors /\ mirror'.revision = mirror.revision + 1
      /\ mirror'.epoch = mirror.epoch + 1 /\ mirror'.phase = "needs_clear"
      /\ mirror'.inc = 0 /\ mirror'.after = 0 /\ mirror'.through = LastRow(fts')
  BY <1>1, <1>2, MirrorAssumption DEF ResetEpoch, Mirrors
<1>4. queue' \in [Keys -> Intents] /\ Queued' = {} BY Idle DEF ResetEpoch, Queued
<1>5. OpMatchesRow' BY <1>4 DEF OpMatchesRow
<1>6. IncsOK' BY <1>1, <1>3, <1>4 DEF MirrorInv, StateOK, IncsOK, nativeVars, Mirrors
<1>7. CoverOK'
  <2>1. ASSUME NEW k \in Keys, fts'[k].text # Gone
        PROVE  0 < fts'[k].row /\ fts'[k].row <= LastRow(fts')
    BY <1>2, <2>1 DEF RowsOK, TableRows
  <2> QED BY <1>3, <2>1 DEF CoverOK
<1>8. IntentsCover' BY <1>3, <1>4 DEF IntentsCover, NoIntentIsLost, IntentsMatchRows
<1>9. TokenOK' /\ RowsReadOK'
  <2>1. reader.token.revision \in Nat /\ mirror.revision \in Nat
    BY <1>1 DEF ReaderStates, Tokens, Mirrors
  <2>2. reader.pc # "idle" => mirror'.revision # reader.token.revision
                              /\ reader.token.revision <= mirror'.revision
    BY <1>3, <2>1 DEF MirrorInv, StateOK, TokenOK
  <2>3. reader' = reader /\ born' = born BY DEF nativeVars
  <2>4. TokenOK' BY <2>2, <2>3 DEF MirrorInv, StateOK, TokenOK
  <2>5. RowsReadOK' BY <2>2, <2>3 DEF RowsReadOK
  <2> QED BY <2>4, <2>5
<1> QED BY <1>3, <1>4, <1>5, <1>6, <1>7, <1>8, <1>9 DEF StateOK

\* A mirror that cannot be trusted is reset by the worker that finds it so.
LEMMA KeepDistrust ==
    ASSUME MirrorInv, NEW w \in Workers, Distrust(w) PROVE MirrorInv'
<1> DEFINE s == [worker[w] EXCEPT !.pc = "needs_clear", !.epoch = mirror.epoch + 1, !.inc = 0]
<1>1. fts \in [Keys -> TableRows] /\ mirror \in Mirrors /\ worker \in [Workers -> WorkerStates]
      /\ writes \in Nat
  BY Types DEF MirrorInv
<1>2. /\ lock = w /\ worker[w].pc = "distrust" /\ lock' = w
      /\ worker' = [worker EXCEPT ![w] = s] /\ ResetEpoch
      /\ UNCHANGED <<fts, nativeVars, reader, writes, upsets>>
  BY <1>1 DEF Distrust, At, WorkerStates
<1>3. s \in WorkerStates /\ s.pc = "needs_clear"
  <2>1. worker[w] \in WorkerStates /\ mirror.epoch + 1 \in Nat BY <1>1 DEF Mirrors
  <2> QED BY <2>1 DEF WorkerStates, StepStates
<1> HIDE DEF s
<1>4. /\ mirror' \in Mirrors /\ queue' \in [Keys -> Intents] /\ OpMatchesRow' /\ StateOK'
  BY <1>1, <1>2, Resets DEF MirrorInv, StateOK, RowsOK
<1>5. worker'[w] = s BY <1>2, <1>3, Moving
<1>6. StepOK(w)' BY <1>3, <1>5 DEF StepOK, ClearAt, BatchAt, AckAt
<1>7. TypeOK' BY <1>2, <1>3, <1>4, Moving, Types, TypesNext DEF MirrorInv, nativeVars
<1> QED BY <1>2, <1>3, <1>4, <1>6, <1>7, Moving DEF MirrorInv

\* A reset by another leaves a worker with a batch of an older epoch.
LEMMA ResetKeepsSteps ==
    ASSUME MirrorInv, ResetEpoch, UNCHANGED <<nativeVars, lock, worker>>
    PROVE  LocksOK' /\ \A w \in Workers : StepOK(w)'
<1>1. mirror \in Mirrors /\ worker \in [Workers -> WorkerStates]
  BY Types DEF MirrorInv
<1>2. LocksOK' BY DEF MirrorInv, LocksOK
<1>3. mirror'.revision = mirror.revision + 1 /\ mirror'.epoch = mirror.epoch + 1
      /\ mirror'.phase = "needs_clear" /\ mirror.revision \in Nat /\ mirror.epoch \in Nat
  BY <1>1 DEF ResetEpoch, Mirrors
<1>4. \A k \in Keys : queue'[k].op = "none" BY Idle DEF ResetEpoch
<1>5. ASSUME NEW w \in Workers PROVE StepOK(w)'
  <2>1. worker'[w] = worker[w] /\ worker[w].items \in SUBSET Items /\ worker[w].batch \in Nat
        /\ StepOK(w)
    BY <1>1 DEF MirrorInv, WorkerStates
  <2>2. ClearAt(w)' BY <1>3, <2>1 DEF StepOK, ClearAt, nativeVars
  <2>3. ASSUME worker[w].pc \in {"admit", "commit", "ack"}, NEW i \in worker[w].items
        PROVE  ItemOK(w, i)'
    <3>1. i.gen \in Nat /\ i.key \in Keys BY <2>1 DEF Items
    <3>2. i.gen <= mirror.revision /\ worker[w].batch <= mirror.epoch
      BY <2>1, <2>3 DEF StepOK, BatchAt, ItemOK
    <3>3. ~Same(w, i)' BY <1>4, <3>1 DEF Same
    <3> QED BY <1>3, <2>1, <3>1, <3>2, <3>3 DEF ItemOK
  <2>4. BatchAt(w)' BY <1>3, <2>1, <2>3 DEF StepOK, BatchAt, OneItemAKey
  <2>5. AckAt(w)' BY <1>3 DEF AckAt
  <2> QED BY <2>2, <2>4, <2>5 DEF StepOK
<1> QED BY <1>2, <1>5

\* The table is cleared, and the mirror reset with it.
LEMMA KeepClearSearchIndex ==
    ASSUME MirrorInv, ClearSearchIndex PROVE MirrorInv'
<1> USE DEF ClearSearchIndex, Write
<1>1. fts' \in [Keys -> TableRows] /\ writes' \in Nat BY Idle, Types DEF MirrorInv
<1>2. RowsOK' 
  <2>1. Cardinality(Keys) + writes' \in Nat BY <1>1, MirrorAssumption, FS_CardinalityType
  <2> QED BY <1>1, <2>1, Idle DEF RowsOK
<1>3. /\ mirror' \in Mirrors /\ queue' \in [Keys -> Intents] /\ OpMatchesRow' /\ StateOK'
  BY <1>1, <1>2, Resets
<1>4. TypeOK' BY <1>1, <1>3, Types, TypesNext DEF MirrorInv, nativeVars
<1> QED BY <1>3, <1>4, ResetKeepsSteps DEF MirrorInv

\* An operator asks for a rebuild.
LEMMA KeepRequestRebuild ==
    ASSUME MirrorInv, RequestRebuild PROVE MirrorInv'
<1> USE DEF RequestRebuild, Upset
<1>1. fts' \in [Keys -> TableRows] /\ writes' \in Nat BY Types DEF MirrorInv
<1>2. RowsOK' BY DEF RowsOK, MirrorInv, StateOK
<1>3. /\ mirror' \in Mirrors /\ queue' \in [Keys -> Intents] /\ OpMatchesRow' /\ StateOK'
  BY <1>1, <1>2, Resets
<1>4. TypeOK' BY <1>1, <1>3, Types, TypesNext DEF MirrorInv, nativeVars
<1> QED BY <1>3, <1>4, ResetKeepsSteps DEF MirrorInv

-----------------------------------------------------------------------------
\* A clear is admitted when the epoch is still the one it was read in.
LEMMA KeepAdmitClear ==
    ASSUME MirrorInv, NEW w \in Workers, AdmitClear(w) PROVE MirrorInv'
<1> USE DEF AdmitClear, At
<1>1. mirror \in Mirrors /\ worker \in [Workers -> WorkerStates] BY Types DEF MirrorInv
<1>2. CASE Leave(w) /\ UNCHANGED mirror
  <2>1. TypeOK' BY <1>2, Leaving, Types, TypesNext, QueueStays DEF MirrorInv, nativeVars
  <2>2. StateOK' BY <1>2, StateStays DEF MirrorInv, tableVars
  <2> QED BY <1>2, <2>1, <2>2, Leaving DEF MirrorInv
<1>3. CASE /\ mirror.phase = "needs_clear" /\ mirror.attempts < MaxAttempts
           /\ mirror' = [mirror EXCEPT !.attempts = @ + 1]
           /\ Goto(w, "clear") /\ UNCHANGED lock
  <2> DEFINE s == [worker[w] EXCEPT !.pc = "clear"]
  <2>1. worker[w] \in WorkerStates BY <1>1
  <2>2. s \in WorkerStates /\ s.pc = "clear" BY <2>1 DEF WorkerStates, StepStates
  <2>3. lock = w /\ lock' = w /\ worker' = [worker EXCEPT ![w] = s]
    BY <1>1, <1>3 DEF Goto
  <2> HIDE DEF s
  <2>4. mirror.attempts + 1 \in 0..MaxAttempts BY <1>1, <1>3, MirrorAssumption DEF Mirrors
  <2>5. mirror' \in Mirrors /\ mirror' = [mirror EXCEPT !.attempts = mirror'.attempts]
    BY <1>1, <1>3, <2>4 DEF Mirrors
  <2>6. TypeOK'
    BY <2>2, <2>3, <2>5, Moving, Types, TypesNext, QueueStays DEF MirrorInv, nativeVars
  <2>7. StateOK'
    BY <1>1, <2>5 DEF MirrorInv, StateOK, RowsOK, IncsOK, CoverOK, IntentsCover, NoIntentIsLost,
       IntentsMatchRows, TokenOK, RowsReadOK, Queued, nativeVars, Mirrors
  <2>8. worker'[w] = s BY <2>2, <2>3, Moving
  <2>9. StepOK(w)' BY <1>1, <1>3, <2>2, <2>5, <2>8 DEF StepOK, ClearAt, BatchAt, AckAt, Mirrors
  <2> QED BY <2>2, <2>3, <2>6, <2>7, <2>9, Moving DEF MirrorInv
<1> QED BY <1>2, <1>3

\* A native commit replaces the documents; on a lost disk it begins a new incarnation.
LEMMA CommitIs ==
    ASSUME MirrorInv, NEW texts \in [Keys -> Contents], NativeCommit(texts)
    PROVE  /\ disk' \in Disks /\ born' \in Nat /\ disk'.docs = texts
           /\ disk.inc # 0 => disk'.inc = disk.inc /\ born' = born
           /\ disk.inc = 0 => disk'.inc = born + 1 /\ born' = born + 1
  BY Types DEF NativeCommit, Opened, Disks, MirrorInv

\* A disk that changes leaves the state of the tables true of it.
LEMMA NewDiskKeepsState ==
    ASSUME MirrorInv, UNCHANGED <<tableVars, reader, writes>>,
           disk' \in Disks, born' \in Nat, born <= born', disk'.inc <= born',
           \/ disk'.inc = disk.inc /\ disk'.docs = disk.docs
           \/ disk'.inc = 0
           \/ disk'.inc > born
           \/ mirror.phase = "needs_clear"
           \/ /\ mirror.phase = "replay"
              /\ disk'.inc = disk.inc
              /\ NoIntentIsLost'
    PROVE  StateOK'
<1>1. mirror \in Mirrors /\ disk \in Disks /\ born \in Nat /\ reader \in ReaderStates
  BY Types DEF MirrorInv
<1>2. mirror' = mirror /\ queue' = queue /\ fts' = fts /\ reader' = reader /\ Queued' = Queued
  BY DEF tableVars, Queued
<1>3. RowsOK' BY <1>2 DEF RowsOK, MirrorInv, StateOK
<1>4. IncsOK' BY <1>1, <1>2 DEF IncsOK, MirrorInv, StateOK, Mirrors, Disks
<1>5. disk'.inc = mirror.inc /\ mirror.inc # 0 =>
         \/ disk'.inc = disk.inc /\ disk'.docs = disk.docs
         \/ mirror.phase = "replay" /\ NoIntentIsLost'
  BY <1>1 DEF IncsOK, MirrorInv, StateOK, Mirrors, Disks
<1>6. mirror.phase # "needs_clear" => mirror.inc # 0 BY DEF IncsOK, MirrorInv, StateOK
<1>7. CoverOK' BY <1>2, <1>5, <1>6 DEF CoverOK, MirrorInv, StateOK
<1>8. IntentsCover'
  BY <1>2, <1>5, <1>6 DEF IntentsCover, NoIntentIsLost, IntentsMatchRows, MirrorInv, StateOK
<1>9. TokenOK' BY <1>1, <1>2 DEF TokenOK, MirrorInv, StateOK, ReaderStates, Tokens
<1>10. RowsReadOK'
  <2>1. ASSUME reader.pc # "idle", mirror.revision = reader.token.revision,
               disk'.inc = reader.token.inc
        PROVE  disk'.inc = disk.inc /\ disk'.docs = disk.docs
    BY <1>5, <2>1 DEF TokenOK, MirrorInv, StateOK
  <2> QED BY <1>2, <2>1 DEF RowsReadOK, MirrorInv, StateOK
<1> QED BY <1>3, <1>4, <1>7, <1>8, <1>9, <1>10 DEF StateOK

\* The native index is emptied.
LEMMA KeepNativeClear ==
    ASSUME MirrorInv, NEW w \in Workers, NativeClear(w) PROVE MirrorInv'
<1> DEFINE s == [worker[w] EXCEPT !.pc = "stamp"]
<1>1. mirror \in Mirrors /\ worker[w] \in WorkerStates /\ worker \in [Workers -> WorkerStates]
      /\ born \in Nat /\ disk \in Disks
  BY Types DEF MirrorInv
<1>2. s \in WorkerStates /\ s.pc = "stamp" BY <1>1 DEF WorkerStates, StepStates
<1>3. /\ lock = w /\ worker[w].pc = "clear" /\ lock' = w /\ worker' = [worker EXCEPT ![w] = s]
      /\ NativeCommit(NoTexts) /\ UNCHANGED <<tableVars, reader, writes, upsets>>
  BY <1>1 DEF NativeClear, At, Goto
<1> HIDE DEF s
<1>4. mirror.phase = "needs_clear" BY <1>3 DEF MirrorInv, StepOK, ClearAt
<1>5. disk' \in Disks /\ born' \in Nat /\ disk'.docs = NoTexts /\ born <= born' /\ disk'.inc <= born'
  BY <1>1, <1>3, CommitIs, Idle DEF MirrorInv, StateOK, IncsOK, Disks
<1>6. StateOK' BY <1>3, <1>4, <1>5, NewDiskKeepsState
<1>7. TypeOK' BY <1>2, <1>3, <1>5, Moving, Types, TypesNext, QueueStays DEF MirrorInv, tableVars
<1>8. worker'[w] = s BY <1>2, <1>3, Moving
<1>9. StepOK(w)' BY <1>2, <1>3, <1>4, <1>5, <1>8 DEF StepOK, ClearAt, BatchAt, AckAt, tableVars
<1> QED BY <1>2, <1>3, <1>6, <1>7, <1>9, Moving DEF MirrorInv

\* The worker reads the incarnation it has emptied.
LEMMA KeepStampIncarnation ==
    ASSUME MirrorInv, NEW w \in Workers, StampIncarnation(w) PROVE MirrorInv'
<1> DEFINE s == [worker[w] EXCEPT !.pc = "ackclear", !.inc = born + 1]
<1>1. mirror \in Mirrors /\ worker[w] \in WorkerStates /\ worker \in [Workers -> WorkerStates]
      /\ born \in Nat /\ disk \in Disks
  BY Types DEF MirrorInv
<1>2. s \in WorkerStates /\ s.pc = "ackclear" /\ s.inc = born + 1
  <2>1. born + 1 \in Nat BY <1>1
  <2> QED BY <1>1, <2>1 DEF WorkerStates, StepStates
<1>3. /\ lock = w /\ worker[w].pc = "stamp" /\ lock' = w /\ worker' = [worker EXCEPT ![w] = s]
      /\ born' = born + 1 /\ disk' = [disk EXCEPT !.inc = born + 1]
      /\ UNCHANGED <<tableVars, reader, writes, upsets>>
  BY <1>1 DEF StampIncarnation, At
<1> HIDE DEF s
<1>4. mirror.phase = "needs_clear" /\ disk.docs = NoTexts
  BY <1>3 DEF MirrorInv, StepOK, ClearAt
<1>5. disk' \in Disks /\ born' \in Nat /\ disk'.docs = NoTexts /\ born <= born' /\ disk'.inc = born'
  BY <1>1, <1>3, <1>4 DEF Disks
<1>6. StateOK' BY <1>1, <1>3, <1>4, <1>5, NewDiskKeepsState
<1>7. TypeOK' BY <1>2, <1>3, <1>5, Moving, Types, TypesNext, QueueStays DEF MirrorInv, tableVars
<1>8. worker'[w] = s BY <1>2, <1>3, Moving
<1>9. StepOK(w)'
  BY <1>1, <1>2, <1>3, <1>4, <1>5, <1>8 DEF StepOK, ClearAt, BatchAt, AckAt, tableVars
<1> QED BY <1>2, <1>3, <1>6, <1>7, <1>9, Moving DEF MirrorInv

\* The emptied incarnation is put on record and the seeding begins.
LEMMA KeepAckClear ==
    ASSUME MirrorInv, NEW w \in Workers, AckClear(w) PROVE MirrorInv'
<1> USE DEF AckClear, At
<1>1. mirror \in Mirrors /\ worker[w] \in WorkerStates BY Types DEF MirrorInv
<1>2. CASE UNCHANGED mirror
  <2>1. TypeOK' BY <1>2, Leaving, Types, TypesNext, QueueStays DEF MirrorInv, nativeVars
  <2>2. StateOK' BY <1>2, StateStays DEF MirrorInv, tableVars
  <2> QED BY <2>1, <2>2, Leaving DEF MirrorInv
<1>3. CASE /\ mirror.phase = "needs_clear"
           /\ mirror' = [mirror EXCEPT !.phase = "seeding", !.attempts = 0,
                                      !.inc = worker[w].inc, !.due = TRUE]
  <2>1. mirror' \in Mirrors /\ mirror'.phase = "seeding" /\ mirror'.inc = worker[w].inc
        /\ mirror'.revision = mirror.revision /\ mirror'.epoch = mirror.epoch
        /\ mirror'.after = mirror.after /\ mirror'.through = mirror.through
    <3>1. worker[w].inc \in Nat /\ 0 \in 0..MaxAttempts
      BY <1>1, MirrorAssumption DEF WorkerStates
    <3> QED BY <1>1, <1>3, <3>1 DEF Mirrors
  <2>2. TypeOK' BY <2>1, Leaving, Types, TypesNext, QueueStays DEF MirrorInv, nativeVars
  <2>3. worker[w].inc # 0 /\ worker[w].inc <= born /\ disk.docs = NoTexts
    BY DEF MirrorInv, StepOK, ClearAt
  <2>4. fts' = fts /\ queue' = queue /\ disk' = disk /\ born' = born /\ reader' = reader
        /\ writes' = writes /\ Queued' = Queued
    BY DEF nativeVars, Queued
  <2>5. RowsOK' BY <2>4 DEF RowsOK, MirrorInv, StateOK
  <2>6. IncsOK' BY <2>1, <2>3, <2>4 DEF IncsOK, MirrorInv, StateOK
  <2>7. CoverOK' BY <1>3, <2>1, <2>3, <2>4 DEF CoverOK, MirrorInv, StateOK
  <2>8. IntentsCover'
    BY <2>1, <2>4 DEF IntentsCover, NoIntentIsLost, IntentsMatchRows, MirrorInv, StateOK
  <2>9. TokenOK' /\ RowsReadOK'
    BY <1>3, <2>1, <2>4 DEF TokenOK, RowsReadOK, MirrorInv, StateOK
  <2> QED BY <2>2, <2>5, <2>6, <2>7, <2>8, <2>9, Leaving DEF MirrorInv, StateOK
<1> QED BY <1>2, <1>3

\* A clear that fails leaves the mirror as it was.
LEMMA KeepFailClear ==
    ASSUME MirrorInv, NEW w \in Workers, FailClear(w) PROVE MirrorInv'
<1> USE DEF FailClear, At, Upset
<1>1. mirror \in Mirrors BY Types DEF MirrorInv
<1>2. lock = w /\ Leave(w) /\ mirror' = [mirror EXCEPT !.due = mirror'.due] /\ mirror'.due \in BOOLEAN
      /\ UNCHANGED <<fts, queue, nativeVars, reader, writes>> /\ upsets' \in Nat
  <2>1. mirror = [mirror EXCEPT !.due = mirror.due] /\ mirror.due \in BOOLEAN
    BY <1>1 DEF Mirrors
  <2>2. mirror' \in {mirror, [mirror EXCEPT !.due = FALSE]} OBVIOUS
  <2>3. [mirror EXCEPT !.due = FALSE].due = FALSE BY <1>1 DEF Mirrors
  <2>4. mirror' = [mirror EXCEPT !.due = mirror'.due] /\ mirror'.due \in BOOLEAN
    BY <2>1, <2>2, <2>3
  <2>5. upsets' \in Nat BY Types DEF MirrorInv
  <2> QED BY <2>4, <2>5
<1>3. mirror' \in Mirrors BY <1>1, <1>2 DEF Mirrors
<1>4. TypeOK' BY <1>2, <1>3, Leaving, Types, TypesNext, QueueStays DEF MirrorInv, nativeVars
<1>5. StateOK'
  BY <1>1, <1>2 DEF MirrorInv, StateOK, RowsOK, IncsOK, CoverOK, IntentsCover, NoIntentIsLost,
       IntentsMatchRows, TokenOK, RowsReadOK, Queued, nativeVars, Mirrors
<1> QED BY <1>2, <1>4, <1>5, Leaving DEF MirrorInv

-----------------------------------------------------------------------------
\* The next page of the seeding: the first MaxRows of the rows that are found.
PageOf(f, found) ==
    {k \in found : Cardinality({j \in found : f[j].row < f[k].row}) < MaxRows}

\* A page is finite, is in front of what is left, and is all when it is not full.
LEMMA ThePage ==
    ASSUME NEW f \in [Keys -> TableRows], NEW found \in SUBSET Keys,
           NEW page, page = PageOf(f, found)
    PROVE  /\ IsFiniteSet(page) /\ Cardinality(page) \in Nat
           /\ \A k \in found \ page, j \in page : f[j].row < f[k].row
           /\ Cardinality(page) < MaxRows => page = found
<1> USE DEF PageOf
<1> DEFINE below(k) == {j \in found : f[j].row < f[k].row}
<1>1. IsFiniteSet(found) /\ IsFiniteSet(page) BY MirrorAssumption, FS_Subset
<1>2. \A k \in Keys : IsFiniteSet(below(k)) /\ Cardinality(below(k)) \in Nat
  BY <1>1, FS_Subset, FS_CardinalityType
<1>3. ASSUME NEW k \in found \ page, NEW j \in page PROVE f[j].row < f[k].row
  <2>1. SUFFICES ASSUME f[k].row <= f[j].row PROVE FALSE
    BY DEF TableRows
  <2>2. below(k) \subseteq below(j) BY <2>1 DEF TableRows
  <2>3. Cardinality(below(k)) <= Cardinality(below(j))
    BY <1>2, <2>2, FS_Subset
  <2>4. Cardinality(below(j)) < MaxRows /\ ~(Cardinality(below(k)) < MaxRows) OBVIOUS
  <2>5. Cardinality(below(j)) \in Nat /\ Cardinality(below(k)) \in Nat BY <1>2
  <2> HIDE DEF below
  <2> QED BY <2>3, <2>4, <2>5, MirrorAssumption
<1>4. Cardinality(page) \in Nat BY <1>1, FS_CardinalityType
<1>5. ASSUME page # found PROVE ~(Cardinality(page) < MaxRows)
  <2> DEFINE late == {f[k].row : k \in found \ page}
  <2>1. late \in SUBSET Nat /\ late # {}
    <3>1. PICK k \in found : k \notin page BY <1>5
    <3>2. f[k].row \in late BY <3>1
    <3>3. \A k1 \in found : f[k1].row \in Nat BY DEF TableRows
    <3> QED BY <3>2, <3>3
  <2>2. PICK m \in late : \A x \in late : m <= x BY <2>1, LeastExists
  <2>3. PICK k \in found \ page : m = f[k].row BY <2>2
  <2>4. \A j \in found \ page : f[k].row <= f[j].row BY <2>2, <2>3
  <2>5. below(k) \subseteq page BY <2>4 DEF TableRows
  <2>6. Cardinality(below(k)) <= Cardinality(page) BY <1>1, <2>5, FS_Subset
  <2>7. ~(Cardinality(below(k)) < MaxRows) BY <2>3
  <2>8. Cardinality(below(k)) \in Nat BY <1>2, <2>3
  <2> HIDE DEF below
  <2> QED BY <1>4, <2>6, <2>7, <2>8, MirrorAssumption
<1> QED BY <1>1, <1>3, <1>4, <1>5

\* A page of rows is enqueued, and the seeding goes on behind its last row.
LEMMA KeepSeed ==
    ASSUME MirrorInv, NEW w \in Workers, Seed(w) PROVE MirrorInv'
<1> DEFINE found == {k \in Keys : /\ fts[k].row > mirror.after
                                  /\ fts[k].row <= mirror.through}
           page == {k \in found :
                    Cardinality({j \in found : fts[j].row < fts[k].row}) < MaxRows}
           last == IF page = {} THEN mirror.through ELSE Max({fts[k].row : k \in page})
           done == Cardinality(page) < MaxRows \/ last >= mirror.through
           new(k) == [op |-> "upsert", epoch |-> mirror.epoch, gen |-> mirror.revision,
                      row |-> fts[k].row, attempts |-> 0, due |-> TRUE]
<1>1. /\ lock = w /\ worker[w].pc = "seeding" /\ Leave(w)
      /\ UNCHANGED <<fts, nativeVars, reader, writes, upsets>>
      /\ \/ UNCHANGED <<queue, mirror>>
         \/ /\ mirror.phase = "seeding"
            /\ queue' = [k \in Keys |-> IF k \in page \ Queued THEN new(k) ELSE queue[k]]
            /\ mirror' = [mirror EXCEPT !.after = last,
                                       !.phase = IF done THEN "replay" ELSE "seeding"]
  BY DEF Seed, At
<1>2. fts \in [Keys -> TableRows] /\ mirror \in Mirrors /\ queue \in [Keys -> Intents]
      /\ mirror.revision \in Nat /\ mirror.epoch \in Nat /\ mirror.after \in Nat
      /\ mirror.through \in Nat
  BY Types DEF MirrorInv, Mirrors
<1>3. CASE UNCHANGED <<queue, mirror>>
  <2>1. TypeOK' BY <1>1, <1>3, Leaving, Types, TypesNext, QueueStays DEF MirrorInv, nativeVars
  <2>2. StateOK' BY <1>1, <1>3, StateStays DEF MirrorInv, tableVars
  <2> QED BY <1>1, <2>1, <2>2, Leaving DEF MirrorInv
<1>4. CASE /\ mirror.phase = "seeding"
           /\ queue' = [k \in Keys |-> IF k \in page \ Queued THEN new(k) ELSE queue[k]]
           /\ mirror' = [mirror EXCEPT !.after = last,
                                      !.phase = IF done THEN "replay" ELSE "seeding"]
  <2>1. /\ \A k \in found \ page, j \in page : fts[j].row < fts[k].row
        /\ Cardinality(page) < MaxRows => page = found
        /\ page = {} => Cardinality(page) < MaxRows
    <3>1. found \in SUBSET Keys /\ Cardinality({}) = 0 BY FS_EmptySet
    <3>2. 0 < MaxRows BY MirrorAssumption
    <3>4. page = PageOf(fts, found) BY DEF PageOf
    <3> HIDE DEF found, page
    <3>3. /\ \A k \in found \ page, j \in page : fts[j].row < fts[k].row
          /\ Cardinality(page) < MaxRows => page = found
      BY <1>2, <3>1, <3>4, ThePage
    <3> QED BY <3>1, <3>2, <3>3
  <2>2. page \subseteq found /\ found \subseteq Keys OBVIOUS
  <2>3. \A k \in Keys : k \in found <=> mirror.after < fts[k].row /\ fts[k].row <= mirror.through
    BY <1>2 DEF TableRows
  <2> HIDE DEF page, found
  <2>4. /\ last \in Nat
        /\ page # {} => (\E j \in page : last = fts[j].row) /\ \A j \in page : fts[j].row <= last
    <3>1. CASE page = {} BY <1>2, <3>1
    <3>2. CASE page # {}
      <4> DEFINE S == {fts[k].row : k \in page}
      <4>1. S \in SUBSET Nat /\ S # {} /\ \A x \in S : x <= mirror.through
        BY <1>2, <2>2, <2>3, <3>2 DEF TableRows
      <4>2. Max(S) \in S /\ \A x \in S : x <= Max(S) BY <1>2, <4>1, GreatestExists
      <4> QED BY <3>2, <4>1, <4>2
    <3> QED BY <3>1, <3>2
  <2>5. ASSUME NEW k \in found \ page PROVE ~done /\ last < fts[k].row
    <3>1. page # {} /\ ~(Cardinality(page) < MaxRows) BY <2>1
    <3>2. PICK j \in page : last = fts[j].row BY <2>4, <3>1
    <3>3. last < fts[k].row BY <2>1, <3>2
    <3>4. fts[k].row \in Nat /\ fts[k].row <= mirror.through BY <1>2, <2>2, <2>3 DEF TableRows
    <3> QED BY <1>2, <2>4, <3>1, <3>3, <3>4
  <2> HIDE DEF last, done
  <2>6. /\ mirror' \in Mirrors /\ mirror'.after = last
        /\ mirror'.phase = IF done THEN "replay" ELSE "seeding"
        /\ mirror'.revision = mirror.revision /\ mirror'.epoch = mirror.epoch
        /\ mirror'.inc = mirror.inc /\ mirror'.through = mirror.through
    BY <1>2, <1>4, <2>4 DEF Mirrors
  <2>7. \A k \in Keys : new(k) \in Intents
    BY <1>2, MirrorAssumption DEF Intents, TableRows
  <2>21. \A k \in Keys : /\ new(k).op = "upsert" /\ new(k).row = fts[k].row
                         /\ new(k).epoch = mirror.epoch /\ new(k).gen = mirror.revision
    OBVIOUS
  <2> HIDE DEF new
  <2>8. \A k \in Keys : /\ k \in Queued => queue'[k] = queue[k]
                        /\ k \in page \ Queued => queue'[k] = new(k)
                        /\ k \notin page => queue'[k] = queue[k]
    BY <1>4
  <2>9. Queued' = Queued \cup page
    <3>1. Queued \subseteq Keys /\ page \subseteq Keys BY <2>2 DEF Queued
    <3>2. \A k \in Keys : k \in Queued' <=> k \in Queued \cup page
      BY <2>8, <2>21, <3>1 DEF Queued
    <3>3. Queued' \subseteq Keys BY DEF Queued
    <3> QED BY <3>1, <3>2, <3>3
  <2>10. queue' \in [Keys -> Intents] BY <1>2, <1>4, <2>7
  <2>11. \A k \in page : fts[k].row # 0 BY <1>2, <2>2, <2>3 DEF TableRows
  <2>12. Queued \subseteq Keys BY DEF Queued
  <2>13. OpMatchesRow'
    <3>1. \A k \in Queued : (queue[k].op = "upsert") = (queue[k].row # 0)
      BY Types DEF MirrorInv, OpMatchesRow
    <3> QED BY <2>2, <2>8, <2>9, <2>11, <2>12, <2>21, <3>1 DEF OpMatchesRow
  <2>14. TypeOK'
    BY <1>1, <2>6, <2>10, <2>13, Leaving, Types, TypesNext DEF MirrorInv, nativeVars
  <2>15. RowsOK' BY <1>1 DEF RowsOK, MirrorInv, StateOK
  <2>16. IncsOK'
    <3>1. \A k \in Queued' : queue'[k].gen <= mirror'.revision
      BY <1>2, <2>2, <2>6, <2>8, <2>9, <2>12, <2>21 DEF IncsOK, MirrorInv, StateOK
    <3> QED BY <1>1, <1>4, <2>6, <3>1 DEF IncsOK, MirrorInv, StateOK, nativeVars
  <2>17. \A k \in Keys : fts[k].text # Gone => k \in Queued' \/ k \in found \ page
    BY <1>4, <2>3, <2>9 DEF MirrorInv, StateOK, CoverOK
  <2>18. CoverOK'
    <3>1. ASSUME NEW k \in Keys, fts[k].text # Gone
          PROVE  k \in Queued' \/ (last < fts[k].row /\ fts[k].row <= mirror.through)
      BY <2>3, <2>5, <2>17, <3>1
    <3> QED BY <1>1, <1>4, <2>6, <3>1 DEF CoverOK, MirrorInv, StateOK, nativeVars
  <2>19. IntentsCover'
    <3>1. NoIntentIsLost'
      <4>1. ASSUME done, disk.inc = mirror.inc, NEW k \in Keys, disk.docs[k] # fts[k].text
            PROVE  k \in Queued'
        <5>1. disk.docs = NoTexts BY <1>4, <4>1 DEF MirrorInv, StateOK, CoverOK
        <5>2. fts[k].text # Gone BY <4>1, <5>1 DEF NoTexts
        <5> QED BY <2>5, <2>17, <4>1, <5>2
      <4> QED BY <1>1, <2>6, <4>1 DEF NoIntentIsLost, nativeVars
    <3>2. IntentsMatchRows'
      <4>1. \A k \in Queued : /\ queue[k].epoch = mirror.epoch
                      /\ queue[k].row = fts[k].row
                      /\ (queue[k].op = "delete") = (fts[k].row = 0)
        BY DEF MirrorInv, StateOK, IntentsCover, IntentsMatchRows
      <4>2. \A k \in Keys : new(k).epoch = mirror.epoch /\ new(k).row = fts[k].row
                            /\ new(k).op # "delete"
        BY <2>21
      <4>3. ASSUME NEW k \in Queued'
            PROVE /\ queue'[k].epoch = mirror.epoch
                  /\ queue'[k].row = fts[k].row
                  /\ (queue'[k].op = "delete") = (fts[k].row = 0)
        BY <2>2, <2>8, <2>9, <2>11, <2>12, <4>1, <4>2
      <4> QED BY <1>1, <2>6, <4>3 DEF IntentsMatchRows
    <3> QED BY <3>1, <3>2 DEF IntentsCover
  <2>20. TokenOK' /\ RowsReadOK'
    BY <1>1, <1>4, <2>6 DEF TokenOK, RowsReadOK, MirrorInv, StateOK, nativeVars
  <2> QED BY <1>1, <2>14, <2>15, <2>16, <2>18, <2>19, <2>20, Leaving DEF MirrorInv, StateOK
<1> QED BY <1>1, <1>3, <1>4

-----------------------------------------------------------------------------
\* A batch is admitted when every item is still what the queue says.
LEMMA KeepAdmit ==
    ASSUME MirrorInv, NEW w \in Workers, Admit(w) PROVE MirrorInv'
<1> DEFINE taken == {i \in worker[w].items :
                        /\ mirror.epoch = worker[w].batch /\ mirror.phase = "replay"
                        /\ Same(w, i) /\ queue[i.key].attempts < MaxAttempts}
           s == [worker[w] EXCEPT !.items = taken, !.oversize = {},
                                  !.pc = IF taken = {} THEN "finish" ELSE "commit"]
<1>1. mirror \in Mirrors /\ queue \in [Keys -> Intents] /\ worker[w] \in WorkerStates
      /\ worker \in [Workers -> WorkerStates]
  BY Types DEF MirrorInv
<1>2. /\ lock = w /\ worker[w].pc = "admit" /\ lock' = w /\ worker' = [worker EXCEPT ![w] = s]
      /\ UNCHANGED <<fts, mirror, nativeVars, reader, writes, upsets>>
  BY <1>1 DEF Admit, At, WorkerStates
<1>3. taken \subseteq worker[w].items OBVIOUS
<1> HIDE DEF taken
<1>4. s \in WorkerStates /\ s.pc \in {"finish", "commit"} /\ s.items = taken
      /\ s.batch = worker[w].batch
  BY <1>1, <1>3 DEF WorkerStates, StepStates
<1> HIDE DEF s
<1>5. worker'[w] = s BY <1>2, <1>4, Moving
<1>6. /\ queue' \in [Keys -> Intents]
      /\ \A k \in Keys : /\ queue'[k].op = queue[k].op /\ queue'[k].epoch = queue[k].epoch
                         /\ queue'[k].gen = queue[k].gen /\ queue'[k].row = queue[k].row
  <2> DEFINE barred == {i \in worker[w].oversize :
                           (mirror.epoch = worker[w].batch /\ mirror.phase = "replay")
                           /\ Same(w, i)}
  <2>1. queue' = [k \in Keys |->
             IF \E i \in barred : i.key = k
             THEN [queue[k] EXCEPT !.attempts = MaxAttempts]
             ELSE IF \E i \in taken : i.key = k
             THEN [queue[k] EXCEPT !.attempts = @ + 1]
             ELSE queue[k]]
    BY DEF Admit, taken
  <2> HIDE DEF barred
  <2>2. ASSUME NEW k \in Keys
        PROVE  /\ queue'[k] \in Intents
               /\ queue'[k].op = queue[k].op /\ queue'[k].epoch = queue[k].epoch
               /\ queue'[k].gen = queue[k].gen /\ queue'[k].row = queue[k].row
    <3>1. queue[k] \in Intents BY <1>1
    <3>2. CASE queue'[k] = [queue[k] EXCEPT !.attempts = MaxAttempts]
      <4>1. MaxAttempts \in 0..MaxAttempts BY MirrorAssumption
      <4> QED BY <3>1, <3>2, <4>1 DEF Intents
    <3>3. CASE /\ \E i \in taken : i.key = k
               /\ queue'[k] = [queue[k] EXCEPT !.attempts = queue[k].attempts + 1]
      <4>1. queue[k].attempts < MaxAttempts BY <3>3 DEF taken
      <4>2. queue[k].attempts + 1 \in 0..MaxAttempts BY <3>1, <4>1, MirrorAssumption DEF Intents
      <4> QED BY <3>1, <3>3, <4>2 DEF Intents
    <3>4. CASE queue'[k] = queue[k] BY <3>1, <3>4
    <3> QED BY <2>1, <3>2, <3>3, <3>4
  <2>3. queue' = [k \in Keys |-> queue'[k]] BY <2>1
  <2> QED BY <2>2, <2>3
<1>7. Queued' = Queued /\ Queued \subseteq Keys BY <1>6 DEF Queued
<1>8. OpMatchesRow' BY <1>6, <1>7, Types DEF OpMatchesRow, MirrorInv
<1>9. TypeOK' BY <1>2, <1>4, <1>6, <1>8, Moving, Types, TypesNext DEF MirrorInv, nativeVars
<1>10. StateOK'
  BY <1>2, <1>6, <1>7
     DEF MirrorInv, StateOK, RowsOK, IncsOK, CoverOK, IntentsCover, NoIntentIsLost,
       IntentsMatchRows, TokenOK, RowsReadOK, nativeVars
<1>11. StepOK(w)'
  <2>1. ASSUME NEW i \in taken PROVE ItemOK(w, i)'
    <3>1. i.key \in Keys BY <1>1, <1>3 DEF WorkerStates, Items
    <3>2. ItemOK(w, i) BY <1>2, <1>3 DEF MirrorInv, StepOK, BatchAt
    <3>3. Same(w, i)' = Same(w, i) BY <1>4, <1>5, <1>6, <3>1 DEF Same
    <3> QED BY <1>2, <1>4, <1>5, <1>6, <1>7, <3>1, <3>2, <3>3 DEF ItemOK
  <2>2. BatchAt(w)' BY <1>2, <1>3, <1>4, <1>5, <2>1 DEF MirrorInv, StepOK, BatchAt, OneItemAKey
  <2> QED BY <1>4, <1>5, <2>2 DEF StepOK, ClearAt, AckAt
<1> QED BY <1>2, <1>4, <1>9, <1>10, <1>11, Moving DEF MirrorInv

\* What a commit makes of the documents.
LEMMA AppliedIs ==
    ASSUME MirrorInv, NEW w \in Workers, worker[w].pc = "commit"
    PROVE  /\ Applied(w) \in [Keys -> Contents]
           /\ \A i \in worker[w].items :
                 Applied(w)[i.key] = IF i.op = "upsert" THEN i.text ELSE Gone
           /\ \A k \in Keys : (\A i \in worker[w].items : i.key # k)
                 => Applied(w)[k] = Opened.docs[k]
<1>1. worker[w].items \in SUBSET Items /\ OneItemAKey(w)
  BY Types DEF MirrorInv, WorkerStates, StepOK, BatchAt
<1>2. Opened.docs \in [Keys -> Contents] BY Types, Idle DEF MirrorInv, Opened, Disks
<1> DEFINE pick(k) == CHOOSE i \in worker[w].items : i.key = k
           text(k) == IF pick(k).op = "upsert" THEN pick(k).text ELSE Gone
<1>3. \A k \in Keys : (\E i \in worker[w].items : i.key = k) => Applied(w)[k] = text(k)
  BY DEF Applied
<1>4. \A k \in Keys : (\A i \in worker[w].items : i.key # k) => Applied(w)[k] = Opened.docs[k]
  BY DEF Applied
<1>5. ASSUME NEW i \in worker[w].items PROVE pick(i.key) = i
  <2>1. pick(i.key) \in worker[w].items /\ pick(i.key).key = i.key OBVIOUS
  <2> QED BY <1>1, <2>1 DEF OneItemAKey
<1> HIDE DEF pick
<1>6. \A i \in worker[w].items : i.key \in Keys /\ i.text \in Contents BY <1>1 DEF Items
<1>7. \A i \in worker[w].items : Applied(w)[i.key] = IF i.op = "upsert" THEN i.text ELSE Gone
  BY <1>3, <1>5, <1>6
<1>8. Gone \in Contents BY DEF Contents
<1>9. \A k \in Keys : Applied(w)[k] \in Contents BY <1>2, <1>4, <1>6, <1>7, <1>8
<1>10. Applied(w) = [k \in Keys |-> Applied(w)[k]] BY DEF Applied
<1> QED BY <1>4, <1>7, <1>9, <1>10

\* The batch is committed to the native index.
LEMMA KeepNativeReplay ==
    ASSUME MirrorInv, NEW w \in Workers, NativeReplay(w) PROVE MirrorInv'
<1> DEFINE s == [worker[w] EXCEPT !.pc = "ack"]
<1>1. mirror \in Mirrors /\ worker[w] \in WorkerStates /\ worker \in [Workers -> WorkerStates]
      /\ born \in Nat /\ disk \in Disks
  BY Types DEF MirrorInv
<1>2. s \in WorkerStates /\ s.pc = "ack" /\ s.items = worker[w].items /\ s.batch = worker[w].batch
  BY <1>1 DEF WorkerStates, StepStates
<1>3. /\ lock = w /\ worker[w].pc = "commit" /\ lock' = w /\ worker' = [worker EXCEPT ![w] = s]
      /\ NativeCommit(Applied(w)) /\ UNCHANGED <<tableVars, reader, writes, upsets>>
  BY <1>1 DEF NativeReplay, At, Goto
<1> HIDE DEF s
<1>4. worker'[w] = s BY <1>2, <1>3, Moving
<1>5. /\ disk' \in Disks /\ born' \in Nat /\ disk'.docs = Applied(w)
      /\ disk.inc # 0 => disk'.inc = disk.inc /\ born' = born
      /\ disk.inc = 0 => disk'.inc = born + 1 /\ born' = born + 1
  BY <1>3, AppliedIs, CommitIs
<1>6. born <= born' /\ disk'.inc <= born'
  BY <1>1, <1>5 DEF MirrorInv, StateOK, IncsOK, Disks
<1>7. /\ mirror.phase \in {"replay", "needs_clear"} /\ worker[w].batch <= mirror.epoch
      /\ worker[w].batch # mirror.epoch => mirror.phase = "needs_clear"
      /\ OneItemAKey(w) /\ \A i \in worker[w].items : ItemOK(w, i)
  BY <1>3 DEF MirrorInv, StepOK, BatchAt
<1>8. \A i \in worker[w].items : i.key \in Keys /\ i.op \in {"upsert", "delete"}
  BY <1>1 DEF WorkerStates, Items
<1>9. ASSUME NEW i \in worker[w].items, Same(w, i) PROVE Applied(w)[i.key] = fts[i.key].text
  <2>1. i.op = queue[i.key].op /\ (i.op = "upsert" => i.text = fts[i.key].text)
    BY <1>7, <1>9 DEF ItemOK
  <2>2. i.key \in Queued BY <1>8, <1>9 DEF Same, Queued
  <2>3. i.op = "delete" => fts[i.key].text = Gone
    BY <1>8, <2>1, <2>2 DEF MirrorInv, StateOK, IntentsCover, IntentsMatchRows, RowsOK
  <2> QED BY <1>3, <1>8, <2>1, <2>3, AppliedIs
<1>10. mirror' = mirror /\ queue' = queue /\ fts' = fts /\ Queued' = Queued
  BY <1>3 DEF tableVars, Queued
<1>11. mirror.phase = "replay" /\ disk'.inc = mirror.inc => disk'.inc = disk.inc /\ disk.inc # 0
  BY <1>1, <1>5 DEF MirrorInv, StateOK, IncsOK, Mirrors, Disks
<1>12. mirror.phase = "replay" => NoIntentIsLost'
  <2>1. ASSUME mirror.phase = "replay", disk'.inc = mirror.inc, NEW k \in Keys,
               disk'.docs[k] # fts[k].text
        PROVE  k \in Queued
    <3>1. CASE \E i \in worker[w].items : i.key = k
      <4>1. PICK i \in worker[w].items : i.key = k BY <3>1
      <4> QED BY <1>7, <2>1, <4>1 DEF ItemOK
    <3>2. CASE \A i \in worker[w].items : i.key # k
      <4>1. Applied(w)[k] = disk.docs[k] BY <1>3, <1>11, <2>1, <3>2, AppliedIs DEF Opened
      <4> QED BY <1>5, <1>11, <2>1, <4>1 DEF MirrorInv, StateOK, IntentsCover, NoIntentIsLost
    <3> QED BY <3>1, <3>2
  <2> QED BY <1>10, <2>1 DEF NoIntentIsLost
<1>13. StateOK'
  <2>1. \/ disk'.inc > born
        \/ mirror.phase = "needs_clear"
        \/ mirror.phase = "replay" /\ disk'.inc = disk.inc /\ NoIntentIsLost'
    BY <1>1, <1>5, <1>7, <1>12
  <2> QED BY <1>3, <1>5, <1>6, <2>1, NewDiskKeepsState
<1>14. TypeOK'
  BY <1>2, <1>3, <1>5, Moving, Types, TypesNext, QueueStays DEF MirrorInv, tableVars
<1>15. StepOK(w)'
  <2>1. \A i : Same(w, i)' = Same(w, i) BY <1>2, <1>4, <1>10 DEF Same
  <2>2. \A i : ItemOK(w, i)' = ItemOK(w, i) BY <1>2, <1>4, <1>10, <2>1 DEF ItemOK
  <2>3. BatchAt(w)' BY <1>2, <1>4, <1>7, <1>10, <2>2 DEF BatchAt, OneItemAKey
  <2>4. AckAt(w)' BY <1>2, <1>4, <1>5, <1>9, <1>10, <2>1 DEF AckAt
  <2> QED BY <1>2, <1>4, <2>3, <2>4 DEF StepOK, ClearAt
<1> QED BY <1>2, <1>3, <1>13, <1>14, <1>15, Moving DEF MirrorInv

\* Items that are unchanged since leave the queue.
LEMMA KeepAckItems ==
    ASSUME MirrorInv, NEW w \in Workers, AckItems(w) PROVE MirrorInv'
<1> DEFINE s == [worker[w] EXCEPT !.pc = "finish"]
           dropped == {k \in Keys : \E i \in worker[w].items : i.key = k /\ Same(w, i)}
<1>1. mirror \in Mirrors /\ worker[w] \in WorkerStates /\ worker \in [Workers -> WorkerStates]
      /\ queue \in [Keys -> Intents]
  BY Types DEF MirrorInv
<1>2. s \in WorkerStates /\ s.pc = "finish" BY <1>1 DEF WorkerStates, StepStates
<1>3. /\ lock = w /\ worker[w].pc = "ack" /\ lock' = w /\ worker' = [worker EXCEPT ![w] = s]
      /\ queue' = [k \in Keys |-> IF k \in dropped THEN NoIntent ELSE queue[k]]
      /\ UNCHANGED <<fts, mirror, nativeVars, reader, writes, upsets>>
  BY <1>1 DEF AckItems, At, Goto
<1> HIDE DEF s
<1>4. worker'[w] = s BY <1>2, <1>3, Moving
<1>5. ASSUME NEW k \in dropped
      PROVE  /\ mirror.phase = "replay"
             /\ disk.inc = mirror.inc => disk.docs[k] = fts[k].text
  <2>1. PICK i \in worker[w].items : i.key = k /\ Same(w, i) OBVIOUS
  <2>2. ItemOK(w, i) /\ AckAt(w) BY <1>3 DEF MirrorInv, StepOK, BatchAt
  <2>3. k \in Queued BY <2>1 DEF Same, Queued
  <2>4. worker[w].batch = mirror.epoch
    BY <2>1, <2>3 DEF Same, MirrorInv, StateOK, IntentsCover, IntentsMatchRows
  <2>5. mirror.phase = "replay" BY <2>2, <2>4 DEF ItemOK
  <2> QED BY <1>3, <2>1, <2>2, <2>5 DEF AckAt
<1>6. dropped \subseteq Keys OBVIOUS
<1> HIDE DEF dropped
<1>7. Queued' = Queued \ dropped /\ Queued \subseteq Keys /\ \A k \in Queued' : queue'[k] = queue[k]
  <2>1. \A k \in Keys : k \in Queued' <=> k \in Queued \ dropped BY <1>3, <1>6, Idle DEF Queued
  <2>2. Queued' \subseteq Keys /\ Queued \subseteq Keys BY DEF Queued
  <2> QED BY <1>3, <2>1, <2>2
<1>8. queue' \in [Keys -> Intents] BY <1>1, <1>3, Idle
<1>9. OpMatchesRow' BY <1>7, Types DEF OpMatchesRow, MirrorInv
<1>10. TypeOK' BY <1>2, <1>3, <1>8, <1>9, Moving, Types, TypesNext DEF MirrorInv, nativeVars
<1>11. fts' = fts /\ mirror' = mirror /\ disk' = disk /\ born' = born /\ reader' = reader
       /\ writes' = writes
  BY <1>3 DEF nativeVars
<1>12. RowsOK' /\ IncsOK' /\ CoverOK'
  BY <1>5, <1>7, <1>11 DEF RowsOK, IncsOK, CoverOK, MirrorInv, StateOK
<1>13. IntentsCover'
  BY <1>5, <1>7, <1>11 DEF IntentsCover, NoIntentIsLost, IntentsMatchRows, MirrorInv, StateOK
<1>14. TokenOK' /\ RowsReadOK' BY <1>7, <1>11 DEF TokenOK, RowsReadOK, MirrorInv, StateOK
<1>15. StepOK(w)' BY <1>2, <1>4 DEF StepOK, ClearAt, BatchAt, AckAt
<1> QED BY <1>2, <1>3, <1>10, <1>12, <1>13, <1>14, <1>15, Moving DEF MirrorInv, StateOK

\* Only whether an intent is due changes.
LEMMA DueAlone ==
    ASSUME MirrorInv, NEW D \in [Keys -> BOOLEAN], NEW d \in BOOLEAN,
           queue' = [k \in Keys |-> [queue[k] EXCEPT !.due = D[k]]],
           mirror' = [mirror EXCEPT !.due = d],
           UNCHANGED <<fts, nativeVars, reader, writes>>
    PROVE  /\ mirror' \in Mirrors /\ queue' \in [Keys -> Intents] /\ OpMatchesRow'
           /\ StateOK'
           /\ \A k \in Keys : /\ queue'[k].op = queue[k].op /\ queue'[k].gen = queue[k].gen
                              /\ queue'[k].epoch = queue[k].epoch
           /\ mirror'.phase = mirror.phase /\ mirror'.epoch = mirror.epoch
           /\ mirror'.revision = mirror.revision /\ mirror'.inc = mirror.inc
           /\ Queued' = Queued
<1>1. mirror \in Mirrors /\ queue \in [Keys -> Intents] BY Types DEF MirrorInv
<1>2. \A k \in Keys : /\ queue'[k] \in Intents
                      /\ queue'[k].op = queue[k].op /\ queue'[k].epoch = queue[k].epoch
                      /\ queue'[k].gen = queue[k].gen /\ queue'[k].row = queue[k].row
  BY <1>1 DEF Intents
<1>3. queue' \in [Keys -> Intents]
  <2>1. queue' = [k \in Keys |-> queue'[k]] OBVIOUS
  <2> QED BY <1>2, <2>1
<1>4. mirror' \in Mirrors /\ mirror'.phase = mirror.phase /\ mirror'.epoch = mirror.epoch
      /\ mirror'.revision = mirror.revision /\ mirror'.inc = mirror.inc
      /\ mirror'.after = mirror.after /\ mirror'.through = mirror.through
  BY <1>1 DEF Mirrors
<1>5. Queued' = Queued /\ Queued \subseteq Keys BY <1>2 DEF Queued
<1>6. OpMatchesRow' BY <1>2, <1>5, Types DEF OpMatchesRow, MirrorInv
<1>7. StateOK'
  BY <1>2, <1>4, <1>5
     DEF MirrorInv, StateOK, RowsOK, IncsOK, CoverOK, IntentsCover, NoIntentIsLost,
       IntentsMatchRows, TokenOK, RowsReadOK, nativeVars
<1> QED BY <1>2, <1>3, <1>4, <1>5, <1>6, <1>7

\* Items that failed wait for their next attempt.
LEMMA KeepFailItems ==
    ASSUME MirrorInv, NEW w \in Workers, FailItems(w) PROVE MirrorInv'
<1> DEFINE failed == {k \in Keys : \E i \in worker[w].items : i.key = k /\ Same(w, i)}
           D == [k \in Keys |-> IF k \in failed THEN FALSE ELSE queue[k].due]
<1>1. mirror \in Mirrors /\ queue \in [Keys -> Intents] BY Types DEF MirrorInv
<1>2. /\ lock = w /\ Leave(w) /\ upsets' \in Nat
      /\ UNCHANGED <<fts, mirror, nativeVars, reader, writes>>
  BY Types DEF FailItems, At, Upset, MirrorInv
<1>3. queue' = [k \in Keys |-> IF k \in failed THEN [queue[k] EXCEPT !.due = FALSE] ELSE queue[k]]
  BY DEF FailItems
<1> HIDE DEF failed
<1>4. D \in [Keys -> BOOLEAN] BY <1>1 DEF Intents
<1>5. \A k \in Keys : queue[k] = [queue[k] EXCEPT !.due = queue[k].due] BY <1>1 DEF Intents
<1>6. queue' = [k \in Keys |-> [queue[k] EXCEPT !.due = D[k]]] BY <1>3, <1>5
<1>7. mirror.due \in BOOLEAN /\ mirror' = [mirror EXCEPT !.due = mirror.due]
  BY <1>1, <1>2 DEF Mirrors
<1> HIDE DEF D
<1>8. mirror' \in Mirrors /\ queue' \in [Keys -> Intents] /\ OpMatchesRow' /\ StateOK'
  BY <1>2, <1>4, <1>6, <1>7, DueAlone
<1>9. TypeOK' BY <1>2, <1>8, Leaving, Types, TypesNext DEF MirrorInv, nativeVars
<1> QED BY <1>2, <1>8, <1>9, Leaving DEF MirrorInv

\* A delay ends.
LEMMA KeepRetryDelayEnds ==
    ASSUME MirrorInv, RetryDelayEnds PROVE MirrorInv'
<1> USE DEF RetryDelayEnds
<1> DEFINE D == [k \in Keys |-> TRUE]
<1>1. D \in [Keys -> BOOLEAN] /\ queue' = [k \in Keys |-> [queue[k] EXCEPT !.due = D[k]]]
  OBVIOUS
<1> HIDE DEF D
<1>2. /\ mirror' \in Mirrors /\ queue' \in [Keys -> Intents] /\ OpMatchesRow'
      /\ StateOK'
      /\ \A k \in Keys : /\ queue'[k].op = queue[k].op /\ queue'[k].gen = queue[k].gen
                         /\ queue'[k].epoch = queue[k].epoch
      /\ mirror'.phase = mirror.phase /\ mirror'.epoch = mirror.epoch
      /\ mirror'.revision = mirror.revision /\ mirror'.inc = mirror.inc
      /\ Queued' = Queued
  BY <1>1, DueAlone
<1>3. TypeOK' BY <1>2, Types, TypesNext DEF MirrorInv, nativeVars
<1>4. LocksOK' BY DEF MirrorInv, LocksOK
<1>5. ASSUME NEW w \in Workers PROVE StepOK(w)'
  <2>1. worker'[w] = worker[w] /\ worker[w].items \in SUBSET Items /\ StepOK(w)
        /\ fts' = fts /\ disk' = disk /\ born' = born
    BY Types DEF MirrorInv, WorkerStates, nativeVars
  <2>2. ASSUME NEW i \in worker[w].items
        PROVE Same(w, i)' = Same(w, i) /\ ItemOK(w, i)' = ItemOK(w, i)
    <3>1. i.key \in Keys BY <2>1 DEF Items
    <3>2. Same(w, i)' = Same(w, i) BY <1>2, <2>1, <3>1 DEF Same
    <3> QED BY <1>2, <2>1, <3>1, <3>2 DEF ItemOK
  <2>3. ClearAt(w)' BY <1>2, <2>1 DEF StepOK, ClearAt
  <2>4. BatchAt(w)' BY <1>2, <2>1, <2>2 DEF StepOK, BatchAt, OneItemAKey
  <2>5. AckAt(w)' BY <1>2, <2>1, <2>2 DEF StepOK, AckAt
  <2> QED BY <2>3, <2>4, <2>5 DEF StepOK
<1> QED BY <1>2, <1>3, <1>4, <1>5 DEF MirrorInv

\* With nothing left to replay the mirror is ready.
LEMMA KeepMarkReady ==
    ASSUME MirrorInv, NEW w \in Workers, MarkReady(w) PROVE MirrorInv'
<1>1. mirror \in Mirrors BY Types DEF MirrorInv
<1>2. /\ lock = w /\ Leave(w) /\ UNCHANGED <<fts, queue, nativeVars, reader, writes, upsets>>
      /\ \/ mirror' = mirror
         \/ mirror.phase = "replay" /\ Queued = {} /\ mirror' = [mirror EXCEPT !.phase = "ready"]
  BY DEF MarkReady, At
<1>3. CASE mirror' = mirror
  <2>1. TypeOK' BY <1>2, <1>3, Leaving, Types, TypesNext, QueueStays DEF MirrorInv, nativeVars
  <2>2. StateOK' BY <1>2, <1>3, StateStays DEF MirrorInv, tableVars
  <2> QED BY <1>2, <2>1, <2>2, Leaving DEF MirrorInv
<1>4. CASE mirror.phase = "replay" /\ Queued = {} /\ mirror' = [mirror EXCEPT !.phase = "ready"]
  <2>1. mirror' \in Mirrors /\ mirror'.phase = "ready" /\ mirror'.epoch = mirror.epoch
        /\ mirror'.revision = mirror.revision /\ mirror'.inc = mirror.inc
    BY <1>1, <1>4 DEF Mirrors
  <2>2. TypeOK' BY <1>2, <2>1, Leaving, Types, TypesNext, QueueStays DEF MirrorInv, nativeVars
  <2>3. fts' = fts /\ queue' = queue /\ disk' = disk /\ born' = born /\ reader' = reader
        /\ writes' = writes /\ Queued' = Queued
    BY <1>2 DEF nativeVars, Queued
  <2>4. StateOK'
    BY <1>4, <2>1, <2>3
       DEF MirrorInv, StateOK, RowsOK, IncsOK, CoverOK, IntentsCover, NoIntentIsLost,
       IntentsMatchRows, TokenOK, RowsReadOK
  <2> QED BY <1>2, <2>2, <2>4, Leaving DEF MirrorInv
<1> QED BY <1>2, <1>3, <1>4

\* The native index is lost.
LEMMA KeepLoseStorage ==
    ASSUME MirrorInv, LoseStorage PROVE MirrorInv'
<1> USE DEF LoseStorage, Upset
<1>1. disk \in Disks /\ born \in Nat /\ mirror \in Mirrors BY Types DEF MirrorInv
<1>2. disk' \in Disks /\ disk'.inc = 0 /\ disk'.docs = NoTexts /\ born <= born' /\ disk'.inc <= born'
  BY <1>1, Idle DEF Disks
<1>3. StateOK' BY <1>1, <1>2, NewDiskKeepsState
<1>4. TypeOK' BY <1>2, Types, TypesNext, QueueStays DEF MirrorInv, tableVars
<1>5. LocksOK' BY DEF MirrorInv, LocksOK
<1>6. mirror' = mirror /\ queue' = queue /\ fts' = fts /\ Queued' = Queued /\ worker' = worker
  BY DEF tableVars, Queued
<1>7. ASSUME NEW w \in Workers PROVE StepOK(w)'
  <2>1. StepOK(w) BY DEF MirrorInv
  <2>2. \A i : ItemOK(w, i)' = ItemOK(w, i) BY <1>6 DEF ItemOK, Same
  <2>3. ClearAt(w)' BY <1>2, <1>6, <2>1 DEF StepOK, ClearAt
  <2>4. BatchAt(w)' BY <1>6, <2>1, <2>2 DEF StepOK, BatchAt, OneItemAKey
  <2>5. AckAt(w)' BY <1>2, <1>6 DEF AckAt, MirrorInv, StateOK, IncsOK
  <2> QED BY <2>3, <2>4, <2>5 DEF StepOK
<1> QED BY <1>3, <1>4, <1>5, <1>7 DEF MirrorInv

\* A write to the table enqueues its intent in the same transaction.
LEMMA Enqueues ==
    ASSUME MirrorInv, NEW k \in Keys, NEW op \in {"upsert", "delete"}, NEW r \in TableRows,
           (op = "delete") = (r.row = 0), (r.row = 0) = (r.text = Gone),
           r.row <= Cardinality(Keys) + writes + 1,
           fts' = [fts EXCEPT ![k] = r], Enqueue(k, op, r.row), Write,
           UNCHANGED <<nativeVars, lock, worker, reader, upsets>>
    PROVE  MirrorInv'
<1>1. fts \in [Keys -> TableRows] /\ mirror \in Mirrors /\ queue \in [Keys -> Intents]
      /\ disk \in Disks /\ born \in Nat /\ reader \in ReaderStates /\ writes \in Nat
      /\ worker \in [Workers -> WorkerStates]
  BY Types DEF MirrorInv
<1>2. /\ mirror' \in Mirrors /\ mirror'.revision = mirror.revision + 1
      /\ mirror'.phase = IF mirror.phase = "ready" THEN "replay" ELSE mirror.phase
      /\ mirror'.epoch = mirror.epoch /\ mirror'.inc = mirror.inc
      /\ mirror'.after = mirror.after /\ mirror'.through = mirror.through
      /\ mirror.revision \in Nat /\ mirror.epoch \in Nat
  <2>1. mirror.revision + 1 \in Nat /\ mirror.revision \in Nat /\ mirror.epoch \in Nat
    BY <1>1 DEF Mirrors
  <2> QED BY <1>1, <2>1 DEF Enqueue, Mirrors
<1> DEFINE n == [op |-> op, epoch |-> mirror.epoch, gen |-> mirror.revision + 1,
                 row |-> r.row, attempts |-> 0, due |-> TRUE]
<1>3. n \in Intents /\ n.op = op /\ n.epoch = mirror.epoch /\ n.gen = mirror.revision + 1
      /\ n.row = r.row
  <2>1. 0 \in 0..MaxAttempts /\ mirror.revision + 1 \in Nat /\ r.row \in Nat
    BY <1>2, MirrorAssumption DEF TableRows
  <2> QED BY <1>2, <2>1 DEF Intents
<1>4. queue' = [queue EXCEPT ![k] = n] BY DEF Enqueue
<1> HIDE DEF n
<1>5. queue' \in [Keys -> Intents] /\ queue'[k] = n /\ fts' \in [Keys -> TableRows] /\ fts'[k] = r
      /\ \A j \in Keys \ {k} : queue'[j] = queue[j] /\ fts'[j] = fts[j]
  BY <1>1, <1>3, <1>4
<1>6. Queued' = Queued \cup {k} /\ Queued \subseteq Keys
  <2>1. \A j \in Keys : j \in Queued' <=> j \in Queued \cup {k} BY <1>3, <1>5 DEF Queued
  <2>2. Queued' \subseteq Keys /\ Queued \subseteq Keys BY DEF Queued
  <2> QED BY <2>1, <2>2
<1>7. OpMatchesRow'
  BY <1>3, <1>5, <1>6, Types DEF OpMatchesRow, MirrorInv
<1>8. writes' = writes + 1 /\ writes' \in Nat /\ disk' = disk /\ born' = born /\ reader' = reader
      /\ lock' = lock /\ worker' = worker
  BY <1>1 DEF Write, nativeVars
<1>9. TypeOK' BY <1>2, <1>5, <1>7, <1>8, Types, TypesNext DEF MirrorInv
<1>10. RowsOK'
  <2>1. Cardinality(Keys) \in Nat BY MirrorAssumption, FS_CardinalityType
  <2>2. \A j \in Keys : fts[j].row \in Nat BY <1>1 DEF TableRows
  <2> QED BY <1>1, <1>5, <1>8, <2>1, <2>2 DEF RowsOK, MirrorInv, StateOK
<1>11. IncsOK'
  <2>1. \A j \in Queued : queue[j].gen \in Nat BY <1>1, <1>6 DEF Intents
  <2>2. \A j \in Queued' : queue'[j].gen <= mirror'.revision
    BY <1>2, <1>3, <1>5, <1>6, <2>1 DEF IncsOK, MirrorInv, StateOK
  <2> QED BY <1>2, <1>8, <2>2 DEF IncsOK, MirrorInv, StateOK
<1>12. CoverOK' BY <1>2, <1>5, <1>6, <1>8 DEF CoverOK, MirrorInv, StateOK
<1>13. IntentsCover'
  <2>1. NoIntentIsLost'
    BY <1>2, <1>5, <1>6, <1>8 DEF IntentsCover, NoIntentIsLost, MirrorInv, StateOK
  <2>2. IntentsMatchRows'
    BY <1>2, <1>3, <1>5, <1>6 DEF IntentsCover, IntentsMatchRows, MirrorInv, StateOK
  <2> QED BY <2>1, <2>2 DEF IntentsCover
<1>14. TokenOK' /\ RowsReadOK'
  <2>1. reader.token.revision \in Nat BY <1>1 DEF ReaderStates, Tokens
  <2>2. reader.pc # "idle" => mirror'.revision # reader.token.revision
                              /\ reader.token.revision <= mirror'.revision
    BY <1>2, <2>1 DEF MirrorInv, StateOK, TokenOK
  <2>3. TokenOK' BY <1>8, <2>2 DEF MirrorInv, StateOK, TokenOK
  <2>4. RowsReadOK' BY <1>8, <2>2 DEF RowsReadOK
  <2> QED BY <2>3, <2>4
<1>15. LocksOK' BY <1>8 DEF LocksOK, MirrorInv
<1>16. ASSUME NEW w \in Workers PROVE StepOK(w)'
  <2>1. worker'[w] = worker[w] /\ worker[w].items \in SUBSET Items /\ StepOK(w)
    BY <1>1, <1>8 DEF MirrorInv, WorkerStates
  <2>2. ClearAt(w)' BY <1>2, <1>8, <2>1 DEF StepOK, ClearAt
  <2>3. ASSUME NEW i \in worker[w].items, ItemOK(w, i)
        PROVE  ItemOK(w, i)' /\ (Same(w, i)' => Same(w, i) /\ i.key # k)
    <3>1. i.key \in Keys /\ i.gen \in Nat BY <2>1 DEF Items
    <3>2. i.gen <= mirror.revision BY <2>3 DEF ItemOK
    <3>3. Same(w, i)' => i.key # k BY <1>2, <1>3, <1>5, <3>1, <3>2 DEF Same
    <3>4. Same(w, i)' => Same(w, i) BY <1>5, <2>1, <3>1, <3>3 DEF Same
    <3> QED BY <1>2, <1>5, <1>6, <2>1, <2>3, <3>1, <3>2, <3>3, <3>4 DEF ItemOK
  <2>4. BatchAt(w)' BY <1>2, <2>1, <2>3 DEF StepOK, BatchAt, OneItemAKey
  <2>5. AckAt(w)'
    <3>1. ASSUME worker[w].pc = "ack", mirror'.phase = "replay", disk.inc = mirror.inc,
                 NEW i \in worker[w].items, Same(w, i)'
          PROVE  disk.docs[i.key] = fts'[i.key].text
      <4>1. ItemOK(w, i) /\ mirror.phase = "replay"
        BY <1>2, <2>1, <3>1 DEF StepOK, BatchAt
      <4>2. i.key \in Keys BY <2>1 DEF Items
      <4> QED BY <1>5, <2>1, <2>3, <3>1, <4>1, <4>2 DEF StepOK, AckAt
    <3> QED BY <1>2, <1>8, <3>1 DEF AckAt
  <2> QED BY <2>2, <2>4, <2>5 DEF StepOK
<1> QED BY <1>9, <1>10, <1>11, <1>12, <1>13, <1>14, <1>15, <1>16 DEF MirrorInv, StateOK

\* A row is written.
LEMMA KeepUpsertSearchIndex ==
    ASSUME MirrorInv, NEW k \in Keys, NEW t \in Texts, UpsertSearchIndex(k, t)
    PROVE  MirrorInv'
<1> DEFINE rest == [fts EXCEPT ![k] = NoRow]
           row == LastRow(rest) + 1
           r == [row |-> row, text |-> t]
<1>1. fts \in [Keys -> TableRows] /\ writes \in Nat BY Types DEF MirrorInv
<1>2. Cardinality(Keys) \in Nat BY MirrorAssumption, FS_CardinalityType
<1>3. rest \in [Keys -> TableRows] /\ \A j \in Keys : rest[j].row <= Cardinality(Keys) + writes
  BY <1>1, <1>2, Idle DEF MirrorInv, StateOK, RowsOK
<1>4. fts' = [fts EXCEPT ![k] = r] BY DEF UpsertSearchIndex
<1> HIDE DEF rest
<1>5. row \in Nat /\ row # 0 /\ row <= Cardinality(Keys) + writes + 1
  BY <1>1, <1>2, <1>3, ReachesAll
<1>6. Enqueue(k, "upsert", row) BY DEF UpsertSearchIndex, rest
<1> HIDE DEF row
<1>7. r \in TableRows /\ r.row = row /\ r.text # Gone
  BY <1>5, MirrorAssumption DEF TableRows, Contents
<1>8. Write /\ UNCHANGED <<nativeVars, lock, worker, reader, upsets>> BY DEF UpsertSearchIndex
<1> HIDE DEF r
<1> QED BY <1>4, <1>5, <1>6, <1>7, <1>8, Enqueues

\* A row is deleted.
LEMMA KeepDeleteSearchIndex ==
    ASSUME MirrorInv, NEW k \in Keys, DeleteSearchIndex(k) PROVE MirrorInv'
<1>1. Cardinality(Keys) \in Nat /\ writes \in Nat
  BY MirrorAssumption, FS_CardinalityType, Types DEF MirrorInv
<1>2. /\ Write /\ fts' = [fts EXCEPT ![k] = NoRow] /\ Enqueue(k, "delete", NoRow.row)
      /\ UNCHANGED <<nativeVars, lock, worker, reader, upsets>>
  BY Idle DEF DeleteSearchIndex, DeleteIntent
<1>3. NoRow.row <= Cardinality(Keys) + writes + 1 BY <1>1, Idle
<1> QED BY <1>2, <1>3, Idle, Enqueues

-----------------------------------------------------------------------------
\* A step of the reader alone.
LEMMA OnlyReader ==
    ASSUME MirrorInv, UNCHANGED <<tableVars, nativeVars, lock, worker, writes, upsets>>,
           reader' \in ReaderStates, TokenOK', RowsReadOK'
    PROVE  MirrorInv'
<1>1. fts' = fts /\ mirror' = mirror /\ queue' = queue /\ Queued' = Queued /\ disk' = disk
      /\ born' = born /\ worker' = worker /\ lock' = lock /\ writes' = writes
  BY DEF tableVars, nativeVars, Queued
<1>2. TypeOK' BY <1>1, Types, TypesNext, QueueStays DEF MirrorInv
<1>3. RowsOK' /\ IncsOK' /\ CoverOK' /\ IntentsCover'
  BY <1>1 DEF RowsOK, IncsOK, CoverOK, IntentsCover, NoIntentIsLost, IntentsMatchRows,
     MirrorInv, StateOK
<1>4. LocksOK' BY <1>1 DEF LocksOK, MirrorInv
<1>5. \A w \in Workers : StepOK(w)'
  <2>1. \A w, i : ItemOK(w, i)' = ItemOK(w, i) /\ Same(w, i)' = Same(w, i)
    BY <1>1 DEF ItemOK, Same
  <2> QED BY <1>1, <2>1 DEF StepOK, ClearAt, BatchAt, AckAt, OneItemAKey, MirrorInv
<1> QED BY <1>2, <1>3, <1>4, <1>5 DEF MirrorInv, StateOK

\* What a token that is confirmed tells of the state.
LEMMA TokenTells ==
    ASSUME MirrorInv, CurrentToken # NoToken
    PROVE  /\ CurrentToken \in Tokens /\ CurrentToken.revision = mirror.revision
           /\ CurrentToken.inc = mirror.inc /\ mirror.inc # 0 /\ mirror.inc <= born
           /\ disk.inc = mirror.inc /\ mirror.phase = "ready" /\ Queued = {}
<1>1. mirror \in Mirrors BY Types DEF MirrorInv
<1>2. Ready /\ CurrentToken = [revision |-> mirror.revision, epoch |-> mirror.epoch,
                               inc |-> mirror.inc]
      /\ disk.inc = mirror.inc
  BY DEF CurrentToken, Token
<1> QED BY <1>1, <1>2 DEF Ready, Tokens, Mirrors, MirrorInv, StateOK, IncsOK

\* The steps of a search.
LEMMA KeepSearch ==
    ASSUME MirrorInv, Search PROVE MirrorInv'
<1> USE DEF tableVars, nativeVars
<1>1. reader \in ReaderStates /\ disk.docs \in [Keys -> Contents] /\ fts \in [Keys -> TableRows]
  BY Types DEF MirrorInv, Disks
<1>2. TokenOK /\ RowsReadOK BY DEF MirrorInv, StateOK
<1>3. CASE ReadToken
  <2> USE DEF ReadToken
  <2>1. CurrentToken \in Tokens /\ CurrentToken # NoToken BY <1>3, TokenTells
  <2>2. reader' = [IdleReader EXCEPT !.pc = "search", !.token = CurrentToken] BY <1>3
  <2>3. reader' \in ReaderStates /\ reader'.pc = "search" /\ reader'.token = CurrentToken
    BY <2>1, <2>2, Idle DEF ReaderStates, IdleReader
  <2>4. mirror' = mirror /\ Queued' = Queued /\ born' = born BY <1>3 DEF Queued
  <2>5. mirror.revision <= mirror.revision BY Types DEF MirrorInv, Mirrors
  <2>6. TokenOK' BY <1>3, <2>3, <2>4, <2>5, TokenTells DEF TokenOK
  <2>7. RowsReadOK' BY <2>3 DEF RowsReadOK
  <2> QED BY <1>3, <2>3, <2>6, <2>7, OnlyReader
<1>4. CASE SearchMirror
  <2> USE DEF SearchMirror
  <2>1. /\ reader' \in ReaderStates /\ reader'.pc = "verify" /\ reader'.token = reader.token
        /\ reader'.rows = disk.docs /\ reader.pc = "search"
    BY <1>1, <1>4 DEF ReaderStates
  <2>2. mirror' = mirror /\ Queued' = Queued /\ born' = born /\ disk' = disk BY <1>4 DEF Queued
  <2>3. TokenOK' BY <1>2, <2>1, <2>2 DEF TokenOK
  <2>4. RowsReadOK' BY <2>1, <2>2 DEF RowsReadOK
  <2> QED BY <1>4, <2>1, <2>3, <2>4, OnlyReader
<1>5. CASE VerifySearch \/ Confirm \/ Return
  <2>1. \/ reader' = IdleReader
        \/ reader.pc = "verify" /\ reader' = [reader EXCEPT !.pc = "metadata"]
        \/ reader.pc = "confirm" /\ reader' = [reader EXCEPT !.pc = "answered"]
    BY <1>5 DEF VerifySearch, Confirm, Return
  <2>2. UNCHANGED <<tableVars, nativeVars, lock, worker, writes, upsets>>
    BY <1>5 DEF VerifySearch, Confirm, Return
  <2>3. mirror' = mirror /\ Queued' = Queued /\ born' = born /\ disk' = disk /\ fts' = fts
    BY <2>2 DEF Queued
  <2>4. CASE reader' = IdleReader
    <3>1. reader' \in ReaderStates /\ TokenOK' /\ RowsReadOK'
      BY <2>4, Idle DEF TokenOK, RowsReadOK
    <3> QED BY <2>2, <3>1, OnlyReader
  <2>5. CASE reader.pc = "verify" /\ reader' = [reader EXCEPT !.pc = "metadata"]
    <3>1. reader' \in ReaderStates /\ reader'.pc = "metadata" /\ reader'.token = reader.token
          /\ reader'.rows = reader.rows
      BY <1>1, <2>5 DEF ReaderStates
    <3>2. TokenOK' BY <1>2, <2>3, <2>5, <3>1 DEF TokenOK
    <3>3. RowsReadOK' BY <1>2, <2>3, <2>5, <3>1 DEF RowsReadOK
    <3> QED BY <2>2, <3>1, <3>2, <3>3, OnlyReader
  <2>6. CASE reader.pc = "confirm" /\ reader' = [reader EXCEPT !.pc = "answered"]
    <3>1. reader' \in ReaderStates /\ reader'.pc = "answered" /\ reader'.token = reader.token
      BY <1>1, <2>6 DEF ReaderStates
    <3>2. TokenOK' BY <1>2, <2>3, <2>6, <3>1 DEF TokenOK
    <3>3. RowsReadOK' BY <3>1 DEF RowsReadOK
    <3> QED BY <2>2, <3>1, <3>2, <3>3, OnlyReader
  <2> QED BY <2>1, <2>4, <2>5, <2>6
<1>6. CASE ReadMetadata
  <2> USE DEF ReadMetadata
  <2> DEFINE m == [k \in Keys |-> IF reader.rows[k] = Gone THEN Gone ELSE fts[k].text]
  <2>1. m \in [Keys -> Contents] BY <1>1 DEF TableRows, Contents
  <2>2. reader' = [reader EXCEPT !.pc = "confirm", !.meta = m] /\ reader.pc = "metadata"
    BY <1>6
  <2>3. \A k \in Keys : m[k] = IF reader.rows[k] = Gone THEN Gone ELSE fts[k].text OBVIOUS
  <2> HIDE DEF m
  <2>4. /\ reader' \in ReaderStates /\ reader'.pc = "confirm" /\ reader'.token = reader.token
        /\ reader'.rows = reader.rows /\ reader'.meta = m
    BY <1>1, <2>1, <2>2 DEF ReaderStates
  <2>5. mirror' = mirror /\ Queued' = Queued /\ born' = born /\ disk' = disk /\ fts' = fts
    BY <1>6 DEF Queued
  <2>6. TokenOK' BY <1>2, <2>2, <2>4, <2>5 DEF TokenOK
  <2>7. RowsReadOK' BY <1>2, <2>2, <2>3, <2>4, <2>5 DEF RowsReadOK
  <2> QED BY <1>6, <2>4, <2>6, <2>7, OnlyReader
<1> QED BY <1>3, <1>4, <1>5, <1>6 DEF Search

-----------------------------------------------------------------------------
\* The invariant holds at first.
LEMMA MirrorInit ==
    ASSUME Init PROVE MirrorInv
<1> USE DEF Init
<1>1. Cardinality(Keys) \in Nat BY MirrorAssumption, FS_CardinalityType
<1>2. fts \in [Keys -> TableRows] /\ writes \in Nat /\ RowsOK
  <2>1. fts \in [Keys -> {NoRow} \cup [row : 1..Cardinality(Keys), text : Texts]] OBVIOUS
  <2>2. ASSUME NEW r \in {NoRow} \cup [row : 1..Cardinality(Keys), text : Texts]
        PROVE  r \in TableRows /\ (r.row = 0 <=> r.text = Gone) /\ r.row <= Cardinality(Keys) + 0
    BY <1>1, Idle, MirrorAssumption DEF TableRows, Contents
  <2> QED BY <2>1, <2>2 DEF RowsOK
<1>3. LastRow(fts) \in Nat /\ \A k \in Keys : fts[k].row <= LastRow(fts)
  BY <1>2, ReachesAll DEF RowsOK
<1>4. /\ mirror \in Mirrors /\ mirror.revision = 0 /\ mirror.phase = "needs_clear"
      /\ mirror.inc = 0 /\ mirror.after = 0 /\ mirror.through = LastRow(fts)
  BY <1>3, MirrorAssumption DEF Mirrors
<1>5. queue \in [Keys -> Intents] /\ Queued = {} BY Idle DEF Queued
<1>6. disk \in Disks /\ disk.inc = 0 /\ born = 0 BY Idle DEF Disks
<1>7. TypeOK BY <1>2, <1>4, <1>5, <1>6, Idle, Types DEF OpMatchesRow
<1>8. IncsOK BY <1>4, <1>5, <1>6 DEF IncsOK
<1>9. CoverOK
  <2>1. ASSUME NEW k \in Keys, fts[k].text # Gone
        PROVE  0 < fts[k].row /\ fts[k].row <= LastRow(fts)
    BY <1>2, <1>3, <2>1 DEF RowsOK, TableRows
  <2> QED BY <1>4, <2>1 DEF CoverOK
<1>10. IntentsCover BY <1>4, <1>5 DEF IntentsCover, NoIntentIsLost, IntentsMatchRows
<1>11. TokenOK /\ RowsReadOK BY Idle DEF TokenOK, RowsReadOK
<1>12. LocksOK BY MirrorAssumption DEF LocksOK
<1>13. \A w \in Workers : StepOK(w) BY Idle DEF StepOK, ClearAt, BatchAt, AckAt
<1> QED BY <1>2, <1>7, <1>8, <1>9, <1>10, <1>11, <1>12, <1>13 DEF MirrorInv, StateOK

\* Every step keeps the invariant.
LEMMA MirrorStep ==
    ASSUME MirrorInv, [Next]_vars PROVE MirrorInv'
<1>1. CASE UNCHANGED vars
  <2>1. reader' \in ReaderStates /\ TokenOK' /\ RowsReadOK'
    BY <1>1, Types
       DEF vars, tableVars, nativeVars, TokenOK, RowsReadOK, Queued, MirrorInv, StateOK
  <2> QED BY <1>1, <2>1, OnlyReader DEF vars
<1>2. CASE TableWriter
  BY <1>2, KeepUpsertSearchIndex, KeepDeleteSearchIndex, KeepClearSearchIndex DEF TableWriter
<1>3. ASSUME NEW w \in Workers, OpenStep(w) \/ ReplayStep(w) \/ WorkerDies(w) PROVE MirrorInv'
  BY <1>3, KeepOpenStep, KeepWorkerDies, KeepDistrust, KeepAdmitClear, KeepNativeClear,
     KeepStampIncarnation, KeepAckClear, KeepFailClear, KeepSeed, KeepSelect, KeepAdmit,
     KeepNativeReplay, KeepAckItems, KeepFailItems, KeepMarkReady DEF ReplayStep
<1> QED BY <1>1, <1>2, <1>3, KeepRequestRebuild, KeepLoseStorage, KeepRetryDelayEnds, KeepSearch
        DEF Next

\* The invariant of the mirror always holds.
THEOREM MirrorInvariant == Spec => []MirrorInv
<1>1. Init => MirrorInv BY MirrorInit
<1>2. MirrorInv /\ [Next]_vars => MirrorInv' BY MirrorStep
<1> QED BY <1>1, <1>2, PTL DEF Spec

\* No intent is lost and every intent is about the row as it is: IntentsCover, for
\* every number of keys, rows and workers.
THEOREM IntentsAlwaysCover == Spec => []IntentsCover
<1>1. MirrorInv => IntentsCover BY DEF MirrorInv, StateOK
<1> QED BY <1>1, MirrorInvariant, PTL

\* Only Confirm answers a search.
LEMMA OtherStepsDoNotAnswer ==
    ASSUME [Next]_vars, reader.pc = "confirm", reader'.pc = "answered", reader \in ReaderStates
    PROVE  Confirm
<1>1. reader' # reader OBVIOUS
<1>2. Search
  BY <1>1 DEF Next, vars, TableWriter, UpsertSearchIndex, DeleteSearchIndex, ClearSearchIndex,
     RequestRebuild, OpenStep, ReplayStep, WorkerDies, Distrust, AdmitClear, NativeClear,
     StampIncarnation, AckClear, FailClear, Seed, Select, Admit, NativeReplay, AckItems, FailItems,
     MarkReady, LoseStorage, RetryDelayEnds
<1> QED BY <1>2 DEF Search, ReadToken, SearchMirror, VerifySearch, ReadMetadata, Return

\* What Confirm answers is what the table holds at that moment.
LEMMA ConfirmedIsCurrent ==
    ASSUME MirrorInv, [Next]_vars, reader.pc = "confirm", reader'.pc = "answered"
    PROVE  reader.rows = Table /\ reader.meta = Table
<1>1. reader \in ReaderStates /\ fts \in [Keys -> TableRows] /\ disk \in Disks /\ mirror \in Mirrors
  BY Types DEF MirrorInv
<1>2. Confirm BY <1>1, OtherStepsDoNotAnswer
<1>3. CurrentToken = reader.token /\ reader.token.inc # 0
  BY <1>2, Idle DEF Confirm, Confirmed, MirrorInv, StateOK, TokenOK
<1>4. CurrentToken # NoToken BY <1>3 DEF NoToken
<1>5. reader.rows = disk.docs BY <1>3, <1>4, TokenTells DEF MirrorInv, StateOK, RowsReadOK
<1>6. \A k \in Keys : disk.docs[k] = fts[k].text
  BY <1>4, TokenTells DEF MirrorInv, StateOK, IntentsCover, NoIntentIsLost
<1>7. \A k \in Keys : reader.meta[k] = IF reader.rows[k] = Gone THEN Gone ELSE fts[k].text
  BY <1>3, <1>4, TokenTells DEF MirrorInv, StateOK, RowsReadOK
<1>8. reader.rows \in [Keys -> Contents] /\ reader.meta \in [Keys -> Contents]
  BY <1>1 DEF ReaderStates
<1> QED BY <1>5, <1>6, <1>7, <1>8 DEF Table

\* A search the mirror answers returns the rows as they are (AnswersAreCurrent).
THEOREM AnswersStayCurrent == Spec => AnswersAreCurrent
<1>1. MirrorInv /\ [Next]_vars
        => [reader.pc = "confirm" /\ reader'.pc = "answered"
              => reader.rows = Table /\ reader.meta = Table]_vars
  BY ConfirmedIsCurrent
<1> QED BY <1>1, MirrorInvariant, PTL DEF Spec, AnswersAreCurrent

-----------------------------------------------------------------------------
(* VectorViews.                                                            *)
(* Every snapshot is an earlier database, and one whose counter is that of *)
(* the database has the same contents.  So a hint or a binding, which names *)
(* a counter, is right of every database that it can be asked about.       *)

\* A snapshot, and how it relates to the database that it was.
Snapshots == [vectors : Rows, shadow : Rows \cup {None}, model : Models \cup {None},
              meta : Models \cup {None}, tracked : BOOLEAN, revision : Nat,
              commits : Nat, schema : Nat]

\* The shadow, where there is one, mirrors the vectors; triggers need a shadow.
Faithful(d) ==
    /\ d \in Snapshots
    /\ d.shadow = None \/ d.shadow = d.vectors
    /\ d.tracked => d.shadow # None

\* A snapshot is an earlier database; equal counters mean equal contents.
Earlier(d) ==
    /\ d.commits <= db.commits
    /\ d.commits = db.commits => d = db
    /\ d.tracked => /\ db.tracked /\ d.revision <= db.revision
                    /\ d.revision = db.revision => d.shadow = db.shadow

\* Every pinned view is such a snapshot.
SnapshotsOK ==
    /\ Faithful(db)
    /\ view \in [Queries -> Snapshots \cup {None}]
    /\ \A q \in Queries : view[q] # None => Faithful(view[q]) /\ Earlier(view[q])

\* A hint is right of the database that its token names.
HintFor(h, d) ==
    h.token = <<d.commits, d.schema>> /\ h.state # None => h.state = Status(d)

\* Hints are of the past, and right.
HintsOK ==
    \A q \in Queries : hint[q] # None =>
        /\ hint[q].token \in Nat \X Nat /\ hint[q].token[1] <= db.commits
        /\ HintFor(hint[q], db)
        /\ view[q] # None => HintFor(hint[q], view[q])

\* A binding is right of the database that its stamp names.
BindingFor(b, d) ==
    IF b.stamp[3].revision # None
    THEN d.tracked /\ d.revision = b.stamp[1] => d.shadow = b.digest
    ELSE d.commits = b.stamp[1] => d.shadow = b.digest

\* Bindings are of the past, and right.
BindingsOK ==
    \A q \in Queries : binding[q] # None =>
        /\ binding[q].stamp[1] \in Nat
        /\ IF binding[q].stamp[3].revision # None
           THEN db.tracked /\ binding[q].stamp[1] <= db.revision
           ELSE binding[q].stamp[1] <= db.commits
        /\ BindingFor(binding[q], db)
        /\ view[q] # None => BindingFor(binding[q], view[q])

\* The one matrix in memory, cached or retired.
InMemory == IF current # None THEN current.id ELSE retired

\* Only an open view has a lease, and all leases are of the matrix in memory.
LeasesOK ==
    /\ \A q \in Queries : lease[q] # None => view[q] # None
    /\ \A q \in Lent : lease[q].id = InMemory

\* What is a function of the queries stays one.
Shapes ==
    /\ hint = [q \in Queries |-> hint[q]] /\ lease = [q \in Queries |-> lease[q]]
    /\ binding = [q \in Queries |-> binding[q]]

\* The inductive invariant.
ViewsInv == SnapshotsOK /\ HintsOK /\ BindingsOK /\ LeasesOK /\ LeaseIsTheView /\ Shapes

\* A database whose shadow is current says so, for its own model and revision.
LEMMA StatusOf ==
    ASSUME NEW d \in Snapshots, Status(d) # None, Faithful(d)
    PROVE  /\ d.shadow # None /\ d.shadow = d.vectors
           /\ Status(d).model = d.model
           /\ Status(d).revision = IF d.tracked THEN d.revision ELSE None
  BY DEF Status, Usable, Faithful

\* A transaction that moves the counters leaves the snapshots, hints and bindings true.
LEMMA Committed ==
    ASSUME ViewsInv, NEW d, Faithful(d), Commits(d), d.commits = db.commits,
           db.tracked => /\ d.tracked /\ db.revision <= d.revision
                         /\ d.revision = db.revision => d.shadow = db.shadow
    PROVE  ViewsInv'
<1>1. db \in Snapshots /\ d \in Snapshots BY DEF ViewsInv, SnapshotsOK, Faithful
<1>2. /\ db' = [d EXCEPT !.commits = @ + 1]
      /\ view' = view /\ hint' = hint /\ lease' = lease
      /\ current' = current /\ retired' = retired /\ binding' = binding
  BY DEF Commits, cache
<1>3. /\ db' \in Snapshots /\ db'.commits = db.commits + 1 /\ db'.shadow = d.shadow
      /\ db'.vectors = d.vectors /\ db'.tracked = d.tracked /\ db'.revision = d.revision
      /\ db'.schema = d.schema /\ db.commits \in Nat /\ db.revision \in Nat /\ d.revision \in Nat
  BY <1>1, <1>2 DEF Snapshots
<1>4. Faithful(db') BY <1>3 DEF Faithful
<1>5. ASSUME NEW q \in Queries, view[q] # None PROVE Faithful(view[q]) /\ Earlier(view[q])'
  <2>1. Faithful(view[q]) /\ Earlier(view[q]) BY <1>5 DEF ViewsInv, SnapshotsOK
  <2>2. view[q].commits \in Nat /\ view[q].revision \in Nat BY <2>1 DEF Faithful, Snapshots
  <2> QED BY <1>2, <1>3, <2>1, <2>2 DEF Earlier
<1>6. SnapshotsOK' BY <1>2, <1>4, <1>5 DEF ViewsInv, SnapshotsOK
<1>7. HintsOK'
  <2>1. ASSUME NEW q \in Queries, hint[q] # None
        PROVE  /\ hint[q].token \in Nat \X Nat /\ hint[q].token[1] <= db'.commits
               /\ HintFor(hint[q], db')
               /\ view[q] # None => HintFor(hint[q], view[q])
    <3>1. /\ hint[q].token \in Nat \X Nat /\ hint[q].token[1] <= db.commits
          /\ view[q] # None => HintFor(hint[q], view[q])
      BY <2>1 DEF ViewsInv, HintsOK
    <3>2. hint[q].token[1] # db'.commits BY <1>3, <3>1
    <3>3. HintFor(hint[q], db') BY <3>2 DEF HintFor
    <3> QED BY <1>3, <3>1, <3>3
  <2> QED BY <1>2, <2>1 DEF HintsOK
<1>8. BindingsOK'
  <2>1. ASSUME NEW q \in Queries, binding[q] # None
        PROVE  /\ binding[q].stamp[1] \in Nat
               /\ IF binding[q].stamp[3].revision # None
                  THEN db'.tracked /\ binding[q].stamp[1] <= db'.revision
                  ELSE binding[q].stamp[1] <= db'.commits
               /\ BindingFor(binding[q], db')
               /\ view[q] # None => BindingFor(binding[q], view[q])
    <3>1. /\ binding[q].stamp[1] \in Nat
          /\ IF binding[q].stamp[3].revision # None
             THEN db.tracked /\ binding[q].stamp[1] <= db.revision
             ELSE binding[q].stamp[1] <= db.commits
          /\ BindingFor(binding[q], db)
          /\ view[q] # None => BindingFor(binding[q], view[q])
      BY <2>1 DEF ViewsInv, BindingsOK
    <3>2. BindingFor(binding[q], db')
      <4>1. CASE binding[q].stamp[3].revision # None
        <5>1. db'.revision = binding[q].stamp[1] => db'.revision = db.revision
          BY <1>3, <3>1, <4>1
        <5> QED BY <1>3, <3>1, <4>1, <5>1 DEF BindingFor
      <4>2. CASE binding[q].stamp[3].revision = None
        <5>1. db'.commits # binding[q].stamp[1] BY <1>3, <3>1, <4>2
        <5> QED BY <4>2, <5>1 DEF BindingFor
      <4> QED BY <4>1, <4>2
    <3>3. binding[q].stamp[3].revision # None => db'.tracked /\ binding[q].stamp[1] <= db'.revision
      BY <1>3, <3>1
    <3>4. binding[q].stamp[3].revision = None => binding[q].stamp[1] <= db'.commits
      BY <1>3, <3>1
    <3> QED BY <3>1, <3>2, <3>3, <3>4
  <2> QED BY <1>2, <2>1 DEF BindingsOK
<1>9. LeasesOK' /\ LeaseIsTheView' /\ Shapes'
  BY <1>2 DEF ViewsInv, LeasesOK, LeaseIsTheView, Shapes, Lent, InMemory
<1> QED BY <1>6, <1>7, <1>8, <1>9 DEF ViewsInv

\* A vector is stored and mirrored.
LEMMA KeepWrite ==
    ASSUME ViewsInv, NEW p \in ViewPages, NEW v \in Vals \cup {None}, WriteVectors(p, v)
    PROVE  ViewsInv'
<1> DEFINE rev == Bump(db.revision, db.tracked /\ (v # None \/ db.shadow[p] # None))
           d == [db EXCEPT !.vectors[p] = v, !.shadow = Mirrored(p, v), !.revision = rev]
<1>1. db \in Snapshots /\ Faithful(db) BY DEF ViewsInv, SnapshotsOK, Faithful
<1>2. db.vectors \in Rows /\ db.revision \in Nat BY <1>1 DEF Snapshots
<1>3. Commits(d) BY <1>1 DEF WriteVectors, Snapshots
<1>4. rev \in Nat /\ db.revision <= rev
      /\ (db.tracked /\ rev = db.revision => v = None /\ db.shadow[p] = None)
  BY <1>2 DEF Bump
<1> HIDE DEF rev
<1>5. [db.vectors EXCEPT ![p] = v] \in Rows BY <1>2 DEF Rows
<1>6. Mirrored(p, v) = IF db.shadow = None THEN None ELSE [db.vectors EXCEPT ![p] = v]
  BY <1>1 DEF Mirrored, Faithful
<1>7. d \in Snapshots /\ d.shadow = Mirrored(p, v) /\ d.vectors = [db.vectors EXCEPT ![p] = v]
      /\ d.tracked = db.tracked /\ d.revision = rev /\ d.commits = db.commits
  BY <1>1, <1>4, <1>5, <1>6 DEF Snapshots
<1> HIDE DEF d
<1>8. Faithful(d)
  <2>1. None \notin Rows BY ViewsAssumption DEF Rows
  <2> QED BY <1>1, <1>5, <1>6, <1>7, <2>1 DEF Faithful
<1>9. db.tracked => /\ d.tracked /\ db.revision <= d.revision
                    /\ d.revision = db.revision => d.shadow = db.shadow
  <2>1. ASSUME db.tracked, rev = db.revision PROVE d.shadow = db.shadow
    <3>1. db.shadow # None /\ db.shadow = db.vectors BY <1>1, <2>1 DEF Faithful
    <3>2. [db.vectors EXCEPT ![p] = v] = db.vectors BY <1>2, <1>4, <2>1, <3>1 DEF Rows
    <3> QED BY <1>6, <1>7, <3>1, <3>2
  <2> QED BY <1>4, <1>7, <2>1
<1> QED BY <1>3, <1>7, <1>8, <1>9, Committed

\* A model is recorded, the shadow built, the triggers installed.
LEMMA KeepOtherWrites ==
    ASSUME ViewsInv, (\E m \in Models : RecordModel(m)) \/ Build \/ Track
    PROVE  ViewsInv'
<1>1. db \in Snapshots /\ Faithful(db) /\ db.revision \in Nat /\ db.schema \in Nat
  BY DEF ViewsInv, SnapshotsOK, Faithful, Snapshots
<1>2. None \notin Rows BY ViewsAssumption DEF Rows
<1>3. ASSUME NEW m \in Models, RecordModel(m) PROVE ViewsInv'
  <2> DEFINE d == [db EXCEPT !.model = m, !.meta = IF db.model = m THEN @ ELSE None]
  <2>1. Commits(d) BY <1>3 DEF RecordModel
  <2>2. d \in Snapshots /\ d.shadow = db.shadow /\ d.vectors = db.vectors
        /\ d.tracked = db.tracked /\ d.revision = db.revision /\ d.commits = db.commits
    BY <1>1 DEF Snapshots
  <2> HIDE DEF d
  <2>3. Faithful(d) BY <1>1, <2>2 DEF Faithful
  <2>4. db.revision <= d.revision BY <1>1, <2>2
  <2> QED BY <2>1, <2>2, <2>3, <2>4, Committed
<1>4. CASE Build
  <2> DEFINE rev == Bump(db.revision, db.tracked /\ Count(db.vectors) > 0)
             sch == Bump(db.schema, db.shadow = None)
             d == [db EXCEPT !.shadow = db.vectors, !.meta = db.model, !.revision = rev,
                             !.schema = sch]
  <2>1. Commits(d) BY <1>4 DEF Build
  <2>2. rev \in Nat /\ db.revision <= rev /\ sch \in Nat BY <1>1 DEF Bump
  <2> HIDE DEF rev, sch
  <2>3. d \in Snapshots /\ d.shadow = db.vectors /\ d.vectors = db.vectors
        /\ d.tracked = db.tracked /\ d.revision = rev /\ d.commits = db.commits
        /\ db.vectors \in Rows
    BY <1>1, <2>2 DEF Snapshots
  <2> HIDE DEF d
  <2>4. Faithful(d) BY <1>1, <1>2, <2>3 DEF Faithful
  <2>5. db.tracked => d.shadow = db.shadow BY <1>1, <2>3 DEF Faithful
  <2> QED BY <2>1, <2>2, <2>3, <2>4, <2>5, Committed
<1>5. CASE Track
  <2> DEFINE sch == db.schema + 1
             d == [db EXCEPT !.tracked = TRUE, !.schema = sch]
  <2>1. Commits(d) /\ db.shadow # None /\ ~db.tracked BY <1>5 DEF Track
  <2>2. sch \in Nat BY <1>1
  <2> HIDE DEF sch
  <2>3. d \in Snapshots /\ d.shadow = db.shadow /\ d.vectors = db.vectors /\ d.commits = db.commits
    BY <1>1, <2>2 DEF Snapshots
  <2> HIDE DEF d
  <2>4. Faithful(d) BY <1>1, <2>1, <2>3 DEF Faithful
  <2> QED BY <2>1, <2>3, <2>4, Committed
<1> QED BY <1>3, <1>4, <1>5

-----------------------------------------------------------------------------
\* A query pins the database as it is.
LEMMA KeepPin ==
    ASSUME ViewsInv, NEW q \in Queries, Pin(q) PROVE ViewsInv'
<1>1. /\ view[q] = None /\ view' = [view EXCEPT ![q] = db]
      /\ db' = db /\ hint' = hint /\ lease' = lease
      /\ current' = current /\ retired' = retired /\ binding' = binding
  BY DEF Pin, cache
<1>2. Faithful(db) /\ db \in Snapshots /\ view \in [Queries -> Snapshots \cup {None}]
  BY DEF ViewsInv, SnapshotsOK, Faithful
<1>3. view'[q] = db /\ \A r \in Queries \ {q} : view'[r] = view[r] BY <1>1, <1>2
<1>4. Earlier(db)
  BY <1>2 DEF Earlier, Snapshots
<1>5. SnapshotsOK'
  <2>1. view' \in [Queries -> Snapshots \cup {None}] BY <1>1, <1>2
  <2>2. ASSUME NEW r \in Queries, view'[r] # None PROVE Faithful(view'[r]) /\ Earlier(view'[r])
    BY <1>2, <1>3, <1>4, <2>2 DEF ViewsInv, SnapshotsOK
  <2> QED BY <1>1, <1>2, <2>1, <2>2 DEF SnapshotsOK, Earlier
<1>6. HintsOK' BY <1>1, <1>3 DEF ViewsInv, HintsOK
<1>7. BindingsOK' BY <1>1, <1>3 DEF ViewsInv, BindingsOK
<1>8. lease[q] = None BY <1>1 DEF ViewsInv, LeasesOK
<1>9. Lent' = Lent /\ q \notin Lent BY <1>1, <1>8 DEF Lent
<1>10. LeasesOK' BY <1>1, <1>3, <1>8, <1>9 DEF ViewsInv, LeasesOK, InMemory
<1>11. LeaseIsTheView' BY <1>1, <1>3, <1>9 DEF ViewsInv, LeaseIsTheView, Lent
<1>12. Shapes' BY <1>1 DEF ViewsInv, Shapes
<1> QED BY <1>5, <1>6, <1>7, <1>10, <1>11, <1>12 DEF ViewsInv

\* The state a query goes by, hinted or read, is that of its snapshot.
LEMMA StateIsStatus ==
    ASSUME ViewsInv, NEW q \in Queries, Acquiring(q)
    PROVE  /\ State(q) = Status(view[q]) /\ view[q] \in Snapshots /\ Faithful(view[q])
           /\ Earlier(view[q]) /\ Status(view[q]) # None /\ view[q] # None /\ lease[q] = None
           /\ view[q].shadow = view[q].vectors
           /\ State(q).model = view[q].model
           /\ State(q).revision = IF view[q].tracked THEN view[q].revision ELSE None
<1>1. view[q] # None /\ lease[q] = None /\ State(q) # None BY DEF Acquiring, Opening
<1>2. Faithful(view[q]) /\ Earlier(view[q]) BY <1>1 DEF ViewsInv, SnapshotsOK
<1>3. State(q) = Status(view[q])
  <2>1. hint[q] # None => HintFor(hint[q], view[q]) BY <1>1 DEF ViewsInv, HintsOK
  <2> QED BY <1>1, <2>1 DEF HintFor, State, ViewToken
<1>4. view[q] \in Snapshots BY <1>2 DEF Faithful
<1> QED BY <1>1, <1>2, <1>3, <1>4, StatusOf

\* Opening a lease on a state that was read from the snapshot, or on none.
LEMMA HintsAfterOpen ==
    ASSUME ViewsInv, NEW q \in Queries, NEW m, NEW status, Opening(q), Open(q, m, status),
           status = None \/ status = Status(view[q])
    PROVE  HintsOK'
<1>1. view[q] # None /\ Faithful(view[q]) /\ Earlier(view[q]) /\ view[q] \in Snapshots
  BY DEF Opening, ViewsInv, SnapshotsOK, Faithful
<1>2. db' = db /\ view' = view
        /\ hint' = [hint EXCEPT ![q] = [token |-> ViewToken(q), state |-> status]]
  BY DEF Open
<1> DEFINE h == [token |-> ViewToken(q), state |-> status]
<1>3. \A r \in Queries : hint'[r] = IF r = q THEN h ELSE hint[r]
  BY <1>2 DEF ViewsInv, Shapes
<1>4. h.token = <<view[q].commits, view[q].schema>> /\ h.state = status BY DEF ViewToken
<1> HIDE DEF h
<1>5. view[q].commits \in Nat /\ view[q].schema \in Nat BY <1>1 DEF Snapshots
<1>6. h.token \in Nat \X Nat /\ h.token[1] <= db.commits BY <1>1, <1>4, <1>5 DEF Earlier
<1>7. HintFor(h, view[q]) BY <1>4 DEF HintFor
<1>8. HintFor(h, db)
  <2>1. h.token = <<db.commits, db.schema>> => db = view[q] BY <1>1, <1>4 DEF Earlier
  <2> QED BY <1>7, <2>1 DEF HintFor
<1> QED BY <1>2, <1>3, <1>6, <1>7, <1>8 DEF HintsOK, ViewsInv

\* A query binds the matrix it verified against its own snapshot.
LEMMA BindingsAfterBind ==
    ASSUME ViewsInv, NEW q \in Queries, Acquiring(q), UNCHANGED <<db, view>>,
           NEW b, b.stamp = Stamp(q, State(q)), b.digest = view[q].shadow,
           \A r \in Queries : \/ r = q /\ binding'[r] = b
                              \/ r # q /\ binding'[r] \in {binding[r], None}
    PROVE  BindingsOK'
<1>1. /\ State(q) = Status(view[q]) /\ view[q] \in Snapshots /\ Earlier(view[q])
      /\ State(q).revision = IF view[q].tracked THEN view[q].revision ELSE None
  BY StateIsStatus
<1>2. b.stamp[1] = (IF State(q).revision # None THEN State(q).revision ELSE view[q].commits)
      /\ b.stamp[3] = State(q)
  BY DEF Stamp
<1>3. view[q].commits \in Nat /\ view[q].revision \in Nat /\ view[q].tracked \in BOOLEAN
  BY <1>1 DEF Snapshots
<1>4. (State(q).revision # None) = view[q].tracked BY <1>1, <1>3, ViewsAssumption
<1>5. b.stamp[1] \in Nat BY <1>1, <1>2, <1>3, <1>4
<1>6. IF b.stamp[3].revision # None THEN db.tracked /\ b.stamp[1] <= db.revision
      ELSE b.stamp[1] <= db.commits
  BY <1>1, <1>2, <1>4 DEF Earlier
<1>7. BindingFor(b, view[q]) BY <1>1, <1>2, <1>4 DEF BindingFor
<1>8. BindingFor(b, db) BY <1>1, <1>2, <1>4 DEF BindingFor, Earlier
<1>9. ASSUME NEW r \in Queries, binding'[r] # None
      PROVE  /\ binding'[r].stamp[1] \in Nat
             /\ IF binding'[r].stamp[3].revision # None
                THEN db.tracked /\ binding'[r].stamp[1] <= db.revision
                ELSE binding'[r].stamp[1] <= db.commits
             /\ BindingFor(binding'[r], db)
             /\ view[r] # None => BindingFor(binding'[r], view[r])
  <2>1. CASE r = q BY <1>5, <1>6, <1>7, <1>8, <2>1
  <2>2. CASE r # q /\ binding'[r] = binding[r] BY <1>9, <2>2 DEF ViewsInv, BindingsOK
  <2> QED BY <1>9, <2>1, <2>2
<1> QED BY <1>9 DEF BindingsOK

\* Snapshots stay what they are while the database does.
LEMMA KeepSnapshots ==
    ASSUME ViewsInv, UNCHANGED <<db, view>> PROVE SnapshotsOK'
  BY DEF ViewsInv, SnapshotsOK, Earlier

\* A query that opens a lease of rows like those of its snapshot has the right one.
LEMMA LeasesAfterOpen ==
    ASSUME ViewsInv, NEW q \in Queries, NEW m, NEW status, Opening(q), Open(q, m, status),
           m \notin {None, Exact} =>
              /\ m.id = InMemory' /\ m.rows = view[q].shadow /\ m.rows = view[q].vectors
              /\ m.state.model = view[q].model,
           InMemory' = InMemory \/ Lent = {},
           binding' = [r \in Queries |-> binding'[r]]
    PROVE  LeasesOK' /\ LeaseIsTheView' /\ Shapes'
<1>1. lease' = [lease EXCEPT ![q] = m] /\ view' = view /\ view[q] # None /\ lease[q] = None
      /\ hint' = [hint EXCEPT ![q] = [token |-> ViewToken(q), state |-> status]]
  BY DEF Open, Opening
<1>2. \A r \in Queries : lease'[r] = IF r = q THEN m ELSE lease[r]
  BY <1>1 DEF ViewsInv, Shapes
<1>3. \A r \in Queries : r \in Lent' <=> IF r = q THEN m \notin {None, Exact} ELSE r \in Lent
  BY <1>2 DEF Lent
<1>4. Lent' \subseteq Queries BY DEF Lent
<1>5. LeasesOK' BY <1>1, <1>2, <1>3, <1>4 DEF LeasesOK, ViewsInv
<1>6. LeaseIsTheView' BY <1>1, <1>2, <1>3, <1>4 DEF LeaseIsTheView, ViewsInv
<1>7. Shapes' BY <1>1 DEF Shapes, ViewsInv
<1> QED BY <1>5, <1>6, <1>7

\* A view without a matrix scans the table.
LEMMA KeepOpenExact ==
    ASSUME ViewsInv, NEW q \in Queries, OpenExact(q) PROVE ViewsInv'
<1> USE DEF OpenExact
<1>1. UNCHANGED <<db, view>> BY DEF Open
<1>2. BindingsOK' BY <1>1 DEF BindingsOK, ViewsInv, cache
<1>3. InMemory' = InMemory BY DEF InMemory, cache
<1>4. binding' = [r \in Queries |-> binding'[r]] BY DEF cache, ViewsInv, Shapes
<1> QED BY <1>1, <1>2, <1>3, <1>4, KeepSnapshots, HintsAfterOpen, LeasesAfterOpen DEF ViewsInv

\* A matrix is lent on the word of a binding.
LEMMA KeepLeaseBound ==
    ASSUME ViewsInv, NEW q \in Queries, LeaseBound(q) PROVE ViewsInv'
<1>1. Acquiring(q) /\ Opening(q) /\ Attached(q) /\ Open(q, current, State(q)) /\ UNCHANGED cache
  BY DEF LeaseBound, Acquiring
<1>2. UNCHANGED <<db, view>> BY <1>1 DEF Open
<1>3. BindingsOK' BY <1>1, <1>2 DEF BindingsOK, ViewsInv, cache
<1>4. InMemory' = InMemory /\ (current # None => current.id = InMemory')
  BY <1>1 DEF InMemory, cache
<1>5. binding' = [r \in Queries |-> binding'[r]] BY <1>1 DEF cache, ViewsInv, Shapes
<1>6. /\ State(q) = Status(view[q]) /\ view[q] \in Snapshots /\ view[q] # None
      /\ view[q].shadow = view[q].vectors /\ State(q).model = view[q].model
      /\ State(q).revision = IF view[q].tracked THEN view[q].revision ELSE None
  BY <1>1, StateIsStatus
<1>7. current.rows = view[q].shadow
  <2> DEFINE b == binding[q]
  <2>1. b # None /\ b.stamp = Stamp(q, State(q)) /\ b.digest = current.rows BY <1>1 DEF Attached
  <2>2. BindingFor(b, view[q]) BY <1>6, <2>1 DEF ViewsInv, BindingsOK
  <2>3. b.stamp[1] = (IF State(q).revision # None THEN State(q).revision ELSE view[q].commits)
        /\ b.stamp[3] = State(q)
    BY <2>1 DEF Stamp
  <2>4. (State(q).revision # None) => view[q].tracked BY <1>6
  <2> QED BY <1>6, <2>1, <2>2, <2>3, <2>4 DEF BindingFor
<1>8. current.state = State(q) BY <1>1 DEF Attached
<1>9. HintsOK' BY <1>1, <1>6, HintsAfterOpen
<1>10. LeasesOK' /\ LeaseIsTheView' /\ Shapes'
  BY <1>1, <1>4, <1>5, <1>6, <1>7, <1>8, LeasesAfterOpen
<1> QED BY <1>2, <1>3, <1>9, <1>10, KeepSnapshots DEF ViewsInv

\* A matrix is lent after its digest was compared.
LEMMA KeepLeaseVerified ==
    ASSUME ViewsInv, NEW q \in Queries, LeaseVerified(q) PROVE ViewsInv'
<1>1. Acquiring(q) /\ Opening(q) /\ Matches(q) /\ Open(q, current, State(q))
      /\ binding' = [binding EXCEPT ![q] = [Bind(q) EXCEPT !.digest = current.rows]]
      /\ UNCHANGED <<current, retired, built>>
  BY DEF LeaseVerified, Acquiring
<1>2. UNCHANGED <<db, view>> BY <1>1 DEF Open
<1>3. /\ State(q) = Status(view[q]) /\ view[q].shadow = view[q].vectors
      /\ State(q).model = view[q].model
  BY <1>1, StateIsStatus
<1>4. current # None /\ current.state = State(q) /\ current.rows = view[q].shadow
  BY <1>1 DEF Matches
<1> DEFINE b == [Bind(q) EXCEPT !.digest = current.rows]
<1>5. b.stamp = Stamp(q, State(q)) /\ b.digest = view[q].shadow BY <1>4 DEF Bind
<1>6. \A r \in Queries : \/ r = q /\ binding'[r] = b
                         \/ r # q /\ binding'[r] \in {binding[r], None}
  BY <1>1 DEF ViewsInv, Shapes
<1> HIDE DEF b
<1>7. BindingsOK' BY <1>1, <1>2, <1>5, <1>6, BindingsAfterBind
<1>8. InMemory' = InMemory /\ current.id = InMemory' BY <1>1, <1>4 DEF InMemory
<1>9. binding' = [r \in Queries |-> binding'[r]] BY <1>1 DEF ViewsInv, Shapes
<1>10. HintsOK' BY <1>1, <1>3, HintsAfterOpen
<1>11. LeasesOK' /\ LeaseIsTheView' /\ Shapes'
  BY <1>1, <1>3, <1>4, <1>8, <1>9, LeasesAfterOpen
<1> QED BY <1>2, <1>7, <1>10, <1>11, KeepSnapshots DEF ViewsInv

\* What is retired is what was in memory.
LEMMA RetiringIs == Retiring = InMemory
  BY DEF Retiring, InMemory

\* A matrix is loaded, when no other is lent.
LEMMA KeepLeaseLoaded ==
    ASSUME ViewsInv, NEW q \in Queries, LeaseLoaded(q) PROVE ViewsInv'
<1> DEFINE n == [id |-> built + 1, state |-> State(q), rows |-> view[q].shadow]
<1>1. Acquiring(q) /\ Opening(q) /\ ~Held(Retiring) /\ current' = n
      /\ Open(q, n, State(q)) /\ binding' = [Unbound EXCEPT ![q] = Bind(q)] /\ retired' = None
  BY DEF LeaseLoaded, Acquiring
<1>2. UNCHANGED <<db, view>> BY <1>1 DEF Open
<1>3. /\ State(q) = Status(view[q]) /\ view[q].shadow = view[q].vectors
      /\ State(q).model = view[q].model
  BY <1>1, StateIsStatus
<1>4. n.id = built + 1 /\ n.state = State(q) /\ n.rows = view[q].shadow OBVIOUS
<1>5. Lent = {} BY <1>1, RetiringIs DEF Held, ViewsInv, LeasesOK
<1> DEFINE b == Bind(q)
<1>6. b.stamp = Stamp(q, State(q)) /\ b.digest = view[q].shadow BY DEF Bind
<1> HIDE DEF b
<1>7. \A r \in Queries : \/ r = q /\ binding'[r] = b
                         \/ r # q /\ binding'[r] \in {binding[r], None}
  BY <1>1 DEF Unbound, b
<1>8. BindingsOK' BY <1>1, <1>2, <1>6, <1>7, BindingsAfterBind
<1>9. binding' = [r \in Queries |-> binding'[r]] BY <1>1 DEF Unbound
<1>10. n # None => n.id = InMemory' BY <1>1 DEF InMemory
<1> HIDE DEF n
<1>11. HintsOK' BY <1>1, <1>3, HintsAfterOpen
<1>12. LeasesOK' /\ LeaseIsTheView' /\ Shapes'
  BY <1>1, <1>3, <1>4, <1>5, <1>9, <1>10, LeasesAfterOpen
<1> QED BY <1>2, <1>8, <1>11, <1>12, KeepSnapshots DEF ViewsInv

\* A second matrix is refused while the first is lent.
LEMMA KeepExactInstead ==
    ASSUME ViewsInv, NEW q \in Queries, ExactInstead(q) PROVE ViewsInv'
<1>1. Opening(q) /\ Open(q, Exact, None) /\ current' = None /\ retired' = Retiring
      /\ binding' = Unbound
  BY DEF ExactInstead, Acquiring
<1>2. UNCHANGED <<db, view>> BY <1>1 DEF Open
<1>3. \A r \in Queries : binding'[r] \in {None, binding[r]} BY <1>1 DEF Unbound
<1>4. BindingsOK' BY <1>2, <1>3 DEF BindingsOK, ViewsInv
<1>5. InMemory' = InMemory BY <1>1, RetiringIs DEF InMemory
<1>6. binding' = [r \in Queries |-> binding'[r]] BY <1>1 DEF Unbound
<1> QED
  BY <1>1, <1>2, <1>4, <1>5, <1>6, KeepSnapshots, HintsAfterOpen, LeasesAfterOpen DEF ViewsInv

\* A view is closed and its lease given back.
LEMMA KeepCloseView ==
    ASSUME ViewsInv, NEW q \in Queries, CloseView(q) PROVE ViewsInv'
<1>1. /\ view' = [view EXCEPT ![q] = None] /\ lease' = [lease EXCEPT ![q] = None]
      /\ db' = db /\ hint' = hint /\ current' = current /\ retired' = retired /\ binding' = binding
  BY DEF CloseView, cache
<1>2. view \in [Queries -> Snapshots \cup {None}] BY DEF ViewsInv, SnapshotsOK
<1>3. \A r \in Queries : /\ view'[r] = IF r = q THEN None ELSE view[r]
                         /\ lease'[r] = IF r = q THEN None ELSE lease[r]
  BY <1>1, <1>2 DEF ViewsInv, Shapes
<1>4. Lent' = Lent \ {q}
  <2>1. \A r \in Queries : r \in Lent' <=> r \in Lent \ {q} BY <1>3 DEF Lent
  <2>2. Lent' \subseteq Queries /\ Lent \subseteq Queries BY DEF Lent
  <2> QED BY <2>1, <2>2
<1>5. Lent \subseteq Queries BY DEF Lent
<1>6. SnapshotsOK' BY <1>1, <1>2, <1>3 DEF ViewsInv, SnapshotsOK, Earlier
<1>7. HintsOK' BY <1>1, <1>3 DEF ViewsInv, HintsOK
<1>8. BindingsOK' BY <1>1, <1>3 DEF ViewsInv, BindingsOK
<1>9. LeasesOK' BY <1>1, <1>3, <1>4, <1>5 DEF ViewsInv, LeasesOK, InMemory
<1>10. LeaseIsTheView' BY <1>1, <1>3, <1>4, <1>5 DEF ViewsInv, LeaseIsTheView
<1>11. Shapes' BY <1>1 DEF ViewsInv, Shapes
<1> QED BY <1>6, <1>7, <1>8, <1>9, <1>10, <1>11 DEF ViewsInv

\* A hint, a binding or the cached matrix is forgotten.
LEMMA KeepForgetting ==
    ASSUME ViewsInv, NEW q \in Queries, EndLoop(q) \/ Evict(q) \/ UNCHANGED viewVars
    PROVE  ViewsInv'
<1>1. /\ db' = db /\ view' = view /\ lease' = lease /\ current' = current /\ retired' = retired
      /\ hint' = hint \/ hint' = [hint EXCEPT ![q] = None]
      /\ binding' = binding \/ binding' = [binding EXCEPT ![q] = None]
  BY DEF EndLoop, Evict, viewVars, cache
<1>2. \A r \in Queries : hint'[r] \in {None, hint[r]} /\ binding'[r] \in {None, binding[r]}
  BY <1>1 DEF ViewsInv, Shapes
<1>3. SnapshotsOK' BY <1>1, KeepSnapshots
<1>4. HintsOK' BY <1>1, <1>2 DEF ViewsInv, HintsOK
<1>5. BindingsOK' BY <1>1, <1>2 DEF ViewsInv, BindingsOK
<1>6. LeasesOK' /\ LeaseIsTheView'
  BY <1>1 DEF ViewsInv, LeasesOK, LeaseIsTheView, InMemory, Lent
<1>7. Shapes' BY <1>1 DEF ViewsInv, Shapes
<1> QED BY <1>3, <1>4, <1>5, <1>6, <1>7 DEF ViewsInv

\* Stuttering.
LEMMA KeepUnchanged ==
    ASSUME ViewsInv, UNCHANGED viewVars PROVE ViewsInv'
  BY
     DEF viewVars, cache, ViewsInv, SnapshotsOK, HintsOK, BindingsOK, LeasesOK, LeaseIsTheView,
       Shapes,
     Earlier, InMemory, Lent

\* The invariant holds at first.
LEMMA ViewsStart ==
    ASSUME ViewsInit PROVE ViewsInv
<1> USE DEF ViewsInit
<1>1. /\ view = [q \in Queries |-> None] /\ hint = [q \in Queries |-> None]
      /\ lease = [q \in Queries |-> None] /\ binding = [q \in Queries |-> None]
  OBVIOUS
<1>2. Empty \in Rows /\ None \notin Rows BY ViewsAssumption DEF Empty, Rows
<1>3. Faithful(db)
  <2>1. PICK m \in Models \cup {None}, shadow \in {Empty, None}, tracked \in BOOLEAN :
          /\ tracked => shadow # None
          /\ db = [vectors |-> Empty, shadow |-> shadow, model |-> m,
                   meta |-> IF shadow = None THEN None ELSE m,
                   tracked |-> tracked, revision |-> 0, commits |-> 0, schema |-> 0]
    OBVIOUS
  <2>2. db \in Snapshots BY <1>2, <2>1 DEF Snapshots
  <2> QED BY <2>1, <2>2 DEF Faithful
<1>4. Lent = {} BY <1>1 DEF Lent
<1> QED
  BY <1>1, <1>3, <1>4
     DEF ViewsInv, SnapshotsOK, HintsOK, BindingsOK, LeasesOK, LeaseIsTheView, Shapes

\* All leases are of one matrix.
LEMMA OneMatrixFollows ==
    ASSUME ViewsInv PROVE OneMatrix
<1> DEFINE ids == {lease[q].id : q \in Lent} \cup (IF current = None THEN {} ELSE {current.id})
<1>1. ids \subseteq {InMemory} BY DEF ViewsInv, LeasesOK, InMemory
<1>2. IsFiniteSet({InMemory}) /\ Cardinality({InMemory}) = 1 BY FS_Singleton
<1> HIDE DEF ids
<1>3. Cardinality(ids) <= 1 BY <1>1, <1>2, FS_Subset
<1> QED BY <1>3 DEF OneMatrix, ids

\* The invariant of the views always holds.
THEOREM ViewsInductive == ViewsSpec => []ViewsInv
<1>1. ASSUME ViewsInv, [ViewsNext]_viewVars PROVE ViewsInv'
  BY <1>1, KeepUnchanged, KeepWrite, KeepOtherWrites, KeepPin, KeepOpenExact, KeepLeaseBound,
     KeepLeaseVerified, KeepLeaseLoaded, KeepExactInstead, KeepCloseView, KeepForgetting DEF ViewsNext
<1> QED BY <1>1, ViewsStart, PTL DEF ViewsSpec

\* A lent matrix is the table of the view that borrowed it, and one matrix at most is
\* in memory: ViewsAreSound, for every number of pages, encoders and queries.
THEOREM ViewsAreAlwaysSound == ViewsSpec => []ViewsAreSound
<1>1. ViewsInv => ViewsAreSound BY OneMatrixFollows DEF ViewsInv, ViewsAreSound
<1> QED BY <1>1, ViewsInductive, PTL

-----------------------------------------------------------------------------
(* IndexPublication.                                                       *)
(* Whoever holds the index lock is alone with the stores, and a batch      *)
(* keeps its pages owed until it ends.  So a process can be asked, at      *)
(* every place of its job, which of the pages it goes by are still the     *)
(* canonical ones, and which stores it has yet to write.  A process that   *)
(* leaves a store behind says so in the history.                           *)

\* Where a process is in its job, spelled out.
Placed(r) ==
    \/ r.job = "idle" /\ r.at = 1
    \/ r.job = "update" /\ r.at \in {1, 2, 3, 4, 5, 6, 7, 8}
    \/ r.job = "topology" /\ r.at \in {1, 2, 3, 4, 5, 6}
    \/ r.job = "rebuild" /\ r.at \in {1, 2, 3, 4, 5, 6, 7, 8, 9}
    \/ r.job = "heal" /\ r.at \in {1, 2, 3, 4, 5}
    \/ r.job = "cluster" /\ r.at \in {1, 2, 3, 4}
    \/ r.job = "repair" /\ r.at \in {1, 2}
PlaceOf(r) == Steps[r.job][r.at]
Jobs == {"idle", "update", "topology", "rebuild", "heal", "cluster", "repair"}
Publishers == {"update", "topology", "rebuild", "cluster"}
RefreshPlaces == {"nodes", "edges", "state"}
Batches == SUBSET (Pages \cup {Sys})
Works == [job : Jobs, at : Nat, batch : Batches, data : Nodes, claims : Nodes,
          gen : Nat, stamp : Nat, rewrite : BOOLEAN]

\* What a process may rely on: pages of its batch and completed pages do not
\* change while it publishes them.
Settled(r) == {p \in Pages : p \notin owed \/ p \in r.batch}
Locked(r) == r.job \in Publishers /\ PlaceOf(r) \notin {"lock", "end"}
BeforeWrite(r) == \/ PlaceOf(r) \in {"sql", "claims", "pages"}
                  \/ r.job \in Publishers /\ PlaceOf(r) \in {"sync", "write"}
                  \/ r.job = "rebuild" /\ PlaceOf(r) = "graph"
Claiming(r) == \/ r.job = "update" /\ PlaceOf(r) \notin {"lock", "end"}
               \/ r.job = "rebuild" /\ PlaceOf(r) \in {"sync", "graph"}
AfterWrite(r) == \/ r.job \in Publishers /\ PlaceOf(r) \in RefreshPlaces
                 \/ r.job = "update" /\ PlaceOf(r) = "graph"
Graphed(r) == \/ r.job = "rebuild" /\ PlaceOf(r) \in {"write", "nodes", "edges", "state", "end"}
              \/ r.job = "update" /\ PlaceOf(r) = "end"

\* A refresh that works for the index.json that is there.
Timely(r) == PlaceOf(r) \in RefreshPlaces /\ (r.job = "heal" => r.gen = index.gen)

\* A repair or a heal with what it read of index.json.
Reader(r) == \/ r.job = "repair" /\ PlaceOf(r) = "sync"
             \/ r.job = "heal" /\ PlaceOf(r) \in RefreshPlaces

WhoOwns(x, r) ==
    /\ (x # "consumer" \/ r.job \notin {"update", "rebuild"}) => r.batch = {}
    /\ Locked(r) => indexLock = x
    /\ PlaceOf(r) = "end" /\ ~(r.batch \subseteq {Sys}) => indexLock = x
WhatItHas(r) ==
    /\ r.job = "update" /\ PlaceOf(r) = "lock"
           => \A p \in Pages : p \in r.batch => r.data[p] = canon[p]
    /\ BeforeWrite(r) => \A p \in Settled(r) : r.data[p] = canon[p]
    /\ Claiming(r) => \A p \in Settled(r) : r.claims[p] = canon[p]
    /\ r.job = "update" /\ PlaceOf(r) \in {"sql", "write"}
           => \A p \in Pages : p \notin r.batch => r.data[p] = index.nodes[p]
    /\ r.job \in {"topology", "cluster"} /\ PlaceOf(r) \in {"pages", "write"}
           => r.data = index.nodes
    /\ Reader(r) /\ r.gen = index.gen => r.data = index.nodes
WhatItDid(r) ==
    /\ AfterWrite(r) => r.data = index.nodes
    /\ AfterWrite(r) \/ (r.job \in Publishers /\ PlaceOf(r) = "end")
           => \A p \in Pages : p \in r.batch => index.nodes[p] = canon[p]
    /\ Graphed(r) => \A p \in Pages : p \in r.batch => graph[p] = canon[p]
    /\ Timely(r) /\ PlaceOf(r) # "nodes" => r.stamp = index.gen
ProcessInv(x, r) ==
    /\ Placed(r) /\ r \in Works /\ r.gen <= index.gen /\ r.stamp <= index.gen
    /\ WhoOwns(x, r) /\ WhatItHas(r) /\ WhatItDid(r)

IndexTyped ==
    /\ canon \in Nodes /\ owed \in Batches
    /\ index \in [gen : Nat, nodes : Nodes, dirty : BOOLEAN]
    /\ ftsRows \in Nodes /\ graph \in Nodes
    /\ projected \in [nodes : Nodes, edges : SUBSET Pages, stamp : Nat,
                      count : {Cardinality(e) : e \in SUBSET Pages}, digest : SUBSET Pages]
    /\ indexLock \in Procs \cup {Free}
    /\ DOMAIN proc = Procs
    /\ projected.stamp <= index.gen

StoresHold == \A p \in Pages \ owed : index.nodes[p] = canon[p] /\ graph[p] = canon[p]

\* The full-text table is that of index.json or of who is publishing it.
Half(r) == \/ r.job = "update" /\ PlaceOf(r) = "write"
           \/ r.job = "rebuild" /\ PlaceOf(r) \in {"sync", "graph", "write"}
FtsHolds ==
    "fts" \notin torn =>
        /\ (\A x \in Procs : ~Half(proc[x])) => ftsRows = index.nodes
        /\ \A x \in Procs :
             /\ Half(proc[x]) /\ PlaceOf(proc[x]) # "sync" => ftsRows = proc[x].data
             /\ Half(proc[x]) /\ PlaceOf(proc[x]) = "sync" =>
                    \A p \in Pages : ftsRows[p] \in {index.nodes[p], proc[x].data[p]}

\* A refresh that was overtaken and cannot end without saying so.
Doomed(r) == /\ PlaceOf(r) = "state" /\ r.rewrite /\ r.job = "heal" /\ r.gen # index.gen
Recording(r) == Timely(r) /\ PlaceOf(r) = "state" /\ r.rewrite
Rewritten(r) == /\ Timely(r) /\ PlaceOf(r) # "nodes"
                /\ PlaceOf(r) = "state" \/ ~r.rewrite
EdgesAreTrue ==
    (\A x \in Procs : ~Doomed(proc[x])) =>
        /\ \A x \in Procs : Rewritten(proc[x]) => projected.edges = Edges(index.nodes)
        /\ \/ projected.edges = projected.digest
              /\ projected.count = Cardinality(projected.digest)
           \/ \E x \in Procs : Recording(proc[x])
        /\ Current => projected.edges = Edges(index.nodes)
NodesAreTrue ==
    /\ Current => projected.nodes = index.nodes
    /\ \A x \in Procs : Timely(proc[x]) /\ PlaceOf(proc[x]) # "nodes"
           => projected.nodes = index.nodes
RowsHold == "rows" \notin torn => EdgesAreTrue /\ NodesAreTrue

IndexInv == /\ IndexTyped /\ StoresHold /\ FtsHolds /\ RowsHold
            /\ \A x \in Procs : ProcessInv(x, proc[x])

\* What the literal table of steps says, place by place.
LEMMA PlacesOfJobs ==
    ASSUME NEW r, Placed(r)
    PROVE  \/ r.job = "idle" /\ r.at = 1 /\ PlaceOf(r) = "idle"
           \/ r.job = "update" /\ r.at = 1 /\ PlaceOf(r) = "lock"
           \/ r.job = "update" /\ r.at = 2 /\ PlaceOf(r) = "sql"
           \/ r.job = "update" /\ r.at = 3 /\ PlaceOf(r) = "write"
           \/ r.job = "update" /\ r.at = 4 /\ PlaceOf(r) = "nodes"
           \/ r.job = "update" /\ r.at = 5 /\ PlaceOf(r) = "edges"
           \/ r.job = "update" /\ r.at = 6 /\ PlaceOf(r) = "state"
           \/ r.job = "update" /\ r.at = 7 /\ PlaceOf(r) = "graph"
           \/ r.job = "update" /\ r.at = 8 /\ PlaceOf(r) = "end"
           \/ r.job = "topology" /\ r.at = 1 /\ PlaceOf(r) = "lock"
           \/ r.job = "topology" /\ r.at = 2 /\ PlaceOf(r) = "write"
           \/ r.job = "topology" /\ r.at = 3 /\ PlaceOf(r) = "nodes"
           \/ r.job = "topology" /\ r.at = 4 /\ PlaceOf(r) = "edges"
           \/ r.job = "topology" /\ r.at = 5 /\ PlaceOf(r) = "state"
           \/ r.job = "topology" /\ r.at = 6 /\ PlaceOf(r) = "end"
           \/ r.job = "rebuild" /\ r.at = 1 /\ PlaceOf(r) = "lock"
           \/ r.job = "rebuild" /\ r.at = 2 /\ PlaceOf(r) = "claims"
           \/ r.job = "rebuild" /\ r.at = 3 /\ PlaceOf(r) = "sync"
           \/ r.job = "rebuild" /\ r.at = 4 /\ PlaceOf(r) = "graph"
           \/ r.job = "rebuild" /\ r.at = 5 /\ PlaceOf(r) = "write"
           \/ r.job = "rebuild" /\ r.at = 6 /\ PlaceOf(r) = "nodes"
           \/ r.job = "rebuild" /\ r.at = 7 /\ PlaceOf(r) = "edges"
           \/ r.job = "rebuild" /\ r.at = 8 /\ PlaceOf(r) = "state"
           \/ r.job = "rebuild" /\ r.at = 9 /\ PlaceOf(r) = "end"
           \/ r.job = "heal" /\ r.at = 1 /\ PlaceOf(r) = "load"
           \/ r.job = "heal" /\ r.at = 2 /\ PlaceOf(r) = "nodes"
           \/ r.job = "heal" /\ r.at = 3 /\ PlaceOf(r) = "edges"
           \/ r.job = "heal" /\ r.at = 4 /\ PlaceOf(r) = "state"
           \/ r.job = "heal" /\ r.at = 5 /\ PlaceOf(r) = "end"
           \/ r.job = "cluster" /\ r.at = 1 /\ PlaceOf(r) = "lock"
           \/ r.job = "cluster" /\ r.at = 2 /\ PlaceOf(r) = "pages"
           \/ r.job = "cluster" /\ r.at = 3 /\ PlaceOf(r) = "write"
           \/ r.job = "cluster" /\ r.at = 4 /\ PlaceOf(r) = "end"
           \/ r.job = "repair" /\ r.at = 1 /\ PlaceOf(r) = "sync"
           \/ r.job = "repair" /\ r.at = 2 /\ PlaceOf(r) = "end"
<1>1. CASE r.job = "idle"
  BY <1>1 DEF Placed, PlaceOf, Steps
<1>2. CASE r.job = "update"
  BY <1>2 DEF Placed, PlaceOf, Steps
<1>3. CASE r.job = "topology"
  BY <1>3 DEF Placed, PlaceOf, Steps
<1>4. CASE r.job = "rebuild"
  BY <1>4 DEF Placed, PlaceOf, Steps
<1>5. CASE r.job = "heal"
  BY <1>5 DEF Placed, PlaceOf, Steps
<1>6. CASE r.job = "cluster"
  BY <1>6 DEF Placed, PlaceOf, Steps
<1>7. CASE r.job = "repair"
  BY <1>7 DEF Placed, PlaceOf, Steps
<1> QED BY <1>1, <1>2, <1>3, <1>4, <1>5, <1>6, <1>7 DEF Placed

\* Where the next step of a job is.
LEMMA Moved ==
    ASSUME NEW r, NEW s, Placed(r), PlaceOf(r) \notin {"idle", "end"},
           s.job = r.job, s.at = r.at + 1
    PROVE  /\ Placed(s)
           /\ r.job = "update" => r.at \in 1 .. 7
           /\ PlaceOf(r) = "lock" =>
                \/ r.job = "update" /\ PlaceOf(s) = "sql"
                \/ r.job = "topology" /\ PlaceOf(s) = "write"
                \/ r.job = "rebuild" /\ PlaceOf(s) = "claims"
                \/ r.job = "cluster" /\ PlaceOf(s) = "pages"
           /\ PlaceOf(r) = "sql" => r.job = "update" /\ PlaceOf(s) = "write"
           /\ PlaceOf(r) = "claims" => r.job = "rebuild" /\ PlaceOf(s) = "sync"
           /\ PlaceOf(r) = "pages" => r.job = "cluster" /\ PlaceOf(s) = "write"
           /\ PlaceOf(r) = "load" => r.job = "heal" /\ PlaceOf(s) = "nodes"
           /\ PlaceOf(r) = "sync" =>
                \/ r.job = "rebuild" /\ PlaceOf(s) = "graph"
                \/ r.job = "repair" /\ PlaceOf(s) = "end"
           /\ PlaceOf(r) = "graph" =>
                \/ r.job = "rebuild" /\ PlaceOf(s) = "write"
                \/ r.job = "update" /\ PlaceOf(s) = "end"
           /\ PlaceOf(r) = "write" =>
                \/ r.job \in {"update", "topology", "rebuild"} /\ PlaceOf(s) = "nodes"
                \/ r.job = "cluster" /\ PlaceOf(s) = "end"
           /\ PlaceOf(r) \in RefreshPlaces => r.job \in {"update", "topology", "rebuild", "heal"}
           /\ PlaceOf(r) = "nodes" => PlaceOf(s) = "edges"
           /\ PlaceOf(r) = "edges" => PlaceOf(s) = "state"
           /\ PlaceOf(r) = "state" =>
                \/ r.job = "update" /\ PlaceOf(s) = "graph"
                \/ r.job # "update" /\ PlaceOf(s) = "end"
<1>1. Placed(s)
  BY PlacesOfJobs DEF Placed
<1>2. CASE r.job = "update"
  BY <1>1, <1>2, PlacesOfJobs DEF RefreshPlaces
<1>3. CASE r.job = "rebuild"
  BY <1>1, <1>3, PlacesOfJobs DEF RefreshPlaces
<1>4. CASE r.job \notin {"update", "rebuild"}
  BY <1>1, <1>4, PlacesOfJobs DEF RefreshPlaces
<1> QED BY <1>1, <1>2, <1>3, <1>4

\* Where a process lands that skips the rest of its job.
LEMMA Skipped ==
    /\ \A j \in Jobs : Steps[j][Len(Steps[j])] = IF j = "idle" THEN "idle" ELSE "end"
    /\ \A r : r.job \in Jobs \ {"idle"} /\ r.at = Len(Steps[r.job])
              => Placed(r) /\ PlaceOf(r) = "end"
    /\ \A r : r.job = "update" /\ r.at = Len(Steps.update) - 1
              => Placed(r) /\ PlaceOf(r) = "graph"
<1>1. /\ Len(Steps["idle"]) = 1 /\ Len(Steps["update"]) = 8 /\ Len(Steps["topology"]) = 6
      /\ Len(Steps["rebuild"]) = 9 /\ Len(Steps["heal"]) = 5 /\ Len(Steps["cluster"]) = 4
      /\ Len(Steps["repair"]) = 2
  BY DEF Steps
<1>2. \A j \in Jobs : Steps[j][Len(Steps[j])] = IF j = "idle" THEN "idle" ELSE "end"
  <2>1. /\ Steps["idle"][1] = "idle" /\ Steps["update"][8] = "end" /\ Steps["topology"][6] = "end"
        /\ Steps["rebuild"][9] = "end" /\ Steps["heal"][5] = "end" /\ Steps["cluster"][4] = "end"
        /\ Steps["repair"][2] = "end" /\ Steps["update"][7] = "graph"
    BY DEF Steps
  <2> QED BY <1>1, <2>1 DEF Jobs
<1>3. \A r : r.job \in Jobs \ {"idle"} /\ r.at = Len(Steps[r.job])
              => Placed(r) /\ PlaceOf(r) = "end"
  <2> SUFFICES ASSUME NEW r, r.job \in Jobs \ {"idle"}, r.at = Len(Steps[r.job])
               PROVE  Placed(r) /\ PlaceOf(r) = "end"
    OBVIOUS
  <2>1. Placed(r)
    BY <1>1 DEF Jobs, Placed
  <2>2. PlaceOf(r) = "end"
    BY <1>2 DEF PlaceOf
  <2> QED BY <2>1, <2>2
<1>4. \A r : r.job = "update" /\ r.at = Len(Steps.update) - 1
              => Placed(r) /\ PlaceOf(r) = "graph"
  <2> SUFFICES ASSUME NEW r, r.job = "update", r.at = Len(Steps.update) - 1
               PROVE  Placed(r) /\ PlaceOf(r) = "graph"
    OBVIOUS
  <2>1. r.at = 7
    BY <1>1
  <2>2. Placed(r)
    BY <2>1 DEF Placed
  <2> QED BY <2>1, <2>2, PlacesOfJobs
<1> QED BY <1>2, <1>3, <1>4

\* The records and the facts of one process.
LEMMA OfProcess ==
    ASSUME IndexInv, NEW x \in Procs
    PROVE  /\ ProcessInv(x, proc[x]) /\ Placed(proc[x]) /\ proc[x] \in Works
           /\ Pc(x) = PlaceOf(proc[x])
           /\ x # Free
           /\ \A y \in Procs : Locked(proc[x]) /\ Locked(proc[y]) => y = x
<1>1. \A y \in Procs : ProcessInv(y, proc[y])
  BY DEF IndexInv
<1>2. x # Free
  BY DEF Procs, Free
<1>3. \A y \in Procs : Locked(proc[x]) /\ Locked(proc[y]) => y = x
  BY <1>1 DEF ProcessInv, WhoOwns
<1> QED BY <1>1, <1>2, <1>3 DEF ProcessInv, Pc, PlaceOf

\* A process that does not move keeps its facts while another one takes or
\* returns the lock, and while pages become owed, or are completed by who
\* holds the lock.
LEMMA OneMoves ==
    ASSUME IndexInv, NEW x \in Procs,
           DOMAIN proc' = Procs, \A y \in Procs \ {x} : proc'[y] = proc[y],
           canon' = canon, index' = index, graph' = graph,
           (owed \ {Sys} \subseteq owed') \/ indexLock = x,
           indexLock' = indexLock \/ indexLock \in {Free, x},
           ProcessInv(x, proc[x])'
    PROVE  \A y \in Procs : ProcessInv(y, proc[y])'
<1> SUFFICES ASSUME NEW y \in Procs, y # x
             PROVE  ProcessInv(y, proc[y])'
  OBVIOUS
<1> PICK r : r = proc[y]
  OBVIOUS
<1>1. proc'[y] = r
  OBVIOUS
<1>2. ProcessInv(y, r) /\ y # Free
  BY OfProcess
<1>3. Locked(r) => indexLock' = y
  BY <1>2 DEF ProcessInv, WhoOwns
<1>4. WhoOwns(y, r)'
  BY <1>1, <1>2, <1>3 DEF ProcessInv, WhoOwns
<1>5. (BeforeWrite(r) \/ Claiming(r)) => Locked(r)
  BY <1>2, PlacesOfJobs DEF ProcessInv, BeforeWrite, Claiming, Locked, Publishers
<1>6. (BeforeWrite(r) \/ Claiming(r)) => \A p \in Pages : p \notin owed' => p \notin owed
  <2> SUFFICES ASSUME BeforeWrite(r) \/ Claiming(r), NEW p \in Pages, p \notin owed'
               PROVE  p \notin owed
    OBVIOUS
  <2>1. indexLock = y
    BY <1>2, <1>5 DEF ProcessInv, WhoOwns
  <2> QED BY <2>1, IndexAssumption
<1>7. WhatItHas(r)'
  <2>1. BeforeWrite(r) => \A p \in Settled(r)' : r.data[p] = canon[p]
    BY <1>2, <1>6, <1>1 DEF ProcessInv, WhatItHas, Settled
  <2>2. Claiming(r) => \A p \in Settled(r)' : r.claims[p] = canon[p]
    BY <1>2, <1>6, <1>1 DEF ProcessInv, WhatItHas, Settled
  <2> QED BY <1>1, <1>2, <2>1, <2>2 DEF ProcessInv, WhatItHas, Reader
<1>8. WhatItDid(r)'
  BY <1>1, <1>2 DEF ProcessInv, WhatItDid, Timely
<1> QED BY <1>1, <1>2, <1>4, <1>7, <1>8 DEF ProcessInv

\* The full-text table while a process takes a step that has no part in it.
LEMMA FtsStay ==
    ASSUME IndexInv, NEW x \in Procs,
           \A y \in Procs \ {x} : proc'[y] = proc[y],
           index' = index, ftsRows' = ftsRows,
           "fts" \in torn => "fts" \in torn',
           "fts" \notin torn' => (Half(proc'[x]) <=> Half(proc[x])),
           Half(proc'[x]) => /\ proc'[x].data = proc[x].data
                             /\ (PlaceOf(proc'[x]) = "sync") <=> (PlaceOf(proc[x]) = "sync")
    PROVE  FtsHolds'
<1> SUFFICES ASSUME "fts" \notin torn'
             PROVE  /\ (\A y \in Procs : ~Half(proc'[y])) => ftsRows = index.nodes
                    /\ \A y \in Procs :
                         /\ Half(proc'[y]) /\ PlaceOf(proc'[y]) # "sync" => ftsRows = proc'[y].data
                         /\ Half(proc'[y]) /\ PlaceOf(proc'[y]) = "sync" =>
                                \A p \in Pages : ftsRows[p] \in {index.nodes[p], proc'[y].data[p]}
  BY DEF FtsHolds, Half, PlaceOf
<1> PICK r, s : r = proc[x] /\ s = proc'[x]
  OBVIOUS
<1>0. "fts" \notin torn /\ FtsHolds
  BY DEF IndexInv
<1>1. (\A y \in Procs : ~Half(proc'[y])) => ftsRows = index.nodes
  BY <1>0 DEF FtsHolds
<1>2. ASSUME NEW y \in Procs, Half(proc'[y])
      PROVE  /\ PlaceOf(proc'[y]) # "sync" => ftsRows = proc'[y].data
             /\ PlaceOf(proc'[y]) = "sync" =>
                    \A p \in Pages : ftsRows[p] \in {index.nodes[p], proc'[y].data[p]}
  <2>1. CASE y = x
    BY <1>0, <1>2, <2>1 DEF FtsHolds
  <2>2. CASE y # x
    BY <1>0, <1>2, <2>2 DEF FtsHolds
  <2> QED BY <2>1, <2>2
<1> QED BY <1>1, <1>2

\* The rows of the readers while a process takes a step that has no part in
\* them and was not between its edges and its state row.
LEMMA RowsStay ==
    ASSUME IndexInv, NEW x \in Procs,
           \A y \in Procs \ {x} : proc'[y] = proc[y],
           index' = index, projected' = projected,
           "rows" \in torn => "rows" \in torn',
           "rows" \notin torn' => ~Recording(proc[x]) /\ ~Doomed(proc[x]),
           PlaceOf(proc'[x]) \notin {"edges", "state"}
    PROVE  RowsHold'
<1> SUFFICES ASSUME "rows" \notin torn'
             PROVE  EdgesAreTrue' /\ NodesAreTrue'
  BY DEF RowsHold
<1>0. EdgesAreTrue /\ NodesAreTrue /\ ~Recording(proc[x]) /\ ~Doomed(proc[x])
  BY DEF IndexInv, RowsHold
<1>1. Current' <=> Current
  BY DEF Current
<1>2. /\ \A r : (Timely(r)' <=> Timely(r)) /\ (Doomed(r)' <=> Doomed(r))
                /\ (Recording(r)' <=> Recording(r)) /\ (Rewritten(r)' <=> Rewritten(r))
      /\ \A r : (Timely(r) /\ PlaceOf(r) # "nodes") \/ Doomed(r) \/ Rewritten(r)
                    => PlaceOf(r) \in {"edges", "state"}
  BY DEF Timely, Doomed, Recording, Rewritten, PlaceOf, RefreshPlaces
<1> PICK s : s = proc'[x]
  OBVIOUS
<1>3. ~Doomed(s) /\ ~Rewritten(s) /\ ~(Timely(s) /\ PlaceOf(s) # "nodes")
  BY <1>2
<1>4. NodesAreTrue'
  <2> SUFFICES ASSUME NEW y \in Procs, Timely(proc'[y]), PlaceOf(proc'[y]) # "nodes"
               PROVE  projected.nodes = index.nodes
    BY <1>0, <1>1, <1>2 DEF NodesAreTrue, PlaceOf
  <2> QED BY <1>0, <1>3 DEF NodesAreTrue
<1>5. EdgesAreTrue'
  <2> SUFFICES ASSUME \A y \in Procs : ~Doomed(proc'[y])
               PROVE  /\ \A y \in Procs : Rewritten(proc'[y]) => projected.edges = Edges(index.nodes)
                      /\ \/ projected.edges = projected.digest
                            /\ projected.count = Cardinality(projected.digest)
                         \/ \E y \in Procs : Recording(proc'[y])
                      /\ Current => projected.edges = Edges(index.nodes)
    BY <1>1, <1>2 DEF EdgesAreTrue, Edges
  <2>1. \A y \in Procs : ~Doomed(proc[y])
    BY <1>0
  <2>2. \A y \in Procs : Rewritten(proc'[y]) => projected.edges = Edges(index.nodes)
    BY <1>0, <1>3, <2>1 DEF EdgesAreTrue
  <2>3. (\E y \in Procs : Recording(proc[y])) => \E y \in Procs : Recording(proc'[y])
    BY <1>0
  <2> QED BY <1>0, <2>1, <2>2, <2>3 DEF EdgesAreTrue
<1> QED BY <1>4, <1>5

\* The record of a process after its step, typed.
LEMMA Advanced ==
    ASSUME IndexInv, NEW x \in Procs, Advance(x), Pc(x) \notin {"idle", "end"}
    PROVE  /\ DOMAIN proc' = Procs
           /\ \A y \in Procs \ {x} : proc'[y] = proc[y]
           /\ proc'[x] \in Works /\ Placed(proc'[x])
           /\ proc'[x] = [proc[x] EXCEPT !.at = @ + 1]
<1> PICK r : r = proc[x]
  OBVIOUS
<1>1. Placed(r) /\ r \in Works /\ Pc(x) = PlaceOf(r)
  BY OfProcess
<1>2. DOMAIN proc = Procs
  BY DEF IndexInv, IndexTyped
<1>3. /\ proc' = [proc EXCEPT ![x] = [r EXCEPT !.at = r.at + 1]]
      /\ proc'[x] = [r EXCEPT !.at = r.at + 1]
  BY <1>2 DEF Advance
<1> PICK s : s = [r EXCEPT !.at = r.at + 1]
  OBVIOUS
<1>4. s \in Works /\ s.job = r.job /\ s.at = r.at + 1
  BY <1>1 DEF Works
<1>5. Placed(s)
  <2>1. PlaceOf(r) \notin {"idle", "end"}
    BY <1>1
  <2>2. s.job = r.job /\ s.at = r.at + 1
    BY <1>4
  <2>3. Placed(r)
    BY <1>1
  <2> QED BY <2>1, <2>2, <2>3, PlacesOfJobs DEF Placed
<1> QED BY <1>2, <1>3, <1>4, <1>5

\* The index lock is taken, or there is nothing to do.
LEMMA LockKeeps ==
    ASSUME IndexInv, NEW x \in Procs, Lock(x)
    PROVE  IndexInv'
<1> PICK r : r = proc[x]
  OBVIOUS
<1>0. UNCHANGED <<canon, owed, index, ftsRows, graph, projected, torn>>
  BY DEF Lock, stores, readside
<1>1. /\ ProcessInv(x, r) /\ Placed(r) /\ r \in Works /\ PlaceOf(r) = "lock" /\ x # Free
      /\ r.job \in Publishers
  <2>1. /\ ProcessInv(x, r) /\ Placed(r) /\ r \in Works /\ PlaceOf(r) = "lock" /\ x # Free
    BY OfProcess DEF Lock, AtStep
  <2> QED BY <2>1, PlacesOfJobs DEF Publishers
<1>2. IndexTyped /\ StoresHold
  BY DEF IndexInv
<1>3. DOMAIN proc = Procs
  BY <1>2 DEF IndexTyped
<1> PICK s : s = proc'[x]
  OBVIOUS
<1>4. CASE \/ r.job = "topology" /\ ~index.dirty
           \/ r.job = "update" /\ r.batch = {Sys}
  <2>1. /\ proc' = [proc EXCEPT ![x].at = Len(Steps[r.job])] /\ indexLock' = indexLock
    BY <1>4 DEF Lock
  <2>2. s = [r EXCEPT !.at = Len(Steps[r.job])] /\ DOMAIN proc' = Procs
        /\ \A y \in Procs \ {x} : proc'[y] = proc[y]
    BY <2>1, <1>3
  <2>3. s.job = r.job /\ s.batch = r.batch /\ s.gen = r.gen /\ s.stamp = r.stamp
        /\ s.at = Len(Steps[r.job]) /\ s.data = r.data /\ s.claims = r.claims
        /\ s.rewrite = r.rewrite
    BY <1>1, <2>2 DEF Works
  <2>4. Placed(s) /\ PlaceOf(s) = "end"
    BY <1>1, <2>3, Skipped DEF Jobs, Publishers
  <2>5. s \in Works
    BY <1>1, <2>2, <2>3, <2>4 DEF Works, Placed
  <2>6. ProcessInv(x, s)'
    <3>1. WhoOwns(x, s)'
      BY <1>0, <1>1, <1>4, <2>3, <2>4 DEF ProcessInv, WhoOwns, Locked
    <3>2. WhatItHas(s)'
      BY <2>4 DEF WhatItHas, BeforeWrite, Claiming, Reader, RefreshPlaces
    <3>3. s.batch \subseteq {Sys}
      BY <1>1, <1>4, <2>3 DEF ProcessInv, WhoOwns
    <3>4. WhatItDid(s)'
      BY <2>4, <3>3, IndexAssumption DEF WhatItDid, AfterWrite, Graphed, Timely, RefreshPlaces
    <3> QED BY <1>0, <1>1, <2>3, <2>4, <2>5, <3>1, <3>2, <3>4 DEF ProcessInv
  <2>7. \A y \in Procs : ProcessInv(y, proc[y])'
    BY <1>0, <2>1, <2>2, <2>6, OneMoves
  <2>8. FtsHolds'
    BY <1>0, <1>1, <2>2, <2>4, FtsStay DEF Half
  <2>9. RowsHold'
    BY <1>0, <1>1, <2>2, <2>4, RowsStay DEF Recording, Doomed
  <2>10. IndexTyped' /\ StoresHold'
    BY <1>0, <1>2, <2>1, <2>2 DEF IndexTyped, StoresHold
  <2> QED BY <2>7, <2>8, <2>9, <2>10 DEF IndexInv
<1>5. CASE ~ \/ r.job = "topology" /\ ~index.dirty
             \/ r.job = "update" /\ r.batch = {Sys}
  <2> PICK plan : plan = Planned(x)
    OBVIOUS
  <2> PICK seen : seen = IF r.job = "update" THEN canon ELSE NoNodes
    OBVIOUS
  <2>1. /\ proc' = [proc EXCEPT ![x].at = @ + 1, ![x].data = plan, ![x].claims = seen]
        /\ indexLock' = x /\ indexLock = Free
    BY <1>5 DEF Lock
  <2>2. s = [r EXCEPT !.at = @ + 1, !.data = plan, !.claims = seen] /\ DOMAIN proc' = Procs
        /\ \A y \in Procs \ {x} : proc'[y] = proc[y]
    BY <2>1, <1>3
  <2>3. s.job = r.job /\ s.batch = r.batch /\ s.gen = r.gen /\ s.stamp = r.stamp
        /\ s.at = r.at + 1 /\ s.data = plan /\ s.claims = seen
        /\ s.rewrite = r.rewrite
    BY <1>1, <2>2 DEF Works
  <2>4. /\ Placed(s)
        /\ \/ r.job = "update" /\ PlaceOf(s) = "sql"
           \/ r.job = "topology" /\ PlaceOf(s) = "write"
           \/ r.job = "rebuild" /\ PlaceOf(s) = "claims"
           \/ r.job = "cluster" /\ PlaceOf(s) = "pages"
    BY <1>1, <2>3, Moved
  <2>5. plan \in Nodes /\ seen \in Nodes
    BY <1>1, <1>2 DEF Planned, IndexTyped, Nodes, NoNodes, Works
  <2>6. s \in Works
    <3>1. r.at \in Nat
      BY <1>1 DEF Works
    <3> PICK t : t = [r EXCEPT !.at = r.at + 1]
      OBVIOUS
    <3>2. t \in Works
      BY <1>1, <3>1 DEF Works
    <3> PICK u : u = [t EXCEPT !.data = plan]
      OBVIOUS
    <3>3. u \in Works
      BY <2>5, <3>2 DEF Works
    <3>4. [u EXCEPT !.claims = seen] \in Works
      BY <2>5, <3>3 DEF Works
    <3> QED BY <2>2, <3>4
  <2>7. ProcessInv(x, s)'
    <3>1. WhoOwns(x, s)'
      BY <1>0, <1>1, <2>1, <2>3, <2>4 DEF ProcessInv, WhoOwns, Locked
    <3>2. /\ r.job = "rebuild" => plan = canon
          /\ r.job \in {"topology", "cluster"} => plan = index.nodes
          /\ r.job = "update" =>
                /\ \A p \in Pages : p \notin r.batch => plan[p] = index.nodes[p]
                /\ \A p \in Pages : p \in r.batch => plan[p] = canon[p]
      BY <1>1, <1>2 DEF Planned, ProcessInv, WhatItHas, IndexTyped, Nodes
    <3>3. r.job # "update" \/ seen = canon
      OBVIOUS
    <3>4. r.job \in {"topology", "cluster"} => r.batch = {}
      BY <1>1 DEF ProcessInv, WhoOwns
    <3>5. \A p \in Settled(s)' : plan[p] = canon[p]
      <4> SUFFICES ASSUME NEW p \in Pages, p \notin owed \/ p \in r.batch
                   PROVE  plan[p] = canon[p]
        BY <1>0, <2>3 DEF Settled
      <4> QED BY <1>1, <1>2, <3>2, <3>4 DEF StoresHold, Publishers
    <3>6. WhatItHas(s)'
      BY <1>0, <1>1, <2>3, <2>4, <3>2, <3>3, <3>5
         DEF WhatItHas, BeforeWrite, Claiming, Reader, RefreshPlaces, Settled
    <3>7. WhatItDid(s)'
      BY <2>3, <2>4 DEF WhatItDid, AfterWrite, Graphed, Timely, RefreshPlaces
    <3> QED BY <1>0, <1>1, <2>3, <2>4, <2>6, <3>1, <3>6, <3>7 DEF ProcessInv
  <2>8. \A y \in Procs : ProcessInv(y, proc[y])'
    BY <1>0, <2>1, <2>2, <2>7, OneMoves
  <2>9. FtsHolds'
    <3>1. "fts" \notin torn => ~Half(r)
      BY <1>1 DEF Half
    <3>2. ~Half(s)
      BY <2>3, <2>4 DEF Half
    <3> QED BY <1>0, <1>1, <2>2, <3>1, <3>2, FtsStay
  <2>10. RowsHold'
    BY <1>0, <1>1, <2>2, <2>4, RowsStay DEF Recording, Doomed
  <2>11. IndexTyped' /\ StoresHold'
    BY <1>0, <1>2, <2>1, <2>2 DEF IndexTyped, StoresHold
  <2> QED BY <2>8, <2>9, <2>10, <2>11 DEF IndexInv
<1> QED BY <1>4, <1>5

\* A rebuild reads the claims.
LEMMA ReadClaimsKeeps ==
    ASSUME IndexInv, NEW x \in Procs, ReadClaims(x)
    PROVE  IndexInv'
<1> PICK r : r = proc[x]
  OBVIOUS
<1>0. UNCHANGED <<canon, owed, index, ftsRows, graph, projected, indexLock, torn>>
  BY DEF ReadClaims, stores, readside
<1>1. /\ ProcessInv(x, r) /\ Placed(r) /\ r \in Works /\ PlaceOf(r) = "claims" /\ x # Free
      /\ r.job = "rebuild"
  <2>1. ProcessInv(x, r) /\ Placed(r) /\ r \in Works /\ PlaceOf(r) = "claims" /\ x # Free
    BY OfProcess DEF ReadClaims, AtStep
  <2> QED BY <2>1, PlacesOfJobs
<1>2. IndexTyped /\ StoresHold
  BY DEF IndexInv
<1>3. DOMAIN proc = Procs
  BY <1>2 DEF IndexTyped
<1> PICK s : s = proc'[x]
  OBVIOUS
<1>4. /\ s = [r EXCEPT !.at = @ + 1, !.claims = canon] /\ DOMAIN proc' = Procs
      /\ \A y \in Procs \ {x} : proc'[y] = proc[y]
  BY <1>3 DEF ReadClaims
<1>5. s.job = r.job /\ s.batch = r.batch /\ s.gen = r.gen /\ s.stamp = r.stamp
      /\ s.at = r.at + 1 /\ s.data = r.data /\ s.claims = canon /\ s.rewrite = r.rewrite
  BY <1>1, <1>4 DEF Works
<1>6. Placed(s) /\ PlaceOf(s) = "sync"
  BY <1>1, <1>5, Moved
<1>7. s \in Works
  <2>1. r.at \in Nat
    BY <1>1 DEF Works
  <2> PICK t : t = [r EXCEPT !.at = r.at + 1]
    OBVIOUS
  <2>2. t \in Works
    BY <1>1, <2>1 DEF Works
  <2>3. canon \in Nodes
    BY <1>2 DEF IndexTyped
  <2>4. [t EXCEPT !.claims = canon] \in Works
    BY <2>2, <2>3 DEF Works
  <2> QED BY <1>4, <2>4
<1>8. ProcessInv(x, s)'
  <2>1. WhoOwns(x, s)'
    BY <1>0, <1>1, <1>5, <1>6 DEF ProcessInv, WhoOwns, Locked, Publishers
  <2>2. WhatItHas(s)'
    BY <1>0, <1>1, <1>5, <1>6
       DEF ProcessInv, WhatItHas, BeforeWrite, Claiming, Reader, RefreshPlaces, Settled, Publishers
  <2>3. WhatItDid(s)'
    BY <1>5, <1>6, <1>1 DEF WhatItDid, AfterWrite, Graphed, Timely, RefreshPlaces
  <2> QED BY <1>0, <1>1, <1>5, <1>6, <1>7, <2>1, <2>2, <2>3 DEF ProcessInv
<1>9. \A y \in Procs : ProcessInv(y, proc[y])'
  BY <1>0, <1>4, <1>8, OneMoves
<1>10. FtsHolds'
  <2>1. \A y \in Procs : ~Half(proc[y])
    <3>1. Locked(r)
      BY <1>1 DEF Locked, Publishers
    <3>2. \A y \in Procs : Half(proc[y]) => Locked(proc[y])
      BY DEF Half, Locked, Publishers
    <3>3. ~Half(r)
      BY <1>1 DEF Half
    <3> QED BY <3>1, <3>2, <3>3, OfProcess
  <2>2. "fts" \notin torn => ftsRows = index.nodes
    BY <2>1 DEF IndexInv, FtsHolds
  <2>3. \A y \in Procs : Half(proc'[y]) => y = x
    BY <1>4, <2>1
  <2>4. Half(s) /\ PlaceOf(s) = "sync"
    BY <1>1, <1>5, <1>6 DEF Half
  <2>5. "fts" \notin torn' =>
          /\ ~ \A y \in Procs : ~Half(proc'[y])
          /\ \A y \in Procs :
               /\ Half(proc'[y]) /\ PlaceOf(proc'[y]) # "sync" => ftsRows = proc'[y].data
               /\ Half(proc'[y]) /\ PlaceOf(proc'[y]) = "sync" =>
                      \A p \in Pages : ftsRows[p] \in {index.nodes[p], proc'[y].data[p]}
    BY <1>0, <2>2, <2>3, <2>4
  <2> QED BY <1>0, <2>5 DEF FtsHolds, Half, PlaceOf
<1>11. RowsHold'
  BY <1>0, <1>1, <1>4, <1>6, RowsStay DEF Recording, Doomed
<1>12. IndexTyped' /\ StoresHold'
  BY <1>0, <1>2, <1>4 DEF IndexTyped, StoresHold
<1> QED BY <1>9, <1>10, <1>11, <1>12 DEF IndexInv

\* Who holds the index lock is alone with the stores.
LEMMA Alone ==
    ASSUME IndexInv, NEW x \in Procs, Locked(proc[x])
    PROVE  /\ indexLock = x
           /\ \A y \in Procs \ {x} : ~Locked(proc[y]) /\ ~Half(proc[y])
<1>1. \A y \in Procs : Half(proc[y]) => Locked(proc[y])
  BY DEF Half, Locked, Publishers
<1> QED BY <1>1, OfProcess DEF ProcessInv, WhoOwns

\* The batch's changes of the full-text table.
LEMMA UpdateRowsKeeps ==
    ASSUME IndexInv, NEW x \in Procs, UpdateRows(x)
    PROVE  IndexInv'
<1> PICK r : r = proc[x]
  OBVIOUS
<1>0. UNCHANGED <<canon, owed, index, graph, projected, indexLock, torn>>
  BY DEF UpdateRows, readside
<1>1. /\ ProcessInv(x, r) /\ Placed(r) /\ r \in Works /\ PlaceOf(r) = "sql" /\ x # Free
      /\ r.job = "update"
  <2>1. ProcessInv(x, r) /\ Placed(r) /\ r \in Works /\ PlaceOf(r) = "sql" /\ x # Free
    BY OfProcess DEF UpdateRows, AtStep
  <2> QED BY <2>1, PlacesOfJobs
<1>2. IndexTyped /\ StoresHold
  BY DEF IndexInv
<1> PICK s : s = proc'[x]
  OBVIOUS
<1>4. /\ s = [r EXCEPT !.at = @ + 1] /\ DOMAIN proc' = Procs /\ s \in Works /\ Placed(s)
      /\ \A y \in Procs \ {x} : proc'[y] = proc[y]
  BY Advanced DEF UpdateRows, AtStep
<1>5. s.job = r.job /\ s.batch = r.batch /\ s.gen = r.gen /\ s.stamp = r.stamp
      /\ s.at = r.at + 1 /\ s.data = r.data /\ s.claims = r.claims /\ s.rewrite = r.rewrite
  BY <1>1, <1>4 DEF Works
<1>6. PlaceOf(s) = "write"
  BY <1>1, <1>5, Moved
<1>8. ProcessInv(x, s)'
  <2>1. WhoOwns(x, s)'
    BY <1>0, <1>1, <1>5, <1>6 DEF ProcessInv, WhoOwns, Locked, Publishers
  <2>2. WhatItHas(s)'
    BY <1>0, <1>1, <1>5, <1>6
       DEF ProcessInv, WhatItHas, BeforeWrite, Claiming, Reader, RefreshPlaces, Settled, Publishers
  <2>3. WhatItDid(s)'
    BY <1>5, <1>6, <1>1 DEF WhatItDid, AfterWrite, Graphed, Timely, RefreshPlaces
  <2> QED BY <1>0, <1>1, <1>5, <1>6, <1>4, <2>1, <2>2, <2>3 DEF ProcessInv
<1>9. \A y \in Procs : ProcessInv(y, proc[y])'
  BY <1>0, <1>4, <1>8, OneMoves
<1>10. FtsHolds' /\ ftsRows' \in Nodes
  <2>1. Locked(r) /\ ~Half(r) /\ Half(s)
    BY <1>1, <1>5, <1>6 DEF Locked, Publishers, Half
  <2>2. \A y \in Procs : ~Half(proc[y])
    BY <2>1, Alone
  <2>3. "fts" \notin torn => ftsRows = index.nodes
    BY <2>2 DEF IndexInv, FtsHolds
  <2>4. ftsRows' = [p \in Pages |-> IF p \in Touched(x) THEN r.data[p] ELSE ftsRows[p]]
    BY DEF UpdateRows
  <2>5. ftsRows' \in Nodes
    BY <1>1, <1>2, <2>4 DEF IndexTyped, Works, Nodes
  <2>6. "fts" \notin torn => \A p \in Pages : ftsRows'[p] = r.data[p]
    <3> SUFFICES ASSUME "fts" \notin torn, NEW p \in Pages, p \notin Touched(x)
                 PROVE  ftsRows[p] = r.data[p]
      BY <2>4
    <3>1. CASE p \notin r.batch
      BY <1>1, <2>3, <3>1 DEF ProcessInv, WhatItHas
    <3>2. CASE p \in r.batch
      BY <2>3, <3>2, IndexAssumption DEF Touched
    <3> QED BY <3>1, <3>2
  <2>7. "fts" \notin torn => ftsRows' = r.data
    BY <1>1, <2>5, <2>6 DEF Nodes, Works
  <2>8. \A y \in Procs : Half(proc'[y]) => y = x
    BY <1>4, <2>2
  <2>9. "fts" \notin torn' =>
          /\ ~ \A y \in Procs : ~Half(proc'[y])
          /\ \A y \in Procs :
               /\ Half(proc'[y]) /\ PlaceOf(proc'[y]) # "sync" => ftsRows' = proc'[y].data
               /\ ~(Half(proc'[y]) /\ PlaceOf(proc'[y]) = "sync")
    BY <1>0, <1>5, <1>6, <2>1, <2>7, <2>8
  <2> QED BY <2>5, <2>9 DEF FtsHolds, Half, PlaceOf
<1>11. RowsHold'
  BY <1>0, <1>1, <1>4, <1>6, RowsStay DEF Recording, Doomed
<1>12. IndexTyped' /\ StoresHold'
  BY <1>0, <1>2, <1>4, <1>10 DEF IndexTyped, StoresHold
<1> QED BY <1>9, <1>10, <1>11, <1>12 DEF IndexInv

\* A row of the full-text table is brought in step.
LEMMA SyncRowKeeps ==
    ASSUME IndexInv, NEW x \in Procs, NEW p \in Pages, SyncRow(x, p)
    PROVE  IndexInv'
<1> PICK r : r = proc[x]
  OBVIOUS
<1>0. UNCHANGED <<canon, owed, index, graph, projected, indexLock, proc>>
  BY DEF SyncRow, readside
<1>1. /\ ProcessInv(x, r) /\ Placed(r) /\ r \in Works /\ PlaceOf(r) = "sync"
      /\ r.job \in {"rebuild", "repair"}
  <2>1. ProcessInv(x, r) /\ Placed(r) /\ r \in Works /\ PlaceOf(r) = "sync"
    BY OfProcess DEF SyncRow, AtStep
  <2> QED BY <2>1, PlacesOfJobs
<1>2. IndexTyped /\ StoresHold
  BY DEF IndexInv
<1>3. \A y \in Procs : HalfPublished(y) <=> Half(proc[y])
  BY DEF HalfPublished, Half, AtStep, Pc, PlaceOf
<1>4. ftsRows' = [ftsRows EXCEPT ![p] = r.data[p]] /\ ftsRows[p] # r.data[p] /\ ftsRows' \in Nodes
  BY <1>1, <1>2 DEF SyncRow, IndexTyped, Works, Nodes
<1>5. /\ "fts" \in torn => "fts" \in torn'
      /\ "rows" \in torn' <=> "rows" \in torn
  BY DEF SyncRow
<1>6. FtsHolds'
  <2> SUFFICES ASSUME "fts" \notin torn'
               PROVE  /\ (\A y \in Procs : ~Half(proc[y])) => ftsRows' = index.nodes
                      /\ \A y \in Procs :
                           /\ Half(proc[y]) /\ PlaceOf(proc[y]) # "sync" => ftsRows' = proc[y].data
                           /\ Half(proc[y]) /\ PlaceOf(proc[y]) = "sync" =>
                                \A q \in Pages : ftsRows'[q] \in {index.nodes[q], proc[y].data[q]}
    BY <1>0 DEF FtsHolds, Half, PlaceOf
  <2>1. FtsHolds /\ "fts" \notin torn
    BY <1>5 DEF IndexInv
  <2>2. CASE r.job = "repair"
    <3>1. r.gen = index.gen /\ \A y \in Procs : ~Half(proc[y])
      BY <1>3, <2>2 DEF SyncRow
    <3>2. r.data = index.nodes
      BY <1>1, <2>2, <3>1 DEF ProcessInv, WhatItHas, Reader
    <3> QED BY <1>4, <2>1, <3>1, <3>2 DEF FtsHolds
  <2>3. CASE r.job = "rebuild"
    <3>1. Half(r) /\ Locked(r)
      BY <1>1, <2>3 DEF Half, Locked, Publishers
    <3>2. \A y \in Procs : Half(proc[y]) => y = x
      BY <3>1, Alone
    <3>3. \A q \in Pages : ftsRows'[q] \in {index.nodes[q], r.data[q]}
      BY <1>1, <1>2, <1>4, <2>1, <3>1 DEF FtsHolds, IndexTyped, Nodes
    <3> QED BY <1>1, <3>1, <3>2, <3>3
  <2> QED BY <1>1, <2>2, <2>3
<1>7. \A y \in Procs : ProcessInv(y, proc[y])'
  <2> SUFFICES ASSUME NEW y \in Procs
               PROVE  ProcessInv(y, proc[y])'
    OBVIOUS
  <2> PICK t : t = proc[y]
    OBVIOUS
  <2>1. ProcessInv(y, t)
    BY OfProcess
  <2>2. ProcessInv(y, t)'
    BY <1>0, <2>1 DEF ProcessInv, WhoOwns, WhatItHas, WhatItDid, Settled, Timely
  <2> QED BY <1>0, <2>2
<1>8. RowsHold'
  BY <1>0, <1>5 DEF IndexInv, RowsHold, EdgesAreTrue, NodesAreTrue, Current, Rewritten, Timely,
                    Doomed, Recording, PlaceOf, Edges
<1>9. IndexTyped' /\ StoresHold'
  BY <1>0, <1>2, <1>4 DEF IndexTyped, StoresHold
<1> QED BY <1>6, <1>7, <1>8, <1>9 DEF IndexInv

\* The full-text table is in step.
LEMMA SyncEndsKeeps ==
    ASSUME IndexInv, NEW x \in Procs, SyncEnds(x)
    PROVE  IndexInv'
<1> PICK r : r = proc[x]
  OBVIOUS
<1>0. UNCHANGED <<canon, owed, index, ftsRows, graph, projected, indexLock, torn>>
  BY DEF SyncEnds, readside, stores
<1>1. /\ ProcessInv(x, r) /\ Placed(r) /\ r \in Works /\ PlaceOf(r) = "sync" /\ x # Free
      /\ r.job \in {"rebuild", "repair"} /\ ftsRows = r.data
  <2>1. /\ ProcessInv(x, r) /\ Placed(r) /\ r \in Works /\ PlaceOf(r) = "sync" /\ x # Free
        /\ ftsRows = r.data
    BY OfProcess DEF SyncEnds, AtStep
  <2> QED BY <2>1, PlacesOfJobs
<1>2. IndexTyped /\ StoresHold
  BY DEF IndexInv
<1> PICK s : s = proc'[x]
  OBVIOUS
<1>4. /\ s = [r EXCEPT !.at = @ + 1] /\ DOMAIN proc' = Procs /\ s \in Works /\ Placed(s)
      /\ \A y \in Procs \ {x} : proc'[y] = proc[y]
  BY Advanced DEF SyncEnds, AtStep
<1>5. s.job = r.job /\ s.batch = r.batch /\ s.gen = r.gen /\ s.stamp = r.stamp
      /\ s.at = r.at + 1 /\ s.data = r.data /\ s.claims = r.claims /\ s.rewrite = r.rewrite
  BY <1>1, <1>4 DEF Works
<1>6. \/ r.job = "rebuild" /\ PlaceOf(s) = "graph"
      \/ r.job = "repair" /\ PlaceOf(s) = "end"
  BY <1>1, <1>5, Moved
<1>8. ProcessInv(x, s)'
  <2>0. r.job = "repair" => r.batch = {}
    BY <1>1 DEF ProcessInv, WhoOwns
  <2>1. WhoOwns(x, s)'
    BY <1>0, <1>1, <1>5, <1>6, <2>0 DEF ProcessInv, WhoOwns, Locked, Publishers
  <2>2. WhatItHas(s)'
    BY <1>0, <1>1, <1>5, <1>6
       DEF ProcessInv, WhatItHas, BeforeWrite, Claiming, Reader, RefreshPlaces, Settled, Publishers
  <2>3. WhatItDid(s)'
    BY <1>5, <1>6, <1>1, <2>0
       DEF WhatItDid, AfterWrite, Graphed, Timely, RefreshPlaces, Publishers
  <2> QED BY <1>0, <1>1, <1>5, <1>6, <1>4, <2>1, <2>2, <2>3 DEF ProcessInv
<1>9. \A y \in Procs : ProcessInv(y, proc[y])'
  BY <1>0, <1>4, <1>8, OneMoves
<1>10. FtsHolds'
  <2>1. CASE r.job = "repair"
    <3>1. ~Half(r) /\ ~Half(s)
      BY <1>5, <2>1 DEF Half
    <3> QED BY <1>0, <1>4, <3>1, FtsStay
  <2>2. CASE r.job = "rebuild"
    <3>1. Half(r) /\ Locked(r) /\ Half(s) /\ PlaceOf(s) = "graph"
      BY <1>1, <1>5, <1>6, <2>2 DEF Half, Locked, Publishers
    <3>2. \A y \in Procs : Half(proc'[y]) => y = x
      BY <1>4, <3>1, Alone
    <3>3. /\ ~ \A y \in Procs : ~Half(proc'[y])
          /\ \A y \in Procs :
               /\ Half(proc'[y]) /\ PlaceOf(proc'[y]) # "sync" => ftsRows = proc'[y].data
               /\ ~(Half(proc'[y]) /\ PlaceOf(proc'[y]) = "sync")
      BY <1>1, <1>5, <3>1, <3>2
    <3> QED BY <1>0, <3>3 DEF FtsHolds, Half, PlaceOf
  <2> QED BY <1>1, <2>1, <2>2
<1>11. RowsHold'
  BY <1>0, <1>1, <1>4, <1>6, RowsStay DEF Recording, Doomed
<1>12. IndexTyped' /\ StoresHold'
  BY <1>0, <1>2, <1>4 DEF IndexTyped, StoresHold
<1> QED BY <1>9, <1>10, <1>11, <1>12 DEF IndexInv

\* The clustering daemon commits its pages.
LEMMA CommunityPagesKeeps ==
    ASSUME IndexInv, NEW x \in Procs, CommunityPages(x)
    PROVE  IndexInv'
<1> PICK r : r = proc[x]
  OBVIOUS
<1>0. /\ UNCHANGED <<canon, index, ftsRows, graph, projected, indexLock, torn>>
      /\ owed' \in {owed, owed \cup {Sys}}
  BY DEF CommunityPages, readside, stores
<1>1. /\ ProcessInv(x, r) /\ Placed(r) /\ r \in Works /\ PlaceOf(r) = "pages" /\ x # Free
      /\ r.job = "cluster"
  <2>1. ProcessInv(x, r) /\ Placed(r) /\ r \in Works /\ PlaceOf(r) = "pages" /\ x # Free
    BY OfProcess DEF CommunityPages, AtStep
  <2> QED BY <2>1, PlacesOfJobs
<1>2. IndexTyped /\ StoresHold
  BY DEF IndexInv
<1> PICK s : s = proc'[x]
  OBVIOUS
<1>4. /\ s = [r EXCEPT !.at = @ + 1] /\ DOMAIN proc' = Procs /\ s \in Works /\ Placed(s)
      /\ \A y \in Procs \ {x} : proc'[y] = proc[y]
  BY Advanced DEF CommunityPages, AtStep
<1>5. s.job = r.job /\ s.batch = r.batch /\ s.gen = r.gen /\ s.stamp = r.stamp
      /\ s.at = r.at + 1 /\ s.data = r.data /\ s.claims = r.claims /\ s.rewrite = r.rewrite
  BY <1>1, <1>4 DEF Works
<1>6. PlaceOf(s) = "write"
  BY <1>1, <1>5, Moved
<1>8. ProcessInv(x, s)'
  <2>1. WhoOwns(x, s)'
    BY <1>0, <1>1, <1>5, <1>6 DEF ProcessInv, WhoOwns, Locked, Publishers
  <2>2. \A p \in Pages : p \notin owed' => p \notin owed
    BY <1>0
  <2>3. WhatItHas(s)'
    BY <1>0, <1>1, <1>5, <1>6, <2>2
       DEF ProcessInv, WhatItHas, BeforeWrite, Claiming, Reader, RefreshPlaces, Settled, Publishers
  <2>4. WhatItDid(s)'
    BY <1>5, <1>6, <1>1 DEF WhatItDid, AfterWrite, Graphed, Timely, RefreshPlaces, Publishers
  <2> QED BY <1>0, <1>1, <1>5, <1>6, <1>4, <2>1, <2>3, <2>4 DEF ProcessInv
<1>9. \A y \in Procs : ProcessInv(y, proc[y])'
  BY <1>0, <1>4, <1>8, OneMoves
<1>10. FtsHolds'
  <2>1. ~Half(r) /\ ~Half(s)
    BY <1>1, <1>5 DEF Half
  <2> QED BY <1>0, <1>4, <2>1, FtsStay
<1>11. RowsHold'
  BY <1>0, <1>1, <1>4, <1>6, RowsStay DEF Recording, Doomed
<1>12. IndexTyped' /\ StoresHold'
  BY <1>0, <1>2, <1>4 DEF IndexTyped, StoresHold, Batches
<1> QED BY <1>9, <1>10, <1>11, <1>12 DEF IndexInv

\* A heal reads index.json.
LEMMA LoadKeeps ==
    ASSUME IndexInv, NEW x \in Procs, Load(x)
    PROVE  IndexInv'
<1> PICK r : r = proc[x]
  OBVIOUS
<1>0. UNCHANGED <<canon, owed, index, ftsRows, graph, projected, indexLock, torn>>
  BY DEF Load, stores, readside
<1>1. /\ ProcessInv(x, r) /\ Placed(r) /\ r \in Works /\ PlaceOf(r) = "load" /\ x # Free
      /\ r.job = "heal"
  <2>1. ProcessInv(x, r) /\ Placed(r) /\ r \in Works /\ PlaceOf(r) = "load" /\ x # Free
    BY OfProcess DEF Load, AtStep
  <2> QED BY <2>1, PlacesOfJobs
<1>2. IndexTyped /\ StoresHold
  BY DEF IndexInv
<1>3. DOMAIN proc = Procs
  BY <1>2 DEF IndexTyped
<1> PICK s : s = proc'[x]
  OBVIOUS
<1>4. /\ s = [r EXCEPT !.at = @ + 1, !.data = index.nodes, !.gen = index.gen]
      /\ DOMAIN proc' = Procs
      /\ \A y \in Procs \ {x} : proc'[y] = proc[y]
  BY <1>3 DEF Load
<1>5. s.job = r.job /\ s.batch = r.batch /\ s.gen = index.gen /\ s.stamp = r.stamp
      /\ s.at = r.at + 1 /\ s.data = index.nodes /\ s.claims = r.claims /\ s.rewrite = r.rewrite
  BY <1>1, <1>4 DEF Works
<1>6. Placed(s) /\ PlaceOf(s) = "nodes"
  BY <1>1, <1>5, Moved
<1>7. s \in Works
  <2>1. r.at \in Nat /\ index.nodes \in Nodes /\ index.gen \in Nat
    BY <1>1, <1>2 DEF Works, IndexTyped
  <2> PICK t : t = [r EXCEPT !.at = r.at + 1]
    OBVIOUS
  <2>2. t \in Works
    BY <1>1, <2>1 DEF Works
  <2> PICK u : u = [t EXCEPT !.data = index.nodes]
    OBVIOUS
  <2>3. u \in Works
    BY <2>1, <2>2 DEF Works
  <2>4. [u EXCEPT !.gen = index.gen] \in Works
    BY <2>1, <2>3 DEF Works
  <2> QED BY <1>4, <2>4
<1>8. ProcessInv(x, s)'
  <2>0. r.batch = {}
    BY <1>1 DEF ProcessInv, WhoOwns
  <2>1. WhoOwns(x, s)'
    BY <1>0, <1>1, <1>5, <1>6, <2>0 DEF ProcessInv, WhoOwns, Locked, Publishers
  <2>2. WhatItHas(s)'
    BY <1>0, <1>1, <1>5, <1>6
       DEF ProcessInv, WhatItHas, BeforeWrite, Claiming, Reader, RefreshPlaces, Settled, Publishers
  <2>3. WhatItDid(s)'
    BY <1>5, <1>6, <1>1 DEF WhatItDid, AfterWrite, Graphed, Timely, RefreshPlaces, Publishers
  <2>4. index.gen <= index.gen
    BY <1>2 DEF IndexTyped
  <2> QED BY <1>0, <1>1, <1>5, <1>6, <1>7, <2>1, <2>2, <2>3, <2>4 DEF ProcessInv
<1>9. \A y \in Procs : ProcessInv(y, proc[y])'
  BY <1>0, <1>4, <1>8, OneMoves
<1>10. FtsHolds'
  <2>1. ~Half(r) /\ ~Half(s)
    BY <1>1, <1>5 DEF Half
  <2> QED BY <1>0, <1>4, <2>1, FtsStay
<1>11. RowsHold'
  BY <1>0, <1>1, <1>4, <1>6, RowsStay DEF Recording, Doomed
<1>12. IndexTyped' /\ StoresHold'
  BY <1>0, <1>2, <1>4 DEF IndexTyped, StoresHold
<1> QED BY <1>9, <1>10, <1>11, <1>12 DEF IndexInv

\* The node rows, and the stamp that the state row will carry.
LEMMA RefreshNodesKeeps ==
    ASSUME IndexInv, NEW x \in Procs, RefreshNodes(x)
    PROVE  IndexInv'
<1> PICK r : r = proc[x]
  OBVIOUS
<1>0. UNCHANGED <<canon, owed, index, ftsRows, graph, indexLock>>
  BY DEF RefreshNodes, stores
<1>1. /\ ProcessInv(x, r) /\ Placed(r) /\ r \in Works /\ PlaceOf(r) = "nodes" /\ x # Free
      /\ r.job \in {"update", "topology", "rebuild", "heal"}
  <2>1. ProcessInv(x, r) /\ Placed(r) /\ r \in Works /\ PlaceOf(r) = "nodes" /\ x # Free
    BY OfProcess DEF RefreshNodes, AtStep
  <2> QED BY <2>1, PlacesOfJobs
<1>2. IndexTyped /\ StoresHold /\ RowsHold
  BY DEF IndexInv
<1>3. DOMAIN proc = Procs
  BY <1>2 DEF IndexTyped
<1> PICK s : s = proc'[x]
  OBVIOUS
<1> PICK w : w = EdgesChanged(x)
  OBVIOUS
<1>4. /\ s = [r EXCEPT !.at = @ + 1, !.stamp = index.gen, !.rewrite = w]
      /\ DOMAIN proc' = Procs
      /\ \A y \in Procs \ {x} : proc'[y] = proc[y]
  BY <1>3 DEF RefreshNodes
<1>5. s.job = r.job /\ s.batch = r.batch /\ s.gen = r.gen /\ s.stamp = index.gen
      /\ s.at = r.at + 1 /\ s.data = r.data /\ s.claims = r.claims /\ s.rewrite = w
  BY <1>1, <1>4 DEF Works
<1>6. Placed(s) /\ PlaceOf(s) = "edges"
  BY <1>1, <1>5, Moved
<1>7. s \in Works
  <2>1. r.at \in Nat /\ index.gen \in Nat /\ w \in BOOLEAN
    BY <1>1, <1>2 DEF Works, IndexTyped, EdgesChanged
  <2> PICK t : t = [r EXCEPT !.at = r.at + 1]
    OBVIOUS
  <2>2. t \in Works
    BY <1>1, <2>1 DEF Works
  <2> PICK u : u = [t EXCEPT !.stamp = index.gen]
    OBVIOUS
  <2>3. u \in Works
    BY <2>1, <2>2 DEF Works
  <2>4. [u EXCEPT !.rewrite = w] \in Works
    BY <2>1, <2>3 DEF Works
  <2> QED BY <1>4, <2>4
<1>8. ProcessInv(x, s)'
  <2>1. WhoOwns(x, s)'
    BY <1>0, <1>1, <1>5, <1>6 DEF ProcessInv, WhoOwns, Locked, Publishers
  <2>2. WhatItHas(s)'
    BY <1>0, <1>1, <1>5, <1>6
       DEF ProcessInv, WhatItHas, BeforeWrite, Claiming, Reader, RefreshPlaces, Settled, Publishers
  <2>3. WhatItDid(s)'
    BY <1>0, <1>5, <1>6, <1>1
       DEF ProcessInv, WhatItDid, AfterWrite, Graphed, Timely, RefreshPlaces, Publishers
  <2>4. index.gen <= index.gen
    BY <1>2 DEF IndexTyped
  <2> QED BY <1>0, <1>1, <1>5, <1>6, <1>7, <2>1, <2>2, <2>3, <2>4 DEF ProcessInv
<1>9. \A y \in Procs : ProcessInv(y, proc[y])'
  BY <1>0, <1>4, <1>8, OneMoves
<1>10. torn \subseteq torn' /\ ("fts" \in torn' => "fts" \in torn)
       /\ ("rows" \notin torn' => Timely(r))
  BY <1>1 DEF RefreshNodes, MayTear, Timely, RefreshPlaces
<1>11. FtsHolds'
  <2>1. ~Half(r) /\ ~Half(s)
    BY <1>1, <1>6 DEF Half
  <2> QED BY <1>0, <1>4, <1>10, <2>1, FtsStay
<1>12. projected' = [projected EXCEPT !.nodes = r.data]
  BY DEF RefreshNodes
<1>13. /\ projected'.nodes = r.data /\ projected'.edges = projected.edges
       /\ projected'.stamp = projected.stamp /\ projected'.count = projected.count
       /\ projected'.digest = projected.digest
  BY <1>2, <1>12 DEF IndexTyped
<1>14. RowsHold'
  <2> SUFFICES ASSUME "rows" \notin torn'
               PROVE  EdgesAreTrue' /\ NodesAreTrue'
    BY DEF RowsHold
  <2>0. EdgesAreTrue /\ NodesAreTrue /\ Timely(r)
    BY <1>2, <1>10 DEF RowsHold
  <2>1. Current' <=> Current
    BY <1>0, <1>13 DEF Current
  <2>2. r.data = index.nodes
    BY <1>1, <2>0 DEF ProcessInv, WhatItHas, WhatItDid, Reader, AfterWrite, Timely, Publishers,
      RefreshPlaces
  <2>3. \A q : (Timely(q)' <=> Timely(q)) /\ (Doomed(q)' <=> Doomed(q))
               /\ (Recording(q)' <=> Recording(q)) /\ (Rewritten(q)' <=> Rewritten(q))
    BY <1>0 DEF Timely, Doomed, Recording, Rewritten, PlaceOf, RefreshPlaces
  <2>4. NodesAreTrue'
    BY <1>0, <1>13, <2>2 DEF NodesAreTrue
  <2>5. EdgesAreTrue'
    <3> SUFFICES ASSUME \A y \in Procs : ~Doomed(proc'[y])
                 PROVE  /\ \A y \in Procs : Rewritten(proc'[y])
                             => projected.edges = Edges(index.nodes)
                        /\ \/ projected.edges = projected.digest
                              /\ projected.count = Cardinality(projected.digest)
                           \/ \E y \in Procs : Recording(proc'[y])
                        /\ Current => projected.edges = Edges(index.nodes)
      BY <1>0, <1>13, <2>1, <2>3 DEF EdgesAreTrue, Edges
    <3>1. \A y \in Procs : ~Doomed(proc[y])
      <4>1. ~Doomed(r)
        BY <1>1 DEF Doomed
      <4> QED BY <1>4, <4>1
    <3>2. \A y \in Procs : Recording(proc[y]) => Rewritten(proc[y]) /\ y # x
      BY <1>1 DEF Recording, Rewritten
    <3>3. (\E y \in Procs : Recording(proc[y])) => \E y \in Procs : Recording(proc'[y])
      <4> SUFFICES ASSUME NEW y \in Procs, Recording(proc[y])
                   PROVE  Recording(proc'[y])
        OBVIOUS
      <4> QED BY <1>4, <3>2
    <3>4. Rewritten(s) => projected.edges = Edges(index.nodes)
      <4> SUFFICES ASSUME ~w
                   PROVE  projected.edges = Edges(index.nodes)
        BY <1>5, <1>6 DEF Rewritten
      <4>1. projected.count = Cardinality(Edges(index.nodes)) /\ projected.digest = Edges(index.nodes)
        BY <2>2 DEF EdgesChanged
      <4> QED BY <2>0, <3>1, <3>2, <4>1 DEF EdgesAreTrue
    <3>5. \A y \in Procs : Rewritten(proc'[y]) => projected.edges = Edges(index.nodes)
      <4> SUFFICES ASSUME NEW y \in Procs, Rewritten(proc'[y])
                   PROVE  projected.edges = Edges(index.nodes)
        OBVIOUS
      <4>1. CASE y = x
        BY <3>4, <4>1
      <4>2. CASE y # x
        <5>1. Rewritten(proc[y])
          BY <1>4, <4>2
        <5> QED BY <2>0, <3>1, <5>1 DEF EdgesAreTrue
      <4> QED BY <4>1, <4>2
    <3> QED BY <2>0, <3>1, <3>3, <3>5 DEF EdgesAreTrue
  <2> QED BY <2>4, <2>5
<1>15. IndexTyped' /\ StoresHold'
  <2>1. projected' \in [nodes : Nodes, edges : SUBSET Pages, stamp : Nat,
                        count : {Cardinality(e) : e \in SUBSET Pages}, digest : SUBSET Pages]
    <3>1. r.data \in Nodes
      BY <1>1 DEF Works
    <3> QED BY <1>2, <1>12, <3>1 DEF IndexTyped
  <2> QED BY <1>0, <1>2, <1>4, <1>13, <2>1 DEF IndexTyped, StoresHold
<1> QED BY <1>9, <1>11, <1>14, <1>15 DEF IndexInv

\* What the rows' facts say of a process depends on its record and the
\* generation of index.json alone.
LEMMA SameWords ==
    ASSUME index' = index
    PROVE  \A q : /\ Timely(q)' <=> Timely(q)
                  /\ Doomed(q)' <=> Doomed(q)
                  /\ Recording(q)' <=> Recording(q)
                  /\ Rewritten(q)' <=> Rewritten(q)
  BY DEF Timely, Doomed, Recording, Rewritten, PlaceOf, RefreshPlaces

\* A refresh that works for the index.json that is there has its nodes.
LEMMA TimelyData ==
    ASSUME IndexInv, NEW x \in Procs, Timely(proc[x])
    PROVE  proc[x].data = index.nodes
<1> PICK r : r = proc[x]
  OBVIOUS
<1>1. ProcessInv(x, r) /\ Placed(r) /\ Timely(r)
  BY OfProcess
<1>2. r.job \in {"update", "topology", "rebuild", "heal"}
  BY <1>1, PlacesOfJobs DEF Timely, RefreshPlaces
<1> QED BY <1>1, <1>2 DEF ProcessInv, WhatItHas, WhatItDid, Reader, AfterWrite, Timely, Publishers

\* The edge rows.
LEMMA RefreshEdgesKeeps ==
    ASSUME IndexInv, NEW x \in Procs, RefreshEdges(x)
    PROVE  IndexInv'
<1> PICK r : r = proc[x]
  OBVIOUS
<1>0. UNCHANGED <<canon, owed, index, ftsRows, graph, indexLock>>
  BY DEF RefreshEdges, stores
<1>1. /\ ProcessInv(x, r) /\ Placed(r) /\ r \in Works /\ PlaceOf(r) = "edges" /\ x # Free
      /\ r.job \in {"update", "topology", "rebuild", "heal"}
  <2>1. ProcessInv(x, r) /\ Placed(r) /\ r \in Works /\ PlaceOf(r) = "edges" /\ x # Free
    BY OfProcess DEF RefreshEdges, AtStep
  <2> QED BY <2>1, PlacesOfJobs
<1>2. IndexTyped /\ StoresHold /\ RowsHold
  BY DEF IndexInv
<1> PICK s : s = proc'[x]
  OBVIOUS
<1>4. /\ s = [r EXCEPT !.at = @ + 1] /\ DOMAIN proc' = Procs /\ s \in Works /\ Placed(s)
      /\ \A y \in Procs \ {x} : proc'[y] = proc[y]
  BY Advanced DEF RefreshEdges, AtStep
<1>5. s.job = r.job /\ s.batch = r.batch /\ s.gen = r.gen /\ s.stamp = r.stamp
      /\ s.at = r.at + 1 /\ s.data = r.data /\ s.claims = r.claims /\ s.rewrite = r.rewrite
  BY <1>1, <1>4 DEF Works
<1>6. PlaceOf(s) = "state"
  BY <1>1, <1>5, Moved
<1>8. ProcessInv(x, s)'
  <2>1. WhoOwns(x, s)'
    BY <1>0, <1>1, <1>5, <1>6 DEF ProcessInv, WhoOwns, Locked, Publishers
  <2>2. WhatItHas(s)'
    BY <1>0, <1>1, <1>5, <1>6
       DEF ProcessInv, WhatItHas, BeforeWrite, Claiming, Reader, RefreshPlaces, Settled, Publishers
  <2>3. WhatItDid(s)'
    BY <1>0, <1>5, <1>6, <1>1
       DEF ProcessInv, WhatItDid, AfterWrite, Graphed, Timely, RefreshPlaces, Publishers
  <2> QED BY <1>0, <1>1, <1>5, <1>6, <1>4, <2>1, <2>2, <2>3 DEF ProcessInv
<1>9. \A y \in Procs : ProcessInv(y, proc[y])'
  BY <1>0, <1>4, <1>8, OneMoves
<1>10. torn \subseteq torn' /\ ("fts" \in torn' => "fts" \in torn)
       /\ ("rows" \notin torn' => Timely(r))
  BY <1>1 DEF RefreshEdges, MayTear, Timely, RefreshPlaces
<1>11. FtsHolds'
  <2>1. ~Half(r) /\ ~Half(s)
    BY <1>1, <1>6 DEF Half
  <2> QED BY <1>0, <1>4, <1>10, <2>1, FtsStay
<1>12. projected' = IF r.rewrite THEN [projected EXCEPT !.edges = Edges(r.data)] ELSE projected
  BY DEF RefreshEdges
<1>13. /\ projected'.nodes = projected.nodes
       /\ projected'.edges = (IF r.rewrite THEN Edges(r.data) ELSE projected.edges)
       /\ projected'.stamp = projected.stamp /\ projected'.count = projected.count
       /\ projected'.digest = projected.digest
  BY <1>2, <1>12 DEF IndexTyped
<1>14. RowsHold'
  <2> SUFFICES ASSUME "rows" \notin torn'
               PROVE  EdgesAreTrue' /\ NodesAreTrue'
    BY DEF RowsHold
  <2>0. EdgesAreTrue /\ NodesAreTrue /\ Timely(r)
    BY <1>2, <1>10 DEF RowsHold
  <2>1. Current' <=> Current
    BY <1>0, <1>13 DEF Current
  <2>2. r.data = index.nodes
    BY <2>0, TimelyData
  <2>3. Timely(s)
    BY <1>5, <1>6, <2>0 DEF Timely, RefreshPlaces
  <2>4. NodesAreTrue'
    <3>1. projected.nodes = index.nodes
      BY <1>1, <2>0 DEF NodesAreTrue
    <3> QED BY <1>0, <1>13, <3>1 DEF NodesAreTrue
  <2>5. EdgesAreTrue'
    <3> SUFFICES ASSUME \A y \in Procs : ~Doomed(proc'[y])
                 PROVE  /\ projected'.edges = Edges(index.nodes)
                        /\ \/ projected'.edges = projected.digest
                              /\ projected.count = Cardinality(projected.digest)
                           \/ \E y \in Procs : Recording(proc'[y])
      BY <1>0, <1>13, SameWords DEF EdgesAreTrue, Edges
    <3>1. \A y \in Procs : ~Doomed(proc[y])
      <4>1. ~Doomed(r)
        BY <1>1 DEF Doomed
      <4> QED BY <1>4, <4>1
    <3>2. CASE r.rewrite
      <4>1. Recording(s)
        BY <1>5, <1>6, <2>3, <3>2 DEF Recording
      <4> QED BY <1>13, <2>2, <3>2, <4>1
    <3>3. CASE ~r.rewrite
      <4>1. Rewritten(r)
        BY <1>1, <2>0, <3>3 DEF Rewritten
      <4>2. projected.edges = Edges(index.nodes)
        BY <2>0, <3>1, <4>1 DEF EdgesAreTrue
      <4>3. ASSUME NEW y \in Procs, Recording(proc[y])
            PROVE  Recording(proc'[y])
        <5>1. y # x
          BY <1>1, <4>3 DEF Recording
        <5> QED BY <1>4, <4>3, <5>1
      <4> QED BY <1>13, <2>0, <3>1, <3>3, <4>2, <4>3 DEF EdgesAreTrue
    <3> QED BY <3>2, <3>3
  <2> QED BY <2>4, <2>5
<1>15. IndexTyped' /\ StoresHold'
  <2>1. projected' \in [nodes : Nodes, edges : SUBSET Pages, stamp : Nat,
                        count : {Cardinality(e) : e \in SUBSET Pages}, digest : SUBSET Pages]
    BY <1>2, <1>12 DEF IndexTyped, Edges
  <2> QED BY <1>0, <1>2, <1>4, <1>13, <2>1 DEF IndexTyped, StoresHold
<1> QED BY <1>9, <1>11, <1>14, <1>15 DEF IndexInv

\* The state row.
LEMMA RecordStateKeeps ==
    ASSUME IndexInv, NEW x \in Procs, RecordState(x)
    PROVE  IndexInv'
<1> PICK r : r = proc[x]
  OBVIOUS
<1>0. UNCHANGED <<canon, owed, index, ftsRows, graph, indexLock>>
  BY DEF RecordState, stores
<1>1. /\ ProcessInv(x, r) /\ Placed(r) /\ r \in Works /\ PlaceOf(r) = "state" /\ x # Free
      /\ r.job \in {"update", "topology", "rebuild", "heal"}
  <2>1. ProcessInv(x, r) /\ Placed(r) /\ r \in Works /\ PlaceOf(r) = "state" /\ x # Free
    BY OfProcess DEF RecordState, AtStep
  <2> QED BY <2>1, PlacesOfJobs
<1>2. IndexTyped /\ StoresHold /\ RowsHold
  BY DEF IndexInv
<1> PICK s : s = proc'[x]
  OBVIOUS
<1>4. /\ s = [r EXCEPT !.at = @ + 1] /\ DOMAIN proc' = Procs /\ s \in Works /\ Placed(s)
      /\ \A y \in Procs \ {x} : proc'[y] = proc[y]
  BY Advanced DEF RecordState, AtStep
<1>5. s.job = r.job /\ s.batch = r.batch /\ s.gen = r.gen /\ s.stamp = r.stamp
      /\ s.at = r.at + 1 /\ s.data = r.data /\ s.claims = r.claims /\ s.rewrite = r.rewrite
  BY <1>1, <1>4 DEF Works
<1>6. \/ r.job = "update" /\ PlaceOf(s) = "graph"
      \/ r.job # "update" /\ PlaceOf(s) = "end"
  BY <1>1, <1>5, Moved
<1>8. ProcessInv(x, s)'
  <2>0. r.job \in {"topology", "heal"} => r.batch = {}
    BY <1>1 DEF ProcessInv, WhoOwns
  <2>1. WhoOwns(x, s)'
    BY <1>0, <1>1, <1>5, <1>6, <2>0 DEF ProcessInv, WhoOwns, Locked, Publishers
  <2>2. WhatItHas(s)'
    BY <1>0, <1>1, <1>5, <1>6
       DEF ProcessInv, WhatItHas, BeforeWrite, Claiming, Reader, RefreshPlaces, Settled, Publishers
  <2>3. WhatItDid(s)'
    BY <1>0, <1>5, <1>6, <1>1
       DEF ProcessInv, WhatItDid, AfterWrite, Graphed, Timely, RefreshPlaces, Publishers
  <2> QED BY <1>0, <1>1, <1>5, <1>6, <1>4, <2>1, <2>2, <2>3 DEF ProcessInv
<1>9. \A y \in Procs : ProcessInv(y, proc[y])'
  BY <1>0, <1>4, <1>8, OneMoves
<1>10. torn \subseteq torn' /\ ("fts" \in torn' => "fts" \in torn)
       /\ ("rows" \notin torn' => Timely(r))
  BY <1>1 DEF RecordState, MayTear, Timely, RefreshPlaces
<1>11. FtsHolds'
  <2>1. ~Half(r) /\ ~Half(s)
    BY <1>1, <1>5, <1>6 DEF Half
  <2> QED BY <1>0, <1>4, <1>10, <2>1, FtsStay
<1>12. projected' = [projected EXCEPT !.stamp = r.stamp, !.count = Cardinality(projected.edges),
                                      !.digest = Edges(r.data)]
  BY DEF RecordState
<1>13. /\ projected'.nodes = projected.nodes /\ projected'.edges = projected.edges
       /\ projected'.stamp = r.stamp /\ projected'.count = Cardinality(projected.edges)
       /\ projected'.digest = Edges(r.data)
  BY <1>2, <1>12 DEF IndexTyped
<1>14. RowsHold'
  <2> SUFFICES ASSUME "rows" \notin torn'
               PROVE  EdgesAreTrue' /\ NodesAreTrue'
    BY DEF RowsHold
  <2>0. EdgesAreTrue /\ NodesAreTrue /\ Timely(r)
    BY <1>2, <1>10 DEF RowsHold
  <2>2. r.data = index.nodes
    BY <2>0, TimelyData
  <2>4. NodesAreTrue'
    <3>1. projected.nodes = index.nodes
      BY <1>1, <2>0 DEF NodesAreTrue
    <3> QED BY <1>0, <1>13, <3>1 DEF NodesAreTrue
  <2>5. EdgesAreTrue'
    <3> SUFFICES ASSUME \A y \in Procs : ~Doomed(proc'[y])
                 PROVE  projected.edges = Edges(index.nodes)
      BY <1>0, <1>13, <2>2, SameWords DEF EdgesAreTrue, Edges
    <3>1. \A y \in Procs : ~Doomed(proc[y])
      <4>1. ~Doomed(r)
        BY <2>0 DEF Doomed, Timely
      <4> QED BY <1>4, <4>1
    <3>2. Rewritten(r)
      BY <1>1, <2>0 DEF Rewritten
    <3> QED BY <2>0, <3>1, <3>2 DEF EdgesAreTrue
  <2> QED BY <2>4, <2>5
<1>15. IndexTyped' /\ StoresHold'
  <2>1. projected' \in [nodes : Nodes, edges : SUBSET Pages, stamp : Nat,
                        count : {Cardinality(e) : e \in SUBSET Pages}, digest : SUBSET Pages]
    <3>1. /\ r.stamp \in Nat /\ Edges(r.data) \in SUBSET Pages
          /\ Cardinality(projected.edges) \in {Cardinality(e) : e \in SUBSET Pages}
      BY <1>1, <1>2 DEF Works, Edges, IndexTyped
    <3> PICK t : t = [projected EXCEPT !.stamp = r.stamp]
      OBVIOUS
    <3>2. /\ t \in [nodes : Nodes, edges : SUBSET Pages, stamp : Nat,
                    count : {Cardinality(e) : e \in SUBSET Pages}, digest : SUBSET Pages]
          /\ t.edges = projected.edges
      BY <1>2, <3>1 DEF IndexTyped
    <3> PICK u : u = [t EXCEPT !.count = Cardinality(projected.edges)]
      OBVIOUS
    <3>3. u \in [nodes : Nodes, edges : SUBSET Pages, stamp : Nat,
                 count : {Cardinality(e) : e \in SUBSET Pages}, digest : SUBSET Pages]
      BY <3>1, <3>2
    <3>4. projected' = [u EXCEPT !.digest = Edges(r.data)]
      BY <1>12
    <3> QED BY <3>1, <3>3, <3>4
  <2> QED BY <1>0, <1>1, <1>2, <1>4, <1>13, <2>1 DEF IndexTyped, StoresHold, ProcessInv
<1> QED BY <1>9, <1>11, <1>14, <1>15 DEF IndexInv

\* A transaction of a refresh times out.
LEMMA RefreshFailsKeeps ==
    ASSUME IndexInv, NEW x \in Procs, RefreshFails(x)
    PROVE  IndexInv'
<1> PICK r : r = proc[x]
  OBVIOUS
<1>0. UNCHANGED <<canon, owed, index, ftsRows, graph, projected, indexLock>>
  BY DEF RefreshFails, stores
<1>1. /\ ProcessInv(x, r) /\ Placed(r) /\ r \in Works /\ PlaceOf(r) \in RefreshPlaces /\ x # Free
      /\ r.job \in {"update", "topology", "rebuild", "heal"} /\ Pc(x) = PlaceOf(r)
  <2>1. /\ ProcessInv(x, r) /\ Placed(r) /\ r \in Works /\ PlaceOf(r) \in RefreshPlaces /\ x # Free
        /\ Pc(x) = PlaceOf(r)
    BY OfProcess DEF RefreshFails, Refreshing, RefreshPlaces
  <2> QED BY <2>1, PlacesOfJobs DEF RefreshPlaces
<1>2. IndexTyped /\ StoresHold /\ RowsHold
  BY DEF IndexInv
<1>3. DOMAIN proc = Procs
  BY <1>2 DEF IndexTyped
<1> PICK s : s = proc'[x]
  OBVIOUS
<1> PICK n : n = IF r.job = "update" THEN Len(Steps.update) - 1 ELSE Len(Steps[r.job])
  OBVIOUS
<1>4. /\ s = [r EXCEPT !.at = n] /\ DOMAIN proc' = Procs
      /\ \A y \in Procs \ {x} : proc'[y] = proc[y]
  BY <1>3 DEF RefreshFails
<1>5. s.job = r.job /\ s.batch = r.batch /\ s.gen = r.gen /\ s.stamp = r.stamp
      /\ s.at = n /\ s.data = r.data /\ s.claims = r.claims /\ s.rewrite = r.rewrite
  BY <1>1, <1>4 DEF Works
<1>6. /\ Placed(s)
      /\ \/ r.job = "update" /\ PlaceOf(s) = "graph"
         \/ r.job # "update" /\ PlaceOf(s) = "end"
  <2>1. CASE r.job = "update"
    BY <1>5, <2>1, Skipped
  <2>2. CASE r.job # "update"
    BY <1>1, <1>5, <2>2, Skipped DEF Jobs
  <2> QED BY <2>1, <2>2
<1>7. s \in Works
  <2>1. n \in Nat
    <3>1. s.at \in Nat
      BY <1>6 DEF Placed
    <3> QED BY <1>5, <3>1
  <2> QED BY <1>1, <1>4, <2>1 DEF Works
<1>8. ProcessInv(x, s)'
  <2>0. r.job \in {"topology", "heal"} => r.batch = {}
    BY <1>1 DEF ProcessInv, WhoOwns
  <2>1. WhoOwns(x, s)'
    BY <1>0, <1>1, <1>5, <1>6, <2>0
       DEF ProcessInv, WhoOwns, Locked, Publishers, RefreshPlaces
  <2>2. WhatItHas(s)'
    BY <1>0, <1>1, <1>5, <1>6
       DEF ProcessInv, WhatItHas, BeforeWrite, Claiming, Reader, RefreshPlaces, Settled, Publishers
  <2>3. WhatItDid(s)'
    BY <1>0, <1>5, <1>6, <1>1
       DEF ProcessInv, WhatItDid, AfterWrite, Graphed, Timely, RefreshPlaces, Publishers
  <2> QED BY <1>0, <1>1, <1>5, <1>6, <1>7, <2>1, <2>2, <2>3 DEF ProcessInv
<1>9. \A y \in Procs : ProcessInv(y, proc[y])'
  BY <1>0, <1>4, <1>8, OneMoves
<1>10. torn \subseteq torn' /\ ("fts" \in torn' => "fts" \in torn)
       /\ ("rows" \notin torn' => ~(PlaceOf(r) = "state" /\ r.rewrite))
  BY <1>1 DEF RefreshFails, AtStep
<1>11. FtsHolds'
  <2>1. ~Half(r) /\ ~Half(s)
    BY <1>1, <1>5, <1>6 DEF Half, RefreshPlaces
  <2> QED BY <1>0, <1>4, <1>10, <2>1, FtsStay
<1>12. RowsHold'
  BY <1>0, <1>4, <1>6, <1>10, RowsStay DEF Recording, Doomed
<1>13. IndexTyped' /\ StoresHold'
  BY <1>0, <1>2, <1>4 DEF IndexTyped, StoresHold
<1> QED BY <1>9, <1>11, <1>12, <1>13 DEF IndexInv

\* index.json is replaced.
LEMMA WriteIndexKeeps ==
    ASSUME IndexInv, NEW x \in Procs, WriteIndex(x)
    PROVE  IndexInv'
<1> PICK r : r = proc[x]
  OBVIOUS
<1>0. UNCHANGED <<canon, owed, ftsRows, graph, projected, indexLock, torn>>
  BY DEF WriteIndex, readside
<1>1. /\ ProcessInv(x, r) /\ Placed(r) /\ r \in Works /\ PlaceOf(r) = "write" /\ x # Free
      /\ r.job \in Publishers
  <2>1. ProcessInv(x, r) /\ Placed(r) /\ r \in Works /\ PlaceOf(r) = "write" /\ x # Free
    BY OfProcess DEF WriteIndex, AtStep
  <2> QED BY <2>1, PlacesOfJobs DEF Publishers
<1>2. IndexTyped /\ StoresHold /\ RowsHold /\ FtsHolds
  BY DEF IndexInv
<1> PICK s : s = proc'[x]
  OBVIOUS
<1>4. /\ s = [r EXCEPT !.at = @ + 1] /\ DOMAIN proc' = Procs /\ s \in Works /\ Placed(s)
      /\ \A y \in Procs \ {x} : proc'[y] = proc[y]
  BY Advanced DEF WriteIndex, AtStep
<1>5. s.job = r.job /\ s.batch = r.batch /\ s.gen = r.gen /\ s.stamp = r.stamp
      /\ s.at = r.at + 1 /\ s.data = r.data /\ s.claims = r.claims /\ s.rewrite = r.rewrite
  BY <1>1, <1>4 DEF Works
<1>6. \/ r.job \in {"update", "topology", "rebuild"} /\ PlaceOf(s) = "nodes"
      \/ r.job = "cluster" /\ PlaceOf(s) = "end"
  BY <1>1, <1>5, Moved
<1>7. index'.gen = index.gen + 1 /\ index'.nodes = r.data /\ index.gen \in Nat
  BY <1>2 DEF WriteIndex, IndexTyped
<1>8. Locked(r) /\ BeforeWrite(r)
  BY <1>1 DEF Locked, BeforeWrite, Publishers
<1>9. indexLock = x /\ \A y \in Procs \ {x} : ~Locked(proc[y]) /\ ~Half(proc[y])
  BY <1>8, Alone
<1>10. \A p \in Settled(r) : r.data[p] = canon[p]
  BY <1>1, <1>8 DEF ProcessInv, WhatItHas
<1>11. ProcessInv(x, s)'
  <2>0. r.job = "cluster" => r.batch = {}
    BY <1>1 DEF ProcessInv, WhoOwns
  <2>1. WhoOwns(x, s)'
    BY <1>0, <1>1, <1>5, <1>6, <1>9, <2>0 DEF ProcessInv, WhoOwns, Locked, Publishers
  <2>2. WhatItHas(s)'
    BY <1>0, <1>1, <1>5, <1>6
       DEF ProcessInv, WhatItHas, BeforeWrite, Claiming, Reader, RefreshPlaces, Settled, Publishers
  <2>3. \A p \in Pages : p \in s.batch => index'.nodes[p] = canon'[p]
    BY <1>0, <1>5, <1>7, <1>10 DEF Settled
  <2>4. Graphed(s) => \A p \in Pages : p \in s.batch => graph[p] = canon[p]
    BY <1>1, <1>5, <1>6 DEF ProcessInv, WhatItDid, Graphed
  <2>5. Timely(s)' /\ PlaceOf(s) # "nodes" => FALSE
    BY <1>6 DEF Timely, RefreshPlaces, PlaceOf
  <2>6. WhatItDid(s)'
    BY <1>0, <1>5, <1>7, <2>3, <2>4, <2>5 DEF WhatItDid, PlaceOf, AfterWrite, Graphed
  <2> QED BY <1>0, <1>1, <1>4, <1>5, <1>7, <2>1, <2>2, <2>6 DEF ProcessInv, Works
<1>12. ASSUME NEW y \in Procs, y # x
       PROVE  ProcessInv(y, proc[y])'
  <2> PICK t : t = proc[y]
    OBVIOUS
  <2>1. ProcessInv(y, t) /\ ~Locked(t) /\ proc'[y] = t /\ Placed(t) /\ t \in Works
    BY <1>4, <1>9, <1>12, OfProcess
  <2>2. WhoOwns(y, t)'
    BY <1>0, <2>1 DEF ProcessInv, WhoOwns
  <2>3. t.gen # index'.gen
    BY <1>7, <2>1 DEF ProcessInv, Works
  <2>4. WhatItHas(t)'
    <3>1. ~BeforeWrite(t) /\ ~Claiming(t)
      BY <2>1, PlacesOfJobs DEF BeforeWrite, Claiming, Locked, Publishers
    <3>2. /\ ~(t.job = "update" /\ PlaceOf(t) \in {"sql", "write"})
          /\ ~(t.job \in {"topology", "cluster"} /\ PlaceOf(t) \in {"pages", "write"})
      BY <2>1 DEF Locked, Publishers
    <3> QED BY <1>0, <2>1, <2>3, <3>1, <3>2 DEF ProcessInv, WhatItHas, PlaceOf, Reader,
                                                BeforeWrite, Claiming
  <2>5. WhatItDid(t)'
    <3>1. ~AfterWrite(t) /\ ~Timely(t)'
      BY <2>1, <2>3, PlacesOfJobs DEF AfterWrite, Timely, Locked, Publishers, RefreshPlaces, PlaceOf
    <3>2. t.job \in Publishers /\ PlaceOf(t) = "end" => t.batch \subseteq {Sys}
      BY <1>9, <1>12, <2>1 DEF ProcessInv, WhoOwns
    <3>3. Graphed(t) => t.batch \subseteq {Sys}
      BY <2>1, <3>2 DEF Graphed, Locked, Publishers
    <3> QED BY <1>0, <3>1, <3>2, <3>3, IndexAssumption DEF WhatItDid, PlaceOf, AfterWrite, Graphed
  <2>6. ProcessInv(y, t)'
    BY <1>7, <2>1, <2>2, <2>4, <2>5 DEF ProcessInv, Works
  <2> QED BY <2>1, <2>6
<1>13. FtsHolds'
  <2>1. \A y \in Procs : ~Half(proc'[y])
    <3>1. ~Half(s)
      BY <1>6 DEF Half
    <3> QED BY <1>4, <1>9, <3>1
  <2>2. "fts" \notin torn => ftsRows = r.data
    <3>1. CASE Half(r)
      BY <1>1, <1>2, <3>1 DEF FtsHolds
    <3>2. CASE ~Half(r)
      <4>1. r.job \in {"topology", "cluster"}
        BY <1>1, <3>2 DEF Half, Publishers
      <4>2. r.data = index.nodes
        BY <1>1, <4>1 DEF ProcessInv, WhatItHas
      <4>3. \A y \in Procs : ~Half(proc[y])
        BY <1>9, <3>2
      <4> QED BY <1>2, <4>2, <4>3 DEF FtsHolds
    <3> QED BY <3>1, <3>2
  <2>3. \A y \in Procs : Half(proc[y])' <=> Half(proc'[y])
    BY DEF Half, PlaceOf
  <2>4. "fts" \notin torn' => ftsRows' = index'.nodes
    BY <1>0, <1>7, <2>2
  <2> QED BY <2>1, <2>3, <2>4 DEF FtsHolds
<1>14. RowsHold'
  <2> SUFFICES ASSUME "rows" \notin torn'
               PROVE  EdgesAreTrue' /\ NodesAreTrue'
    BY DEF RowsHold
  <2>0. EdgesAreTrue
    BY <1>0, <1>2 DEF RowsHold
  <2>1. ~Current'
    BY <1>0, <1>2, <1>7 DEF Current, IndexTyped
  <2>2. \A y \in Procs : ~(Timely(proc[y])' /\ PlaceOf(proc'[y]) # "nodes")
    <3> SUFFICES ASSUME NEW y \in Procs, Timely(proc[y])', PlaceOf(proc'[y]) # "nodes"
                 PROVE  FALSE
      OBVIOUS
    <3>1. y # x
      BY <1>6 DEF Timely, RefreshPlaces, PlaceOf
    <3> PICK t : t = proc[y]
      OBVIOUS
    <3>2. ProcessInv(y, t) /\ ~Locked(t) /\ proc'[y] = t /\ Placed(t) /\ t \in Works
      BY <1>4, <1>9, <3>1, OfProcess
    <3>3. t.gen # index'.gen
      BY <1>7, <3>2 DEF ProcessInv, Works
    <3> QED BY <3>2, <3>3, PlacesOfJobs DEF Timely, Locked, Publishers, RefreshPlaces, PlaceOf
  <2>3. NodesAreTrue'
    BY <2>1, <2>2 DEF NodesAreTrue, PlaceOf
  <2>4. EdgesAreTrue'
    <3> SUFFICES ASSUME \A y \in Procs : ~Doomed(proc[y])'
                 PROVE  projected.edges = projected.digest
                        /\ projected.count = Cardinality(projected.digest)
      BY <1>0, <2>1, <2>2 DEF EdgesAreTrue, Rewritten, PlaceOf
    <3>1. \A y \in Procs : ~Doomed(proc[y]) /\ ~Recording(proc[y])
      <4> SUFFICES ASSUME NEW y \in Procs, Doomed(proc[y]) \/ Recording(proc[y])
                   PROVE  FALSE
        OBVIOUS
      <4> PICK t : t = proc[y]
        OBVIOUS
      <4>1. PlaceOf(t) = "state" /\ t.rewrite
        BY DEF Doomed, Recording
      <4>2. y # x
        BY <1>1, <4>1
      <4>3. ProcessInv(y, t) /\ ~Locked(t) /\ proc'[y] = t /\ Placed(t) /\ t \in Works
        BY <1>4, <1>9, <4>2, OfProcess
      <4>4. t.job = "heal"
        BY <4>1, <4>3, PlacesOfJobs DEF Locked, Publishers
      <4>5. t.gen # index'.gen
        BY <1>7, <4>3 DEF ProcessInv, Works
      <4>6. Doomed(t)'
        BY <4>1, <4>4, <4>5 DEF Doomed, PlaceOf
      <4> QED BY <4>3, <4>6
    <3> QED BY <2>0, <3>1 DEF EdgesAreTrue
  <2> QED BY <2>3, <2>4
<1>15. IndexTyped' /\ StoresHold'
  <2>1. index' \in [gen : Nat, nodes : Nodes, dirty : BOOLEAN]
    <3>1. r.data \in Nodes
      BY <1>1 DEF Works
    <3> QED BY <1>7, <3>1 DEF WriteIndex
  <2>2. projected.stamp <= index'.gen
    BY <1>2, <1>7 DEF IndexTyped
  <2>3. \A p \in Pages \ owed : r.data[p] = canon[p]
    BY <1>10 DEF Settled
  <2> QED BY <1>0, <1>2, <1>4, <1>7, <2>1, <2>2, <2>3 DEF IndexTyped, StoresHold
<1> QED BY <1>11, <1>12, <1>13, <1>14, <1>15 DEF IndexInv

\* claim_topology.json is replaced.
LEMMA WriteGraphKeeps ==
    ASSUME IndexInv, NEW x \in Procs, WriteGraph(x)
    PROVE  IndexInv'
<1> PICK r : r = proc[x]
  OBVIOUS
<1>0. UNCHANGED <<canon, owed, index, ftsRows, projected, indexLock, torn>>
  BY DEF WriteGraph, readside
<1>1. /\ ProcessInv(x, r) /\ Placed(r) /\ r \in Works /\ PlaceOf(r) = "graph" /\ x # Free
      /\ r.job \in {"update", "rebuild"}
  <2>1. ProcessInv(x, r) /\ Placed(r) /\ r \in Works /\ PlaceOf(r) = "graph" /\ x # Free
    BY OfProcess DEF WriteGraph, AtStep
  <2> QED BY <2>1, PlacesOfJobs
<1>2. IndexTyped /\ StoresHold /\ RowsHold
  BY DEF IndexInv
<1>3. DOMAIN proc = Procs
  BY <1>2 DEF IndexTyped
<1> PICK s : s = proc'[x]
  OBVIOUS
<1>4. /\ s = [r EXCEPT !.at = @ + 1, !.claims = NoNodes] /\ DOMAIN proc' = Procs
      /\ \A y \in Procs \ {x} : proc'[y] = proc[y]
  BY <1>3 DEF WriteGraph
<1>5. s.job = r.job /\ s.batch = r.batch /\ s.gen = r.gen /\ s.stamp = r.stamp
      /\ s.at = r.at + 1 /\ s.data = r.data /\ s.rewrite = r.rewrite
  BY <1>1, <1>4 DEF Works
<1>6. /\ Placed(s)
      /\ \/ r.job = "rebuild" /\ PlaceOf(s) = "write"
         \/ r.job = "update" /\ PlaceOf(s) = "end"
  BY <1>1, <1>5, Moved
<1>7. s \in Works /\ graph' = r.claims /\ graph' \in Nodes
  <2>1. r.at \in Nat /\ NoNodes \in Nodes
    BY <1>1 DEF Works, Nodes, NoNodes
  <2> PICK t : t = [r EXCEPT !.at = r.at + 1]
    OBVIOUS
  <2>2. t \in Works
    BY <1>1, <2>1 DEF Works
  <2>3. [t EXCEPT !.claims = NoNodes] \in Works
    BY <2>1, <2>2 DEF Works
  <2> QED BY <1>1, <1>4, <2>3 DEF WriteGraph, Works
<1>8. Locked(r) /\ Claiming(r)
  BY <1>1 DEF Locked, Claiming, Publishers
<1>9. indexLock = x /\ \A y \in Procs \ {x} : ~Locked(proc[y]) /\ ~Half(proc[y])
  BY <1>8, Alone
<1>10. \A p \in Settled(r) : graph'[p] = canon[p]
  BY <1>1, <1>7, <1>8 DEF ProcessInv, WhatItHas
<1>11. ProcessInv(x, s)'
  <2>1. WhoOwns(x, s)'
    BY <1>0, <1>1, <1>5, <1>6, <1>9 DEF ProcessInv, WhoOwns, Locked, Publishers
  <2>2. WhatItHas(s)'
    BY <1>0, <1>1, <1>5, <1>6
       DEF ProcessInv, WhatItHas, BeforeWrite, Claiming, Reader, RefreshPlaces, Settled, Publishers
  <2>3. \A p \in Pages : p \in s.batch => graph'[p] = canon'[p]
    BY <1>0, <1>5, <1>10 DEF Settled
  <2>4. r.job = "update" => \A p \in Pages : p \in s.batch => index.nodes[p] = canon[p]
    BY <1>1, <1>5 DEF ProcessInv, WhatItDid, AfterWrite
  <2>5. ~AfterWrite(s) /\ ~Timely(s)'
    BY <1>6, <1>5 DEF AfterWrite, Timely, RefreshPlaces, PlaceOf
  <2>6. WhatItDid(s)'
    BY <1>0, <1>5, <1>6, <2>3, <2>4, <2>5 DEF WhatItDid, PlaceOf, AfterWrite, Graphed
  <2> QED BY <1>0, <1>1, <1>5, <1>6, <1>7, <2>1, <2>2, <2>6 DEF ProcessInv
<1>12. ASSUME NEW y \in Procs, y # x
       PROVE  ProcessInv(y, proc[y])'
  <2> PICK t : t = proc[y]
    OBVIOUS
  <2>1. ProcessInv(y, t) /\ ~Locked(t) /\ proc'[y] = t
    BY <1>4, <1>9, <1>12, OfProcess
  <2>2. Graphed(t) => t.batch \subseteq {Sys}
    BY <1>9, <1>12, <2>1 DEF ProcessInv, WhoOwns, Graphed, Locked, Publishers
  <2>3. WhatItDid(t)'
    BY <1>0, <2>1, <2>2, IndexAssumption
       DEF ProcessInv, WhatItDid, PlaceOf, AfterWrite, Graphed, Timely
  <2>4. ProcessInv(y, t)'
    BY <1>0, <2>1, <2>3 DEF ProcessInv, WhoOwns, WhatItHas, Settled
  <2> QED BY <2>1, <2>4
<1>13. FtsHolds'
  <2>1. /\ Half(s) <=> Half(r)
        /\ PlaceOf(s) # "sync" /\ PlaceOf(r) # "sync"
    BY <1>1, <1>5, <1>6 DEF Half
  <2> QED BY <1>0, <1>4, <1>5, <2>1, FtsStay
<1>14. RowsHold'
  BY <1>0, <1>1, <1>4, <1>6, RowsStay DEF Recording, Doomed
<1>15. IndexTyped' /\ StoresHold'
  <2>1. \A p \in Pages \ owed : graph'[p] = canon[p]
    BY <1>10 DEF Settled
  <2> QED BY <1>0, <1>2, <1>4, <1>7, <2>1 DEF IndexTyped, StoresHold
<1> QED BY <1>11, <1>12, <1>13, <1>14, <1>15 DEF IndexInv

\* A process leaves its job; it may leave a store behind only by saying so.
LEMMA Leaves ==
    ASSUME IndexInv, NEW x \in Procs, LeaveJob(x),
           UNCHANGED <<canon, index, ftsRows, graph, projected>>,
           owed' \in Batches, (owed \ {Sys} \subseteq owed') \/ indexLock = x,
           torn \subseteq torn',
           "fts" \notin torn' => ~Half(proc[x]),
           "rows" \notin torn' => ~Recording(proc[x]) /\ ~Doomed(proc[x]),
           StoresHold'
    PROVE  IndexInv'
<1>1. IndexTyped
  BY DEF IndexInv
<1>2. DOMAIN proc = Procs
  BY <1>1 DEF IndexTyped
<1> PICK s : s = NoJob
  OBVIOUS
<1>3. proc'[x] = s /\ DOMAIN proc' = Procs /\ \A y \in Procs \ {x} : proc'[y] = proc[y]
  BY <1>2 DEF LeaveJob
<1>4. indexLock' = indexLock \/ indexLock \in {Free, x}
  BY DEF LeaveJob
<1>5. /\ s.job = "idle" /\ s.at = 1 /\ s.batch = {} /\ s.gen = 0 /\ s.stamp = 0
      /\ s.rewrite = FALSE
  BY DEF NoJob
<1>6. Placed(s) /\ PlaceOf(s) = "idle"
  <2>1. Placed(s)
    BY <1>5 DEF Placed
  <2> QED BY <1>5, <2>1, PlacesOfJobs
<1>7. s \in Works
  <2>1. NoNodes \in Nodes /\ {} \in Batches
    BY DEF NoNodes, Nodes, Batches
  <2>2. NoJob \in Works
    BY <2>1 DEF NoJob, Works, Jobs
  <2> QED BY <2>2
<1>8. ProcessInv(x, s)'
  <2>1. WhoOwns(x, s)'
    BY <1>5, <1>6 DEF WhoOwns, Locked, Publishers, PlaceOf
  <2>2. WhatItHas(s)'
    BY <1>5, <1>6 DEF WhatItHas, BeforeWrite, Claiming, Reader, RefreshPlaces, Publishers, PlaceOf
  <2>3. WhatItDid(s)'
    BY <1>5, <1>6 DEF WhatItDid, AfterWrite, Graphed, Timely, RefreshPlaces, Publishers, PlaceOf
  <2>4. 0 <= index'.gen
    BY <1>1 DEF IndexTyped
  <2> QED BY <1>5, <1>6, <1>7, <2>1, <2>2, <2>3, <2>4 DEF ProcessInv, Placed
<1>9. \A y \in Procs : ProcessInv(y, proc[y])'
  BY <1>3, <1>4, <1>8, OneMoves
<1>10. FtsHolds'
  <2>1. ~Half(s)
    BY <1>5 DEF Half
  <2> QED BY <1>3, <2>1, FtsStay
<1>11. RowsHold'
  BY <1>3, <1>6, RowsStay
<1>12. IndexTyped'
  BY <1>1, <1>3 DEF IndexTyped, LeaveJob
<1> QED BY <1>9, <1>10, <1>11, <1>12 DEF IndexInv

\* The batch's outbox rows are completed.
LEMMA EndKeeps ==
    ASSUME IndexInv, NEW x \in Procs, End(x)
    PROVE  IndexInv'
<1> PICK r : r = proc[x]
  OBVIOUS
<1>1. ProcessInv(x, r) /\ Placed(r) /\ r \in Works /\ PlaceOf(r) = "end"
  BY OfProcess DEF End, AtStep
<1>2. /\ UNCHANGED <<canon, index, ftsRows, graph, projected, torn>> /\ LeaveJob(x)
      /\ owed' = owed \ r.batch
  BY DEF End, stores, readside
<1>3. IndexTyped /\ StoresHold
  BY DEF IndexInv
<1>4. owed' \in Batches
  BY <1>2, <1>3 DEF IndexTyped, Batches
<1>5. (owed \ {Sys} \subseteq owed') \/ indexLock = x
  BY <1>1, <1>2 DEF ProcessInv, WhoOwns
<1>6. \A p \in Pages : p \in r.batch => index.nodes[p] = canon[p] /\ graph[p] = canon[p]
  <2>1. r.batch # {} => r.job \in {"update", "rebuild"}
    BY <1>1 DEF ProcessInv, WhoOwns
  <2> QED BY <1>1, <2>1 DEF ProcessInv, WhatItDid, Graphed, Publishers
<1>7. StoresHold'
  BY <1>2, <1>3, <1>6 DEF StoresHold
<1>8. ~Half(r) /\ ~Recording(r) /\ ~Doomed(r)
  BY <1>1 DEF Half, Recording, Doomed
<1> QED BY <1>2, <1>4, <1>5, <1>7, <1>8, Leaves

\* A lock is not to be had.
LEMMA LockTimeoutKeeps ==
    ASSUME IndexInv, NEW x \in Procs, LockTimeout(x)
    PROVE  IndexInv'
<1> PICK r : r = proc[x]
  OBVIOUS
<1>1. Placed(r) /\ PlaceOf(r) \in {"lock", "pages"}
  BY OfProcess DEF LockTimeout, AtStep
<1>2. UNCHANGED <<canon, owed, index, ftsRows, graph, projected, torn>> /\ LeaveJob(x)
  BY DEF LockTimeout, stores, readside
<1>3. IndexTyped /\ StoresHold
  BY DEF IndexInv
<1>4. ~Half(r) /\ ~Recording(r) /\ ~Doomed(r)
  BY <1>1 DEF Half, Recording, Doomed
<1>5. StoresHold' /\ owed' \in Batches
  BY <1>2, <1>3 DEF StoresHold, IndexTyped
<1> QED BY <1>2, <1>4, <1>5, Leaves

\* A process dies.
LEMMA StopsKeeps ==
    ASSUME IndexInv, NEW x \in Procs, Stops(x)
    PROVE  IndexInv'
<1> PICK r : r = proc[x]
  OBVIOUS
<1>1. Placed(r) /\ Pc(x) = PlaceOf(r)
  BY OfProcess
<1>2. UNCHANGED <<canon, owed, index, ftsRows, graph, projected>> /\ LeaveJob(x)
  BY DEF Stops, stores, readside
<1>3. IndexTyped /\ StoresHold
  BY DEF IndexInv
<1>4. /\ torn \subseteq torn'
      /\ "fts" \notin torn' => ~Half(r)
      /\ "rows" \notin torn' => ~Recording(r) /\ ~Doomed(r)
  <2>1. HalfPublished(x) <=> Half(r)
    BY <1>1 DEF HalfPublished, Half, AtStep
  <2>2. AtStep(x, "state") <=> PlaceOf(r) = "state"
    BY <1>1 DEF AtStep
  <2>3. torn' = torn \cup (IF PlaceOf(r) = "state" /\ r.rewrite THEN {"rows"} ELSE {})
                     \cup (IF Half(r) THEN {"fts"} ELSE {})
    BY <2>1, <2>2 DEF Stops
  <2> QED BY <2>3 DEF Recording, Doomed
<1>5. StoresHold' /\ owed' \in Batches
  BY <1>2, <1>3 DEF StoresHold, IndexTyped
<1> QED BY <1>2, <1>4, <1>5, Leaves

\* A page is committed that nobody publishes.
LEMMA CommitKeeps ==
    ASSUME IndexInv, NEW q \in Pages, NEW t \in PageTexts \cup {Absent}, Commit(q, t)
    PROVE  IndexInv'
<1>1. /\ UNCHANGED <<index, ftsRows, graph, projected, indexLock, proc, torn>>
      /\ canon' = [canon EXCEPT ![q] = t] /\ owed' = owed \cup {q} /\ q \notin PageLocks
  BY DEF Commit, stores, readside
<1>2. IndexTyped /\ StoresHold
  BY DEF IndexInv
<1>3. \A p \in Pages : p # q => canon'[p] = canon[p]
  BY <1>1, <1>2 DEF IndexTyped, Nodes
<1>4. \A y \in Procs : ProcessInv(y, proc[y])'
  <2> SUFFICES ASSUME NEW y \in Procs
               PROVE  ProcessInv(y, proc[y])'
    OBVIOUS
  <2> PICK r : r = proc[y]
    OBVIOUS
  <2>1. ProcessInv(y, r)
    BY OfProcess
  <2>2. q \notin r.batch
    BY <1>1 DEF PageLocks
  <2>3. \A p \in Settled(r)' : p \in Settled(r) /\ p # q
    BY <1>1, <2>2 DEF Settled
  <2>4. WhoOwns(y, r)'
    BY <1>1, <2>1 DEF ProcessInv, WhoOwns
  <2>5. WhatItHas(r)'
    <3>1. r.job = "update" /\ PlaceOf(r) = "lock"
              => \A p \in Pages : p \in r.batch => r.data[p] = canon'[p]
      BY <1>3, <2>1, <2>2 DEF ProcessInv, WhatItHas
    <3>2. BeforeWrite(r) => \A p \in Settled(r)' : r.data[p] = canon'[p]
      BY <1>3, <2>1, <2>3 DEF ProcessInv, WhatItHas, Settled
    <3>3. Claiming(r) => \A p \in Settled(r)' : r.claims[p] = canon'[p]
      BY <1>3, <2>1, <2>3 DEF ProcessInv, WhatItHas, Settled
    <3> QED BY <1>1, <2>1, <3>1, <3>2, <3>3 DEF ProcessInv, WhatItHas, Reader
  <2>6. WhatItDid(r)'
    BY <1>1, <1>3, <2>1, <2>2 DEF ProcessInv, WhatItDid, Timely
  <2>7. ProcessInv(y, r)'
    BY <1>1, <2>1, <2>4, <2>5, <2>6 DEF ProcessInv
  <2> QED BY <1>1, <2>7
<1>5. FtsHolds'
  BY <1>1 DEF IndexInv, FtsHolds, Half, PlaceOf
<1>6. RowsHold'
  BY <1>1 DEF IndexInv, RowsHold, EdgesAreTrue, NodesAreTrue, Current, Rewritten, Timely,
              Doomed, Recording, PlaceOf, Edges
<1>7. IndexTyped' /\ StoresHold'
  BY <1>1, <1>2, <1>3 DEF IndexTyped, StoresHold, Nodes, Batches
<1> QED BY <1>4, <1>5, <1>6, <1>7 DEF IndexInv

\* A job is taken up.
LEMMA Started ==
    ASSUME IndexInv, NEW x \in Procs, NEW job \in Jobs \ {"idle"}, NEW batch \in Batches,
           NEW data \in Nodes, StartJob(x, job, batch, data),
           UNCHANGED <<canon, owed, index, ftsRows, graph, projected, indexLock, torn>>,
           (x # "consumer" \/ job \notin {"update", "rebuild"}) => batch = {},
           job = "update" => \A p \in Pages : p \in batch => data[p] = canon[p],
           job = "repair" => data = index.nodes
    PROVE  IndexInv'
<1> PICK r : r = proc[x]
  OBVIOUS
<1>1. ProcessInv(x, r) /\ Placed(r) /\ r \in Works /\ PlaceOf(r) = "idle"
  BY OfProcess DEF StartJob, AtStep
<1>2. IndexTyped /\ StoresHold
  BY DEF IndexInv
<1>3. DOMAIN proc = Procs
  BY <1>2 DEF IndexTyped
<1> PICK s : s = proc'[x]
  OBVIOUS
<1> PICK g : g = IF job = "repair" THEN index.gen ELSE 0
  OBVIOUS
<1>4. /\ s = [NoJob EXCEPT !.job = job, !.batch = batch, !.data = data, !.gen = g]
      /\ DOMAIN proc' = Procs /\ \A y \in Procs \ {x} : proc'[y] = proc[y]
  BY <1>3 DEF StartJob
<1>5. /\ s = [job |-> job, at |-> 1, batch |-> batch, data |-> data, claims |-> NoNodes,
              gen |-> g, stamp |-> 0, rewrite |-> FALSE]
      /\ s.job = job /\ s.at = 1 /\ s.batch = batch /\ s.data = data /\ s.gen = g
      /\ s.stamp = 0 /\ s.rewrite = FALSE
  <2>1. s = [job |-> job, at |-> 1, batch |-> batch, data |-> data, claims |-> NoNodes,
              gen |-> g, stamp |-> 0, rewrite |-> FALSE]
    BY <1>4 DEF NoJob
  <2> QED BY <2>1
<1>6. /\ Placed(s)
      /\ \/ job \in Publishers /\ PlaceOf(s) = "lock"
         \/ job = "heal" /\ PlaceOf(s) = "load"
         \/ job = "repair" /\ PlaceOf(s) = "sync"
  <2>1. Placed(s)
    BY <1>5 DEF Placed, Jobs
  <2> QED BY <1>5, <2>1, PlacesOfJobs DEF Publishers, Jobs
<1>7. s \in Works /\ s.gen <= index.gen /\ s.stamp <= index.gen
  <2>1. NoNodes \in Nodes /\ index.gen \in Nat /\ g \in Nat /\ g <= index.gen
    BY <1>2 DEF NoNodes, Nodes, IndexTyped
  <2>2. s \in Works
    BY <1>5, <2>1 DEF Works
  <2> QED BY <1>5, <2>1, <2>2
<1>8. ProcessInv(x, s)'
  <2>1. WhoOwns(x, s)'
    BY <1>5, <1>6 DEF WhoOwns, Locked, Publishers, PlaceOf
  <2>2. WhatItHas(s)'
    BY <1>5, <1>6
       DEF WhatItHas, BeforeWrite, Claiming, Reader, RefreshPlaces, Publishers, PlaceOf
  <2>3. WhatItDid(s)'
    BY <1>5, <1>6 DEF WhatItDid, AfterWrite, Graphed, Timely, RefreshPlaces, Publishers, PlaceOf
  <2> QED BY <1>6, <1>7, <2>1, <2>2, <2>3 DEF ProcessInv, Placed
<1>9. \A y \in Procs : ProcessInv(y, proc[y])'
  BY <1>4, <1>8, OneMoves
<1>10. FtsHolds'
  <2>1. ~Half(s) /\ ~Half(r)
    BY <1>1, <1>5, <1>6 DEF Half, Publishers
  <2> QED BY <1>4, <2>1, FtsStay
<1>11. RowsHold'
  BY <1>1, <1>4, <1>6, RowsStay DEF Recording, Doomed
<1>12. IndexTyped' /\ StoresHold'
  BY <1>2, <1>4 DEF IndexTyped, StoresHold
<1> QED BY <1>9, <1>10, <1>11, <1>12 DEF IndexInv

\* What the facts rest on stays.
LEMMA IndexFrame ==
    ASSUME IndexInv,
           UNCHANGED <<canon, owed, index, ftsRows, graph, projected, indexLock, proc, torn>>
    PROVE  IndexInv'
<1>1. \A y \in Procs : ProcessInv(y, proc[y])'
  <2> SUFFICES ASSUME NEW y \in Procs
               PROVE  ProcessInv(y, proc[y])'
    OBVIOUS
  <2> PICK r : r = proc[y]
    OBVIOUS
  <2>1. ProcessInv(y, r)
    BY OfProcess
  <2>2. ProcessInv(y, r)'
    BY <2>1 DEF ProcessInv, WhoOwns, WhatItHas, WhatItDid, Settled, Timely
  <2> QED BY <2>2
<1>2. FtsHolds'
  BY DEF IndexInv, FtsHolds, Half, PlaceOf
<1>3. RowsHold'
  BY DEF IndexInv, RowsHold, EdgesAreTrue, NodesAreTrue, Current, Rewritten, Timely,
         Doomed, Recording, PlaceOf, Edges
<1>4. IndexTyped' /\ StoresHold'
  BY DEF IndexInv, IndexTyped, StoresHold
<1> QED BY <1>1, <1>2, <1>3, <1>4 DEF IndexInv

\* The jobs and what each starts with.
LEMMA StartsKeep ==
    ASSUME IndexInv,
           \/ \E batch \in SUBSET owed : StartUpdate(batch)
           \/ StartTopology \/ StartHeal \/ StartRebuild
           \/ \E job \in {"cluster", "repair"} : StartOther(job)
    PROVE  IndexInv'
<1>0. /\ {} \in Batches /\ NoNodes \in Nodes /\ index.nodes \in Nodes /\ canon \in Nodes
      /\ owed \in Batches
  BY DEF IndexInv, IndexTyped, Batches, Nodes, NoNodes
<1>p. "consumer" \in Procs /\ "scheduler" \in Procs /\ "operator" \in Procs
  BY DEF Procs
<1>1. ASSUME NEW batch \in SUBSET owed, StartUpdate(batch)
      PROVE  IndexInv'
  <2> PICK data : data = [p \in Pages |-> IF p \in batch THEN canon[p] ELSE Absent]
    OBVIOUS
  <2> PICK job : job = IF index.gen = 0 /\ batch # {Sys} THEN "rebuild" ELSE "update"
    OBVIOUS
  <2>1. StartJob("consumer", job, batch, data)
    BY <1>1 DEF StartUpdate
  <2>2. data \in Nodes /\ \A p \in Pages : p \in batch => data[p] = canon[p]
    BY <1>0 DEF Nodes
  <2>3. batch \in Batches /\ job \in Jobs \ {"idle"} /\ job \in {"update", "rebuild"}
    BY <1>0 DEF Batches, Jobs
  <2>4. UNCHANGED <<canon, owed, index, ftsRows, graph, projected, indexLock, torn>>
    BY <1>1 DEF StartUpdate, stores, readside
  <2> QED BY <1>p, <2>1, <2>2, <2>3, <2>4, Started
<1>2. ASSUME StartTopology
      PROVE  IndexInv'
  <2> PICK job : job = IF index.gen = 0 THEN "rebuild" ELSE "topology"
    OBVIOUS
  <2> PICK data : data = index.nodes
    OBVIOUS
  <2>1. StartJob("scheduler", job, {}, data)
    BY <1>2 DEF StartTopology
  <2>2. job \in Jobs \ {"idle"} /\ job \in {"topology", "rebuild"}
    BY DEF Jobs
  <2>3. UNCHANGED <<canon, owed, index, ftsRows, graph, projected, indexLock, torn>>
    BY <1>2 DEF StartTopology, stores, readside
  <2> QED BY <1>0, <1>p, <2>1, <2>2, <2>3, Started
<1>3. ASSUME StartHeal
      PROVE  IndexInv'
  <2>1. UNCHANGED <<canon, owed, index, ftsRows, graph, projected, indexLock, torn>>
    BY <1>3 DEF StartHeal, stores
  <2>2. CASE Current
    BY <1>3, <2>1, <2>2, IndexFrame DEF StartHeal
  <2>3. CASE ~Current
    <3>1. StartJob("consumer", "heal", {}, NoNodes)
      BY <1>3, <2>3 DEF StartHeal
    <3> QED BY <1>0, <1>p, <2>1, <3>1, Started DEF Jobs
  <2> QED BY <2>2, <2>3
<1>4. ASSUME StartRebuild
      PROVE  IndexInv'
  <2>1. UNCHANGED <<canon, owed, index, ftsRows, graph, projected, indexLock, torn>>
        /\ StartJob("operator", "rebuild", {}, NoNodes)
    BY <1>4 DEF StartRebuild, stores, readside
  <2> QED BY <1>0, <1>p, <2>1, Started DEF Jobs
<1>5. ASSUME NEW job \in {"cluster", "repair"}, StartOther(job)
      PROVE  IndexInv'
  <2> PICK data : data = index.nodes
    OBVIOUS
  <2>1. UNCHANGED <<canon, owed, index, ftsRows, graph, projected, indexLock, torn>>
        /\ StartJob("operator", job, {}, data)
    BY <1>5 DEF StartOther, stores, readside
  <2> QED BY <1>0, <1>p, <2>1, Started DEF Jobs
<1> QED BY <1>1, <1>2, <1>3, <1>4, <1>5

\* The facts hold before the first publication.
LEMMA IndexInits ==
    ASSUME IndexInit
    PROVE  IndexInv
<1> PICK s : s = NoJob
  OBVIOUS
<1>1. /\ index = [gen |-> 0, nodes |-> NoNodes, dirty |-> FALSE] /\ ftsRows = NoNodes
      /\ graph = NoNodes /\ indexLock = Free /\ torn = {}
      /\ \A x \in Procs : proc[x] = s
      /\ DOMAIN proc = Procs
      /\ projected = [nodes |-> NoNodes, edges |-> {}, stamp |-> 0, count |-> 0, digest |-> {}]
  BY DEF IndexInit
<1>2. NoNodes \in Nodes
  BY DEF Nodes, NoNodes
<1>3. Cardinality({}) = 0
  BY FS_EmptySet
<1>4. IndexTyped
  <2>1. 0 \in {Cardinality(e) : e \in SUBSET Pages}
    BY <1>3
  <2>2. canon \in Nodes /\ owed \in Batches
    BY DEF IndexInit, Batches
  <2> QED BY <1>1, <1>2, <2>1, <2>2 DEF IndexTyped
<1>5. StoresHold
  BY <1>1 DEF StoresHold, IndexInit, NoNodes, Absent
<1>6. /\ s.job = "idle" /\ s.at = 1 /\ s.batch = {} /\ s.gen = 0 /\ s.stamp = 0
      /\ s.rewrite = FALSE /\ s \in Works
  <2>1. {} \in Batches
    BY DEF Batches
  <2> QED BY <1>2, <2>1 DEF NoJob, Works, Jobs
<1>7. Placed(s) /\ PlaceOf(s) = "idle"
  <2>1. Placed(s)
    BY <1>6 DEF Placed
  <2> QED BY <1>6, <2>1, PlacesOfJobs
<1>8. \A x \in Procs : ProcessInv(x, s)
  <2> SUFFICES ASSUME NEW x \in Procs
               PROVE  ProcessInv(x, s)
    OBVIOUS
  <2>1. WhoOwns(x, s)
    BY <1>6, <1>7 DEF WhoOwns, Locked, Publishers
  <2>2. WhatItHas(s)
    BY <1>6, <1>7 DEF WhatItHas, BeforeWrite, Claiming, Reader, RefreshPlaces
  <2>3. WhatItDid(s)
    BY <1>6, <1>7 DEF WhatItDid, AfterWrite, Graphed, Timely, RefreshPlaces
  <2>4. index.gen = 0
    BY <1>1
  <2> QED BY <1>6, <1>7, <2>1, <2>2, <2>3, <2>4 DEF ProcessInv
<1>9. FtsHolds
  BY <1>1, <1>6 DEF FtsHolds, Half
<1>10. RowsHold
  <2>1. ~Current
    BY <1>1 DEF Current
  <2>2. projected.edges = {} /\ projected.digest = {} /\ projected.count = 0
    BY <1>1
  <2>3. ~Timely(s) /\ ~Rewritten(s)
    BY <1>7 DEF Timely, Rewritten, RefreshPlaces
  <2> QED BY <1>1, <1>3, <2>1, <2>2, <2>3 DEF RowsHold, EdgesAreTrue, NodesAreTrue
<1> QED BY <1>1, <1>4, <1>5, <1>8, <1>9, <1>10 DEF IndexInv

\* What the property says follows from the facts.
LEMMA IndexImplies ==
    ASSUME IndexInv
    PROVE  StoresFollowCanon
<1>1. /\ IndexTyped /\ StoresHold /\ FtsHolds /\ RowsHold
      /\ \A x \in Procs : ProcessInv(x, proc[x])
  BY DEF IndexInv
<1>2. CompletedIsPublished
  <2> SUFFICES ASSUME NEW p \in Pages \ owed
               PROVE  "fts" \in torn \/ ftsRows[p] = canon[p]
    BY <1>1 DEF CompletedIsPublished, StoresHold
  <2> SUFFICES ASSUME "fts" \notin torn
               PROVE  ftsRows[p] = canon[p]
    OBVIOUS
  <2>1. CASE \A x \in Procs : ~Half(proc[x])
    BY <1>1, <2>1 DEF FtsHolds, StoresHold
  <2>2. ASSUME NEW x \in Procs, Half(proc[x])
        PROVE  ftsRows[p] = canon[p]
    <3>1. proc[x].data[p] = canon[p]
      <4>1. BeforeWrite(proc[x])
        BY <2>2 DEF Half, BeforeWrite, Publishers
      <4>2. p \in Settled(proc[x])
        BY DEF Settled
      <4> QED BY <1>1, <4>1, <4>2 DEF ProcessInv, WhatItHas
    <3>2. index.nodes[p] = canon[p]
      BY <1>1 DEF StoresHold
    <3> QED BY <1>1, <2>2, <3>1, <3>2 DEF FtsHolds
  <2> QED BY <2>1, <2>2
<1>3. CurrentUnlessTorn
  <2> SUFFICES ASSUME Current, "rows" \notin torn, \A x \in Procs : ~Refreshing(x)
               PROVE  projected.nodes = index.nodes /\ projected.edges = Edges(index.nodes)
    BY DEF CurrentUnlessTorn
  <2>1. \A x \in Procs : ~Doomed(proc[x])
    BY OfProcess DEF Refreshing, Doomed
  <2> QED BY <1>1, <2>1 DEF RowsHold, EdgesAreTrue, NodesAreTrue
<1> QED BY <1>2, <1>3 DEF StoresFollowCanon

\* The inductive invariant of the publication.
LEMMA IndexInductive ==
    IndexSpec => []IndexInv
<1>1. IndexInit => IndexInv
  BY IndexInits
<1>2. IndexInv /\ [IndexNext]_indexVars => IndexInv'
  <2> SUFFICES ASSUME IndexInv, [IndexNext]_indexVars
               PROVE  IndexInv'
    OBVIOUS
  <2>1. CASE UNCHANGED indexVars
    BY <2>1, IndexFrame DEF indexVars, stores, readside
  <2>2. CASE \E p \in Pages, t \in PageTexts \cup {Absent} : Commit(p, t)
    BY <2>2, CommitKeeps
  <2>3. CASE \/ \E batch \in SUBSET owed : StartUpdate(batch)
             \/ StartTopology \/ StartHeal \/ StartRebuild
             \/ \E job \in {"cluster", "repair"} : StartOther(job)
    BY <2>3, StartsKeep
  <2>4. ASSUME NEW x \in Procs, Publish(x)
        PROVE  IndexInv'
    BY <2>4, LockKeeps, ReadClaimsKeeps, UpdateRowsKeeps, SyncEndsKeeps, SyncRowKeeps,
       CommunityPagesKeeps, WriteIndexKeeps, WriteGraphKeeps DEF Publish
  <2>5. ASSUME NEW x \in Procs, RefreshStep(x)
        PROVE  IndexInv'
    BY <2>5, LoadKeeps, RefreshNodesKeeps, RefreshEdgesKeeps, RecordStateKeeps DEF RefreshStep
  <2>6. ASSUME NEW x \in Procs, End(x) \/ LockTimeout(x) \/ RefreshFails(x) \/ Stops(x)
        PROVE  IndexInv'
    BY <2>6, EndKeeps, LockTimeoutKeeps, RefreshFailsKeeps, StopsKeeps
  <2> QED BY <2>1, <2>2, <2>3, <2>4, <2>5, <2>6 DEF IndexNext, Work
<1> QED BY <1>1, <1>2, PTL DEF IndexSpec

\* What was completed is published, and the readers' rows that carry the stamp
\* of index.json hold it, but for the stores that a named race left behind.
THEOREM StoresAlwaysFollowCanon ==
    IndexSpec => []StoresFollowCanon
  BY IndexInductive, IndexImplies, PTL

-----------------------------------------------------------------------------
(* GramIndex.                                                              *)
(* As long as a rebuild meets no other, what it has read of a document that *)
(* is not marked is its text.  A search knows every document that had its  *)
(* term while it worked: a base that is not mixed has no others but those  *)
(* it skips.                                                               *)

\* Min is the least.
LEMMA MinIsLeast ==
    ASSUME NEW S \in SUBSET Nat, S # {}
    PROVE  Min(S) \in S /\ \A x \in S : Min(S) <= x
  BY LeastExists DEF Min

Postings == Grams \X Docs
HeldTexts == DocTexts \cup {Missing}
AnyTables == [stage : (SUBSET Postings) \cup {Missing},
              stamp : [Docs -> HeldTexts] \cup {Missing},
              new : (SUBSET Postings) \cup {Missing}]
Tables == {t \in AnyTables : t.stage = Missing <=> t.stamp = Missing}
Working == {"read", "stage", "list", "pack"}
AnyRebuildings == [at : Working \cup {"idle", "drop"}, last : Nat, batch : SUBSET Grams,
                   grams : SUBSET Grams, packed : Nat]
Rebuildings == {q \in AnyRebuildings :
                   q.at = "stage" => q.last \in Docs /\ q.batch \in DocTexts}
Searching == [at : {"admitted", "skipping", "scored"}, term : Grams, had : SUBSET Docs,
              kept : SUBSET Docs, skip : SUBSET Docs, hits : SUBSET Docs, mixed : BOOLEAN]

GramTyped ==
    /\ docs \in [Docs -> HeldTexts] /\ dirty \in SUBSET Docs
    /\ base \in SUBSET Postings /\ state \in Nat \cup {Missing}
    /\ scratch \in Tables
    /\ rebuild \in [Rebuilders -> Rebuildings]
    /\ search \in Searching \cup {Resting}
    /\ overlap \in BOOLEAN /\ mixed \in BOOLEAN

\* A text has a gram, a table has exactly the grams of a text.
Has(text, g) == text # Missing /\ g \in text
Posts(table, d, text) == \A g \in Grams : <<g, d>> \in table <=> Has(text, g)

\* The base is right of every document that is not marked.
BaseIsExact == state # Missing => \A d \in Docs \ dirty : Posts(base, d, docs[d])

\* Documents that a rebuild has behind it.
Passed(r, d) == \/ r.at \in {"list", "pack"} \/ d < r.last
                \/ d = r.last /\ r.at # "stage"

\* While a rebuild works its tables are there and agree with each other, and
\* what it has read of a document that is not marked is its text.
Staged(r) ==
    r.at \in Working =>
        /\ scratch.stage # Missing /\ scratch.stamp # Missing /\ scratch.new # Missing
        /\ \A d \in Docs : /\ Posts(scratch.stage, d, scratch.stamp[d])
                           /\ Passed(r, d) \/ scratch.stamp[d] = Missing
        /\ \A d \in Docs \ dirty : Passed(r, d) => scratch.stamp[d] = docs[d]
        /\ r.at = "stage" /\ r.last \notin dirty => r.batch = docs[r.last]
        /\ r.at # "pack" => scratch.new = {}
        /\ r.at = "pack" => scratch.new = {p \in scratch.stage : p[1] \notin r.grams}

\* What a rebuild may yet publish of a document, it has read while the search
\* was there, or the search knows of it.
Foreseen(r, d) ==
    r.at \in Working => /\ Has(scratch.stamp[d], search.term) => d \in search.had
                        /\ r.at = "stage" /\ r.last = d /\ search.term \in r.batch
                               => d \in search.had

\* Rebuilds that have not met: one of them at most is under way.
Apart == \A r, s \in Rebuilders :
             rebuild[r].at # "idle" /\ rebuild[s].at # "idle" => r = s

\* A search knows who had its term, what it will not get from the base is
\* skipped, and what it keeps is not marked.
SearchKnows ==
    search.at # "idle" =>
        /\ state # Missing
        /\ mixed => search.mixed
        /\ \A d \in Docs : Has(docs[d], search.term) => d \in search.had
        /\ \A d \in search.kept : d \notin dirty /\ Has(docs[d], search.term)
        /\ search.at = "skipping" => search.kept \cap search.skip = {}
        /\ search.at = "skipping" /\ ~search.mixed =>
               \A d \in Docs \ search.skip :
                   /\ <<search.term, d>> \in base => d \in search.had
                   /\ ~overlap => \A r \in Rebuilders : Foreseen(rebuild[r], d)
        /\ search.at = "scored" /\ ~search.mixed =>
               search.kept \subseteq search.hits /\ search.hits \subseteq search.had

GramInv == /\ GramTyped /\ SearchKnows
           /\ ~mixed => BaseIsExact
           /\ ~overlap => Apart /\ \A r \in Rebuilders : Staged(rebuild[r])

\* The empty index is exact.
LEMMA GramStarts == GramInit => GramInv
<1> SUFFICES ASSUME GramInit PROVE GramInv OBVIOUS
<1>1. GramTyped
  <2>1. NoRebuild \in Rebuildings BY DEF NoRebuild, Rebuildings, AnyRebuildings, Working
  <2>2. NoTables \in Tables BY DEF NoTables, Tables, AnyTables
  <2> QED BY <2>1, <2>2, GramAssumption DEF GramInit, GramTyped, HeldTexts, Live
<1>2. Apart /\ \A r \in Rebuilders : Staged(rebuild[r])
  BY DEF GramInit, NoRebuild, Staged, Working, Apart
<1> QED BY <1>1, <1>2 DEF GramInit, GramInv, BaseIsExact, SearchKnows, Resting

\* A document is written: it is marked, and the search learns of it.
LEMMA KeepWrites ==
    ASSUME GramInv, NEW d \in Docs, NEW text \in HeldTexts, Becomes(d, text)
    PROVE  GramInv'
<1> USE DEF GramInv
<1>1. GramTyped'
  <2>1. search' \in Searching \cup {Resting}
    BY DEF Becomes, Witnessed, GramTyped, Searching, Resting
  <2> QED BY <2>1 DEF Becomes, GramTyped, history
<1>2. UNCHANGED <<rebuild, overlap, mixed>> BY DEF Becomes, history
<1>3. BaseIsExact => BaseIsExact' BY DEF Becomes, GramTyped, BaseIsExact
<1>4. ASSUME NEW r \in Rebuilders, Staged(rebuild[r]) PROVE Staged(rebuild[r])'
  BY <1>4 DEF Becomes, GramTyped, Staged, Passed
<1>5. SearchKnows'
  <2> SUFFICES ASSUME search'.at # "idle" PROVE SearchKnows' BY DEF SearchKnows
  <2> DEFINE has == text # Missing /\ search.term \in text
  <2>1. search \in Searching /\ search.at # "idle" BY DEF Becomes, Witnessed, GramTyped, Resting
  <2>2. /\ search'.at = search.at /\ search'.term = search.term
        /\ search'.had = search.had \cup (IF has THEN {d} ELSE {})
        /\ search'.kept = search.kept \ {d}
        /\ search'.skip = search.skip /\ search'.hits = search.hits
        /\ search'.mixed = search.mixed
    BY <2>1 DEF Becomes, Witnessed, Searching
  <2>3. UNCHANGED <<base, state, scratch, rebuild>> BY DEF Becomes
  <2>4. docs' = [docs EXCEPT ![d] = text] /\ dirty' = dirty \cup {d} BY DEF Becomes
  <2>5. docs \in [Docs -> HeldTexts] BY DEF GramTyped
  <2>6. \A e \in Docs : Has(docs'[e], search.term) => e \in search'.had
    BY <2>1, <2>2, <2>4, <2>5 DEF SearchKnows, Has
  <2>7. \A e \in search'.kept : e \notin dirty' /\ Has(docs'[e], search.term)
    BY <2>1, <2>2, <2>4, <2>5 DEF SearchKnows, Searching
  <2>8. \A e \in Docs \ search.skip, r \in Rebuilders :
            Foreseen(rebuild[r], e) => Foreseen(rebuild[r], e)'
    BY <2>2, <2>3 DEF Foreseen
  <2> QED BY <1>2, <2>1, <2>2, <2>3, <2>6, <2>7, <2>8 DEF SearchKnows
<1> QED BY <1>1, <1>2, <1>3, <1>4, <1>5 DEF Apart

-----------------------------------------------------------------------------
\* A step of a rebuild that leaves base, state and markers alone.
LEMMA KeepPrivate ==
    ASSUME GramInv, NEW r \in Rebuilders, scratch' \in Tables,
           rebuild'[r] \in Rebuildings, rebuild' = [rebuild EXCEPT ![r] = rebuild'[r]],
           UNCHANGED <<content, base, state, search, mixed>>, overlap' \in BOOLEAN,
           ~overlap' => \A s \in Rebuilders \ {r} : rebuild[s].at = "idle",
           ~overlap' => Staged(rebuild[r])',
           ~overlap' /\ search.at = "skipping" /\ ~search.mixed =>
               \A d \in Docs \ search.skip : Foreseen(rebuild[r], d)'
    PROVE  GramInv'
<1> USE DEF GramInv
<1>1. GramTyped' BY DEF GramTyped, content
<1>2. ASSUME NEW s \in Rebuilders \ {r} PROVE rebuild'[s] = rebuild[s]
  BY DEF GramTyped
<1>3. ~mixed' => BaseIsExact' BY DEF BaseIsExact, content
<1>4. ASSUME ~overlap', NEW s \in Rebuilders \ {r}
      PROVE  Staged(rebuild[s])' /\ \A d \in Docs : Foreseen(rebuild[s], d)'
  BY <1>2, <1>4 DEF Staged, Foreseen, Working
<1>5. ~overlap' => Apart' BY <1>2 DEF Apart
<1>6. ~overlap' /\ search.at = "skipping" /\ ~search.mixed =>
          \A d \in Docs \ search.skip, s \in Rebuilders : Foreseen(rebuild[s], d)'
  BY <1>4
<1>7. SearchKnows' BY <1>6 DEF SearchKnows, content
<1> QED BY <1>1, <1>3, <1>4, <1>5, <1>7

\* The same of a rebuild that was under way.
LEMMA KeepOwn ==
    ASSUME GramInv, NEW r \in Rebuilders, rebuild[r].at # "idle", scratch' \in Tables,
           rebuild'[r] \in Rebuildings, rebuild' = [rebuild EXCEPT ![r] = rebuild'[r]],
           UNCHANGED <<content, base, state, search, history>>,
           ~overlap => Staged(rebuild[r])',
           ~overlap /\ search.at = "skipping" => \A d \in Docs \ search.skip :
               Foreseen(rebuild[r], d) => Foreseen(rebuild[r], d)'
    PROVE  GramInv'
<1>1. UNCHANGED <<content, base, state, search, mixed, overlap>> BY DEF history
<1>2. overlap \in BOOLEAN BY DEF GramInv, GramTyped
<1>3. ~overlap => \A s \in Rebuilders \ {r} : rebuild[s].at = "idle" BY DEF GramInv, Apart
<1>4. ~overlap /\ search.at = "skipping" /\ ~search.mixed =>
          \A d \in Docs \ search.skip : Foreseen(rebuild[r], d)
  BY DEF GramInv, SearchKnows
<1> QED BY <1>1, <1>2, <1>3, <1>4, KeepPrivate

\* A rebuild is over, in one way or the other.
LEMMA KeepEnd ==
    ASSUME GramInv, NEW r \in Rebuilders, rebuild[r].at # "idle", scratch' \in Tables,
           Go(r, NoRebuild), UNCHANGED <<content, base, state, search, history>>
    PROVE  GramInv'
<1>1. rebuild \in [Rebuilders -> Rebuildings] BY DEF GramInv, GramTyped
<1>2. rebuild' = [rebuild EXCEPT ![r] = NoRebuild] BY DEF Go
<1>3. rebuild'[r] = NoRebuild BY <1>1, <1>2
<1>4. NoRebuild \in Rebuildings BY DEF NoRebuild, Rebuildings, AnyRebuildings
<1>5. NoRebuild.at \notin Working BY DEF NoRebuild, Working
<1>6. Staged(rebuild[r])' BY <1>3, <1>5 DEF Staged
<1>7. \A d \in Docs : Foreseen(rebuild[r], d)' BY <1>3, <1>5 DEF Foreseen
<1> QED BY <1>2, <1>3, <1>4, <1>6, <1>7, KeepOwn

\* The tables are made anew.
LEMMA KeepBegin ==
    ASSUME GramInv, NEW r \in Rebuilders, BeginRebuild(r)
    PROVE  GramInv'
<1>1. rebuild \in [Rebuilders -> Rebuildings] /\ docs \in [Docs -> HeldTexts] BY DEF GramInv,
        GramTyped
<1>2. rebuild'[r] = [NoRebuild EXCEPT !.at = "read"] BY <1>1 DEF BeginRebuild, Go
<1>3. rebuild'[r] \in Rebuildings BY <1>2 DEF NoRebuild, Rebuildings, AnyRebuildings, Working
<1>4. scratch' = NewTables BY DEF BeginRebuild
<1>5. UNCHANGED <<content, base, state, search, mixed>> BY DEF BeginRebuild
<1>6. \A d \in Docs : scratch'.stamp[d] = Missing BY <1>4 DEF NewTables
<1>7. /\ scratch'.stage = {} /\ scratch'.new = {}
      /\ scratch'.stamp \in [Docs -> HeldTexts]
  BY <1>4 DEF NewTables, HeldTexts
<1>8. scratch'.stage # Missing /\ scratch'.new # Missing /\ scratch'.stamp # Missing
  BY <1>7, GramAssumption DEF HeldTexts
<1>9. scratch' \in Tables
  <2>1. scratch' \in AnyTables BY <1>4, <1>7 DEF NewTables, AnyTables
  <2> QED BY <1>8, <2>1 DEF Tables
<1>10. /\ rebuild'[r].at = "read" /\ \A d \in Docs : ~Passed(rebuild'[r], d)
  BY <1>2, GramAssumption DEF NoRebuild, Passed
<1>11. Staged(rebuild[r])'
  BY <1>6, <1>7, <1>8, <1>10 DEF Staged, Posts, Has
<1>12. \A d \in Docs : Foreseen(rebuild[r], d)'
  BY <1>6, <1>10 DEF Foreseen, Has
<1>13. /\ overlap' \in BOOLEAN
       /\ ~overlap' => \A s \in Rebuilders \ {r} : rebuild[s].at = "idle"
  BY DEF BeginRebuild, Meets, InPhase
<1>14. rebuild' = [rebuild EXCEPT ![r] = rebuild'[r]] BY <1>2 DEF BeginRebuild, Go
<1> QED
  BY <1>3, <1>5, <1>9, <1>11, <1>12, <1>13, <1>14, KeepPrivate

\* The least document after the last one is read.
LEMMA KeepReadBatch ==
    ASSUME GramInv, NEW r \in Rebuilders, ReadBatch(r)
    PROVE  GramInv'
<1> DEFINE q == rebuild[r]
<1>1. /\ rebuild \in [Rebuilders -> Rebuildings] /\ docs \in [Docs -> HeldTexts]
      /\ scratch \in Tables /\ q \in Rebuildings
  BY DEF GramInv, GramTyped
<1>2. UNCHANGED <<content, base, state, scratch, search, history>> /\ q.at = "read"
  BY DEF ReadBatch, InPhase
<1>3. ~overlap => Staged(q) BY DEF GramInv
<1>4. \A d \in Docs : d \in Nat BY GramAssumption
<1>5. CASE Next1(r) = {}
  <2>1. rebuild' = [rebuild EXCEPT ![r] = [q EXCEPT !.at = "list"]] BY <1>5 DEF ReadBatch, Go
  <2>2. rebuild'[r] = [q EXCEPT !.at = "list"] BY <1>1, <2>1
  <2>3. rebuild'[r] \in Rebuildings BY <1>1, <2>2 DEF Rebuildings, AnyRebuildings, Working
  <2>4. \A d \in Docs : ~Passed(q, d) => docs[d] = Missing
    BY <1>1, <1>2, <1>4, <1>5 DEF Next1, Live, Passed, Rebuildings, AnyRebuildings
  <2>5. ~overlap => Staged(rebuild[r])'
    BY <1>1, <1>2, <1>3, <2>2, <2>4
       DEF Staged, Rebuildings, AnyRebuildings, Working, Passed, content
  <2>6. \A d \in Docs : Foreseen(q, d) => Foreseen(rebuild[r], d)'
    BY <1>1, <1>2, <2>2 DEF Foreseen, Rebuildings, AnyRebuildings, Working
  <2> QED BY <1>1, <1>2, <2>1, <2>3, <2>5, <2>6, KeepOwn
<1>6. CASE Next1(r) # {}
  <2> DEFINE m == Min(Next1(r))
             step == [q EXCEPT !.at = "stage", !.last = m, !.batch = docs[m]]
  <2>1. Next1(r) \subseteq Nat BY <1>4 DEF Next1, Live
  <2>2. m \in Next1(r) /\ \A d \in Next1(r) : m <= d BY <1>6, <2>1, MinIsLeast
  <2>3. rebuild' = [rebuild EXCEPT ![r] = step] BY <1>6 DEF ReadBatch, Go
  <2>4. m \in Docs /\ m > q.last /\ docs[m] \in DocTexts
    BY <1>1, <2>2 DEF Next1, Live, HeldTexts
  <2> HIDE DEF m
  <2>5. docs[m] \in SUBSET Grams BY <2>4, GramAssumption
  <2>6. rebuild'[r] = step BY <1>1, <2>3
  <2>7. step \in Rebuildings BY <1>1, <1>4, <2>4, <2>5 DEF Rebuildings, AnyRebuildings, Working
  <2>8. step.at = "stage" /\ step.last = m /\ step.batch = docs[m]
    BY <1>1 DEF Rebuildings, AnyRebuildings
  <2> HIDE DEF step
  <2>9. \A d \in Docs : Passed(step, d) /\ ~Passed(q, d) => docs[d] = Missing
    <3> SUFFICES ASSUME NEW d \in Docs, d < m, ~(d <= q.last), docs[d] # Missing PROVE FALSE
      BY <1>1, <1>2, <1>4, <2>4, <2>8 DEF Passed, Rebuildings, AnyRebuildings
    <3>1. d \in Next1(r) BY <1>1, <1>4 DEF Next1, Live, Rebuildings, AnyRebuildings
    <3> QED BY <1>4, <2>2, <2>4, <3>1
  <2>10. \A d \in Docs : Passed(q, d) => Passed(step, d)
    BY <1>1, <1>2, <1>4, <2>4, <2>8 DEF Passed, Rebuildings, AnyRebuildings
  <2>11. ~overlap => Staged(step)
    BY <1>2, <1>3, <2>4, <2>8, <2>9, <2>10 DEF Staged, Working
  <2>12. ~overlap => Staged(rebuild[r])' BY <1>2, <2>6, <2>11 DEF Staged, Passed, content
  <2>13. search.at = "skipping" =>
             \A d \in Docs \ search.skip : Foreseen(q, d) => Foreseen(rebuild[r], d)'
    <3> SUFFICES ASSUME search.at = "skipping", NEW d \in Docs, Foreseen(q, d)
                 PROVE  Foreseen(step, d)
      BY <1>2, <2>6 DEF Foreseen
    <3>1. Has(docs[m], search.term) => m \in search.had BY <2>4 DEF GramInv, SearchKnows
    <3>2. docs[m] # Missing BY <2>4, GramAssumption
    <3> QED BY <1>2, <2>8, <3>1, <3>2 DEF Foreseen, Has, Working
  <2> QED BY <1>1, <1>2, <2>3, <2>6, <2>7, <2>12, <2>13, KeepOwn
<1> QED BY <1>5, <1>6

\* What was read is staged, with its stamp.
LEMMA KeepStageBatch ==
    ASSUME GramInv, NEW r \in Rebuilders, StageBatch(r)
    PROVE  GramInv'
<1> DEFINE q == rebuild[r]  m == q.last  step == [q EXCEPT !.at = "read"]
           tables == [scratch EXCEPT !.stage = @ \cup PostingsOf(m, q.batch), !.stamp[m] = q.batch]
<1>1. /\ rebuild \in [Rebuilders -> Rebuildings] /\ docs \in [Docs -> HeldTexts]
      /\ scratch \in Tables /\ q \in Rebuildings
  BY DEF GramInv, GramTyped
<1>2. UNCHANGED <<content, base, state, search, history>> /\ q.at = "stage"
  BY DEF StageBatch, InPhase
<1>3. ~overlap => Staged(q) BY DEF GramInv
<1>4. /\ m \in Docs /\ q.batch \in DocTexts /\ q.batch \in SUBSET Grams /\ q.batch # Missing
  <2>1. m \in Docs /\ q.batch \in DocTexts BY <1>1, <1>2 DEF Rebuildings
  <2>2. q.batch \in SUBSET Grams BY <1>1 DEF Rebuildings, AnyRebuildings
  <2>3. q.batch # Missing BY <2>2, GramAssumption
  <2> QED BY <2>1, <2>2, <2>3
<1>5. CASE scratch.stage = Missing
  BY <1>1, <1>2, <1>5, KeepEnd DEF StageBatch, Unless
<1>6. CASE scratch.stage # Missing
  <2>1. scratch' = tables /\ rebuild' = [rebuild EXCEPT ![r] = step]
    BY <1>6 DEF StageBatch, Unless, Go
  <2>2. rebuild'[r] = step BY <1>1, <2>1
  <2>3. step \in Rebuildings /\ step.at = "read" /\ step.last = m
    BY <1>1 DEF Rebuildings, AnyRebuildings, Working
  <2>4. /\ scratch.stage \in SUBSET Postings /\ scratch.stamp \in [Docs -> HeldTexts]
        /\ scratch.stamp # Missing
    BY <1>1, <1>6 DEF Tables, AnyTables
  <2>5. /\ scratch'.stage = scratch.stage \cup PostingsOf(m, q.batch)
        /\ scratch'.stamp = [scratch.stamp EXCEPT ![m] = q.batch]
        /\ scratch'.new = scratch.new
    BY <1>1, <2>1 DEF Tables, AnyTables
  <2>6. PostingsOf(m, q.batch) \in SUBSET Postings BY <1>4 DEF PostingsOf, Postings
  <2>7. scratch'.stage \in SUBSET Postings BY <2>4, <2>5, <2>6
  <2>8. scratch'.stamp \in [Docs -> HeldTexts] BY <1>4, <2>4, <2>5 DEF HeldTexts
  <2>9. scratch'.stage # Missing /\ scratch'.stamp # Missing
    BY <2>7, <2>8, GramAssumption DEF Postings, HeldTexts
  <2>10. scratch' \in AnyTables BY <1>1, <2>1, <2>5, <2>7, <2>8 DEF Tables, AnyTables
  <2>11. scratch' \in Tables BY <2>9, <2>10 DEF Tables
  <2> HIDE DEF step, tables
  <2>12. \A d \in Docs : Passed(step, d) <=> Passed(q, d) \/ d = m
    BY <1>1, <1>2, <2>3 DEF Passed, Rebuildings, AnyRebuildings
  <2>13. \A d \in Docs : d # m => scratch'.stamp[d] = scratch.stamp[d]
    BY <2>4, <2>5
  <2>14. scratch'.stamp[m] = q.batch BY <1>4, <2>4, <2>5
  <2>15. ASSUME ~overlap PROVE Staged(rebuild[r])'
    <3>1. Staged(q) BY <1>3, <2>15
    <3>2. \A d \in Docs : Posts(scratch'.stage, d, scratch'.stamp[d])
      <4>1. ASSUME NEW d \in Docs, NEW g \in Grams
            PROVE  <<g, d>> \in scratch'.stage <=> Has(scratch'.stamp[d], g)
        <5>1. <<g, d>> \in scratch.stage <=> Has(scratch.stamp[d], g)
          BY <1>2, <3>1 DEF Staged, Working, Posts
        <5>2. <<g, d>> \in PostingsOf(m, q.batch) <=> d = m /\ g \in q.batch
          BY DEF PostingsOf
        <5>3. d = m => scratch.stamp[d] = Missing
          BY <1>1, <1>2, <3>1, <1>4, GramAssumption DEF Staged, Working, Passed
        <5> QED BY <1>4, <2>4, <2>5, <5>1, <5>2, <5>3 DEF Has
      <4> QED BY <4>1, Zenon DEF Posts
    <3>3. \A d \in Docs : Passed(step, d) \/ scratch'.stamp[d] = Missing
      BY <1>2, <2>12, <2>13, <3>1 DEF Staged, Working
    <3>4. \A d \in Docs \ dirty : Passed(step, d) => scratch'.stamp[d] = docs[d]
      BY <1>2, <2>12, <2>13, <2>14, <3>1 DEF Staged, Working
    <3>5. scratch'.new = {} /\ scratch'.new # Missing
      BY <1>2, <2>5, <3>1 DEF Staged, Working
    <3> QED BY <1>2, <2>2, <2>3, <2>9, <3>2, <3>3, <3>4, <3>5 DEF Staged, content
  <2>16. search.at = "skipping" => \A d \in Docs \ search.skip :
             Foreseen(q, d) => Foreseen(rebuild[r], d)'
    BY <1>2, <1>4, <2>2, <2>3, <2>13, <2>14 DEF Foreseen, Has, Working
  <2> QED BY <1>2, <2>1, <2>2, <2>3, <2>11, <2>15, <2>16, KeepOwn
<1> QED BY <1>5, <1>6

\* The grams are listed.
LEMMA KeepList ==
    ASSUME GramInv, NEW r \in Rebuilders, List(r)
    PROVE  GramInv'
<1> DEFINE q == rebuild[r]
           step == [q EXCEPT !.at = "pack", !.grams = {p[1] : p \in scratch.stage}]
<1>1. /\ rebuild \in [Rebuilders -> Rebuildings] /\ scratch \in Tables /\ q \in Rebuildings
  BY DEF GramInv, GramTyped
<1>2. UNCHANGED <<content, base, state, search, history>> /\ q.at = "list"
  BY DEF List, InPhase
<1>3. ~overlap => Staged(q) BY DEF GramInv
<1>4. scratch' = scratch BY DEF List, Unless
<1>5. CASE scratch.stage = Missing
  BY <1>1, <1>2, <1>4, <1>5, KeepEnd DEF List, Unless
<1>6. CASE scratch.stage # Missing
  <2>1. rebuild' = [rebuild EXCEPT ![r] = step] BY <1>6 DEF List, Unless, Go
  <2>2. rebuild'[r] = step BY <1>1, <2>1
  <2>3. scratch.stage \in SUBSET Postings BY <1>1, <1>6 DEF Tables, AnyTables
  <2>4. {p[1] : p \in scratch.stage} \in SUBSET Grams BY <2>3 DEF Postings
  <2>5. step.at = "pack" /\ step.grams = {p[1] : p \in scratch.stage}
    BY <1>1 DEF Rebuildings, AnyRebuildings
  <2>6. step \in Rebuildings
    <3> DEFINE all == {p[1] : p \in scratch.stage}
    <3>1. step = [q EXCEPT !.at = "pack", !.grams = all] OBVIOUS
    <3> HIDE DEF all, step
    <3>2. all \in SUBSET Grams BY <2>4 DEF all
    <3>3. step \in AnyRebuildings
      BY <1>1, <3>1, <3>2 DEF Rebuildings, AnyRebuildings, Working
    <3> QED BY <2>5, <3>3 DEF Rebuildings
  <2> HIDE DEF step
  <2>7. ~overlap => scratch.new = {p \in scratch.stage : p[1] \notin step.grams}
    BY <1>2, <1>3, <2>5 DEF Staged, Working
  <2>8. ~overlap => Staged(rebuild[r])'
    BY <1>2, <1>3, <1>4, <2>2, <2>5, <2>7 DEF Staged, Working, Passed, content
  <2>9. \A d \in Docs : Foreseen(q, d) => Foreseen(rebuild[r], d)'
    BY <1>2, <1>4, <2>2, <2>5 DEF Foreseen, Working
  <2> QED BY <1>1, <1>2, <1>4, <2>1, <2>2, <2>6, <2>8, <2>9, KeepOwn
<1> QED BY <1>5, <1>6

\* A gram is packed.
LEMMA KeepPack ==
    ASSUME GramInv, NEW r \in Rebuilders, Pack(r)
    PROVE  GramInv'
<1> DEFINE q == rebuild[r]  g == Min(q.grams)
           chunk == {p \in scratch.stage : p[1] = g}
           step == [q EXCEPT !.grams = @ \ {g}, !.packed = @ + (IF chunk = {} THEN 0 ELSE 1)]
<1>1. /\ rebuild \in [Rebuilders -> Rebuildings] /\ scratch \in Tables /\ q \in Rebuildings
  BY DEF GramInv, GramTyped
<1>2. UNCHANGED <<content, base, state, search, history>> /\ q.at = "pack"
  BY DEF Pack, InPhase
<1>3. ~overlap => Staged(q) BY DEF GramInv
<1>4. CASE Missing \in {scratch.stage, scratch.new}
  BY <1>1, <1>2, <1>4, KeepEnd DEF Pack, Unless
<1>5. CASE Missing \notin {scratch.stage, scratch.new}
  <2>1. /\ scratch' = [scratch EXCEPT !.new = @ \cup chunk]
        /\ rebuild' = [rebuild EXCEPT ![r] = step]
    BY <1>5 DEF Pack, Unless, Go
  <2>2. rebuild'[r] = step BY <1>1, <2>1
  <2>3. scratch.stage \in SUBSET Postings /\ scratch.new \in SUBSET Postings
    BY <1>1, <1>5 DEF Tables, AnyTables
  <2>4. step \in Rebuildings
    <3> DEFINE more == IF chunk = {} THEN 0 ELSE 1
    <3>1. more \in Nat OBVIOUS
    <3>2. step = [q EXCEPT !.grams = @ \ {g}, !.packed = @ + more] OBVIOUS
    <3> HIDE DEF more, step
    <3>3. q.packed + more \in Nat BY <1>1, <3>1 DEF Rebuildings, AnyRebuildings
    <3> QED BY <1>1, <1>2, <3>2, <3>3 DEF Rebuildings, AnyRebuildings
  <2>5. step.at = "pack" /\ step.grams = q.grams \ {g} /\ step.last = q.last
    BY <1>1, <1>2 DEF Rebuildings, AnyRebuildings
  <2>6. /\ scratch'.stage = scratch.stage /\ scratch'.stamp = scratch.stamp
        /\ scratch'.new = scratch.new \cup chunk
    BY <1>1, <2>1 DEF Tables, AnyTables
  <2>7. scratch'.new \in SUBSET Postings BY <2>3, <2>6
  <2>8. scratch' \in AnyTables BY <1>1, <2>1, <2>6, <2>7 DEF Tables, AnyTables
  <2>9. scratch' \in Tables BY <1>1, <2>6, <2>8 DEF Tables
  <2>10. scratch'.new # Missing BY <2>7, GramAssumption DEF Postings
  <2>11. ~overlap => scratch'.new = {p \in scratch.stage : p[1] \notin step.grams}
    BY <1>2, <1>3, <2>5, <2>6 DEF Staged, Working
  <2> HIDE DEF step, g
  <2>12. ~overlap => Staged(rebuild[r])'
    BY <1>2, <1>3, <2>2, <2>5, <2>6, <2>10, <2>11 DEF Staged, Working, Passed, content
  <2>13. \A d \in Docs : Foreseen(q, d) => Foreseen(rebuild[r], d)'
    BY <1>2, <2>2, <2>5, <2>6 DEF Foreseen, Working
  <2> QED BY <1>1, <1>2, <2>1, <2>2, <2>4, <2>9, <2>12, <2>13, KeepOwn
<1> QED BY <1>4, <1>5

\* The tables are dropped, or the process stops.
LEMMA KeepRebuildEnds ==
    ASSUME GramInv, NEW r \in Rebuilders, Drop(r) \/ Crash(r)
    PROVE  GramInv'
<1>1. scratch \in Tables BY DEF GramInv, GramTyped
<1>2. UNCHANGED <<content, base, state, search, history>> BY DEF Drop, Crash
<1>3. Go(r, NoRebuild) /\ rebuild[r].at # "idle" BY DEF Drop, Crash, InPhase
<1>4. scratch' \in Tables BY <1>1 DEF Drop, Crash, NoTables, Tables, AnyTables
<1> QED BY <1>2, <1>3, <1>4, KeepEnd

\* What a rebuild that met no other publishes is what it staged.
LEMMA KeepPublishBase ==
    ASSUME GramInv, NEW r \in Rebuilders, PublishBase(r)
    PROVE  GramInv'
<1> USE DEF GramInv
<1> DEFINE q == rebuild[r]  left == [NoRebuild EXCEPT !.at = "drop"]
<1>1. /\ rebuild \in [Rebuilders -> Rebuildings] /\ docs \in [Docs -> HeldTexts]
      /\ scratch \in Tables /\ q \in Rebuildings /\ overlap \in BOOLEAN
      /\ search \in Searching \cup {Resting} /\ dirty \in SUBSET Docs
  BY DEF GramTyped
<1>2. UNCHANGED <<docs, overlap>> /\ q.at = "pack" /\ q.grams = {}
  BY DEF PublishBase, InPhase
<1>3. CASE Missing \in {scratch.stamp, scratch.new}
  <2>1. UNCHANGED <<content, base, state, search, history, scratch>> /\ Go(r, NoRebuild)
    BY <1>2, <1>3 DEF PublishBase, Unless, content, history
  <2> QED BY <1>1, <1>2, <2>1, KeepEnd
<1>4. CASE Missing \notin {scratch.stamp, scratch.new}
  <2>1. /\ scratch' = [scratch EXCEPT !.new = Missing]
        /\ rebuild' = [rebuild EXCEPT ![r] = left]
        /\ dirty' = {d \in dirty : ~Accounted(d)}
        /\ base' = scratch.new /\ state' = q.packed /\ mixed' = overlap
        /\ search' = IF search.at = "idle" THEN search
                     ELSE [search EXCEPT !.mixed = @ \/ overlap]
    BY <1>4 DEF PublishBase, Unless, Go
  <2>2. state' \in Nat /\ state' # Missing
    BY <1>1, <2>1, GramAssumption DEF Rebuildings, AnyRebuildings
  <2>3. base' \in SUBSET Postings BY <1>1, <1>4, <2>1 DEF Tables, AnyTables
  <2>4. left \in Rebuildings /\ left.at = "drop" /\ left.at \notin Working
    BY DEF NoRebuild, Rebuildings, AnyRebuildings, Working
  <2> HIDE DEF left
  <2>5. rebuild'[r] = left /\ \A s \in Rebuilders \ {r} : rebuild'[s] = rebuild[s]
    BY <1>1, <2>1
  <2>6. scratch' \in Tables
    <3>1. scratch' \in AnyTables BY <1>1, <2>1 DEF Tables, AnyTables
    <3>2. scratch'.stage = scratch.stage /\ scratch'.stamp = scratch.stamp
      BY <1>1, <2>1 DEF Tables, AnyTables
    <3> QED BY <1>1, <3>1, <3>2 DEF Tables
  <2>7. search.at # "idle" =>
            /\ search \in Searching /\ search' \in Searching
            /\ search'.at = search.at /\ search'.term = search.term
            /\ search'.had = search.had /\ search'.kept = search.kept
            /\ search'.skip = search.skip /\ search'.hits = search.hits
            /\ search'.mixed = (search.mixed \/ overlap)
    BY <1>1, <2>1 DEF Searching, Resting
  <2>8. search' \in Searching \cup {Resting} /\ (search.at = "idle" => search' = search)
    BY <1>1, <2>1, <2>7
  <2>9. GramTyped' BY <1>1, <1>2, <2>1, <2>2, <2>3, <2>4, <2>6, <2>8 DEF GramTyped
  <2>10. ASSUME ~overlap
         PROVE  /\ \A s \in Rebuilders : rebuild'[s].at \notin Working
                /\ \A s \in Rebuilders \ {r} : rebuild'[s].at = "idle"
                /\ \A d \in Docs : Posts(base', d, scratch.stamp[d])
                /\ \A d \in Docs \ dirty : scratch.stamp[d] = docs[d]
    <3>1. Staged(q) BY <2>10
    <3>2. \A s \in Rebuilders \ {r} : rebuild'[s].at = "idle"
      BY <1>2, <2>5, <2>10 DEF Apart
    <3>3. scratch.new = scratch.stage BY <1>2, <1>4, <3>1 DEF Staged, Working
    <3> QED BY <1>2, <2>1, <2>4, <2>5, <3>1, <3>2, <3>3 DEF Staged, Working, Passed
  <2>11. ~overlap => BaseIsExact'
    BY <1>2, <2>1, <2>10 DEF BaseIsExact, Accounted
  <2>12. ~overlap => Apart' /\ \A s \in Rebuilders : Staged(rebuild[s])'
    BY <2>5, <2>10 DEF Apart, Staged
  <2>13. ASSUME ~overlap, search.at = "skipping", ~search.mixed, NEW d \in Docs \ search.skip,
                <<search.term, d>> \in base'
         PROVE  d \in search.had
    <3>1. search.term \in Grams BY <1>1, <2>13 DEF Searching, Resting
    <3>2. Has(scratch.stamp[d], search.term) BY <2>10, <2>13, <3>1 DEF Posts
    <3>3. Foreseen(q, d) BY <2>13 DEF SearchKnows
    <3> QED BY <1>2, <3>2, <3>3 DEF Foreseen, Working
  <2>14. ~overlap => \A s \in Rebuilders, d \in Docs : Foreseen(rebuild[s], d)'
    BY <2>10 DEF Foreseen
  <2>15. SearchKnows'
    <3> SUFFICES ASSUME search'.at # "idle" PROVE SearchKnows' BY DEF SearchKnows
    <3>1. search.at # "idle" BY <2>8
    <3>2. search.mixed \in BOOLEAN BY <2>7, <3>1 DEF Searching
    <3>3. /\ \A d \in Docs : Has(docs'[d], search'.term) => d \in search'.had
          /\ \A d \in search'.kept : d \notin dirty' /\ Has(docs'[d], search'.term)
          /\ search'.at = "skipping" => search'.kept \cap search'.skip = {}
      BY <1>2, <2>1, <2>7, <3>1 DEF SearchKnows
    <3>4. mixed' => search'.mixed BY <2>1, <2>7, <3>1
    <3>5. ~search'.mixed => ~overlap /\ ~search.mixed BY <1>1, <2>7, <3>1, <3>2
    <3>6. search'.at = "skipping" /\ ~search'.mixed =>
              \A d \in Docs \ search'.skip :
                  /\ <<search'.term, d>> \in base' => d \in search'.had
                  /\ ~overlap' => \A s \in Rebuilders : Foreseen(rebuild[s], d)'
      BY <2>7, <2>13, <2>14, <3>1, <3>5
    <3>7. search'.at = "scored" /\ ~search'.mixed =>
              search'.kept \subseteq search'.hits /\ search'.hits \subseteq search'.had
      BY <2>7, <3>1, <3>5 DEF SearchKnows
    <3> QED BY <2>2, <3>3, <3>4, <3>6, <3>7 DEF SearchKnows
  <2> QED BY <1>2, <2>1, <2>9, <2>11, <2>12, <2>15
<1> QED BY <1>3, <1>4

\* A search is admitted, reads what to skip and what to answer, and returns.
LEMMA KeepSearching ==
    ASSUME GramInv, (\E g \in Grams : AdmitSearch(g)) \/ Skip \/ Score \/ ReturnHits
    PROVE  GramInv'
<1> USE DEF GramInv
<1>1. UNCHANGED <<docs, dirty, base, state, scratch, rebuild, overlap, mixed>>
  BY DEF AdmitSearch, Skip, Score, ReturnHits, content, history
<1>2. ~mixed' => BaseIsExact' BY <1>1 DEF BaseIsExact
<1>3. ~overlap' => Apart' /\ \A r \in Rebuilders : Staged(rebuild[r])'
  BY <1>1 DEF Apart, Staged, Passed
<1>4. search' \in Searching \cup {Resting} => GramTyped' BY <1>1 DEF GramTyped
<1>5. ASSUME NEW g \in Grams, AdmitSearch(g) PROVE GramInv'
  <2>1. search' = [at |-> "admitted", term |-> g, had |-> Holding(g), kept |-> Holding(g),
                   skip |-> {}, hits |-> {}, mixed |-> mixed]
    BY <1>5 DEF AdmitSearch
  <2>2. search' \in Searching BY <2>1 DEF Searching, Holding, Live, GramTyped
  <2>3. state # Missing /\ dirty \cap Live = {} BY <1>5 DEF AdmitSearch, GramUsable, BaseReady
  <2>4. SearchKnows' BY <1>1, <2>1, <2>3 DEF SearchKnows, Holding, Live, Has
  <2> QED BY <1>2, <1>3, <1>4, <2>2, <2>4
<1>6. CASE Skip
  <2>1. search \in Searching /\ search.at = "admitted" BY <1>6 DEF Skip, GramTyped, Resting
  <2>2. search' = [search EXCEPT !.at = "skipping", !.skip = dirty] BY <1>6 DEF Skip
  <2>3. search' \in Searching BY <2>1, <2>2 DEF Searching, GramTyped
  <2>4. /\ search'.at = "skipping" /\ search'.skip = dirty /\ search'.term = search.term
        /\ search'.had = search.had /\ search'.kept = search.kept
        /\ search'.mixed = search.mixed
    BY <2>1, <2>2 DEF Searching
  <2>5. search.term \in Grams BY <2>1 DEF Searching
  <2>6. state # Missing /\ (~search.mixed => ~mixed) BY <2>1 DEF SearchKnows
  <2>7. ASSUME ~search.mixed, NEW d \in Docs \ dirty
        PROVE  /\ <<search.term, d>> \in base => d \in search.had
               /\ ~overlap => \A r \in Rebuilders : Foreseen(rebuild[r], d)
    <3>1. Has(docs[d], search.term) => d \in search.had BY <2>1 DEF SearchKnows
    <3>2. <<search.term, d>> \in base => d \in search.had
      BY <2>5, <2>6, <2>7, <3>1 DEF BaseIsExact, Posts
    <3>3. ASSUME ~overlap, NEW r \in Rebuilders PROVE Foreseen(rebuild[r], d)
      <4> SUFFICES ASSUME rebuild[r].at \in Working PROVE Foreseen(rebuild[r], d)
        BY DEF Foreseen
      <4>1. Staged(rebuild[r]) /\ rebuild[r] \in Rebuildings BY <3>3 DEF GramTyped
      <4>2. scratch.stamp[d] \in {Missing, docs[d]} BY <4>1 DEF Staged
      <4>3. rebuild[r].at = "stage" /\ rebuild[r].last = d
                => rebuild[r].batch = docs[d] /\ docs[d] \in DocTexts
        BY <4>1 DEF Staged, Rebuildings
      <4>4. docs[d] \in DocTexts => docs[d] # Missing BY GramAssumption
      <4> QED BY <3>1, <4>2, <4>3, <4>4 DEF Foreseen, Has
    <3> QED BY <3>2, <3>3
  <2>8. \A d \in search.kept : d \notin dirty BY <2>1 DEF SearchKnows
  <2>9. SearchKnows'
    BY <1>1, <2>1, <2>4, <2>7, <2>8 DEF SearchKnows, Foreseen
  <2> QED BY <1>2, <1>3, <1>4, <2>3, <2>9
<1>7. CASE Score
  <2>1. search \in Searching /\ search.at = "skipping" BY <1>7 DEF Score, GramTyped, Resting
  <2> DEFINE found == {d \in Docs \ search.skip : <<search.term, d>> \in base}
  <2>2. search' = [search EXCEPT !.at = "scored", !.hits = found] BY <1>7 DEF Score
  <2>3. found \in SUBSET Docs OBVIOUS
  <2>4. ~search.mixed => found \subseteq search.had BY <2>1 DEF SearchKnows
  <2>5. ~search.mixed => search.kept \subseteq found
    <3> SUFFICES ASSUME ~search.mixed, NEW d \in search.kept PROVE d \in found OBVIOUS
    <3>1. d \in Docs /\ search.term \in Grams /\ d \notin search.skip
      BY <2>1 DEF Searching, SearchKnows
    <3>2. state # Missing /\ ~mixed /\ d \notin dirty /\ Has(docs[d], search.term)
      BY <2>1 DEF SearchKnows
    <3> QED BY <3>1, <3>2 DEF BaseIsExact, Posts
  <2> HIDE DEF found
  <2>6. search' \in Searching BY <2>1, <2>2, <2>3 DEF Searching
  <2>7. /\ search'.at = "scored" /\ search'.hits = found /\ search'.term = search.term
        /\ search'.had = search.had /\ search'.kept = search.kept
        /\ search'.mixed = search.mixed
    BY <2>1, <2>2 DEF Searching
  <2>8. SearchKnows' BY <1>1, <2>1, <2>4, <2>5, <2>7 DEF SearchKnows
  <2> QED BY <1>2, <1>3, <1>4, <2>6, <2>8
<1>8. CASE ReturnHits
  <2>1. search' = Resting BY <1>8 DEF ReturnHits
  <2>2. SearchKnows' BY <2>1 DEF SearchKnows, Resting
  <2> QED BY <1>2, <1>3, <1>4, <2>1, <2>2
<1> QED BY <1>5, <1>6, <1>7, <1>8

\* Every step keeps the invariant.
LEMMA GramSteps == GramInv /\ [GramNext]_gramVars => GramInv'
<1> SUFFICES ASSUME GramInv, [GramNext]_gramVars PROVE GramInv' OBVIOUS
<1>1. ASSUME NEW t \in DocTexts, Insert(t) PROVE GramInv'
  BY <1>1, KeepWrites DEF Insert, HeldTexts
<1>2. ASSUME NEW t \in DocTexts, NEW d \in Docs, Update(d, t) PROVE GramInv'
  BY <1>2, KeepWrites DEF Update, HeldTexts
<1>3. ASSUME NEW d \in Docs, Delete(d) PROVE GramInv'
  BY <1>3, KeepWrites DEF Delete, HeldTexts
<1>4. CASE UNCHANGED gramVars
  BY <1>4 DEF gramVars, content, history, GramInv, GramTyped, BaseIsExact, SearchKnows, Staged,
    Passed, Foreseen, Apart
<1> QED
  BY <1>1, <1>2, <1>3, <1>4, KeepBegin, KeepReadBatch, KeepStageBatch, KeepList, KeepPack,
     KeepPublishBase, KeepRebuildEnds, KeepSearching DEF GramNext, RebuildStep

\* The invariant of the n-gram index, for every number of rebuilders, which
\* begin when they like.
THEOREM GramInductive == GramSpec => []GramInv
  BY GramStarts, GramSteps, PTL DEF GramSpec

\* A usable index is exact unless overlapping rebuilds published it, and a
\* search that was admitted and met no such base answers as if it had a snapshot
\* (GramIsExact), for every number of documents, grams and rebuilders.
THEOREM GramIsAlwaysExact == GramSpec => []GramIsExact
<1>1. GramInv => GramIsExact
  <2> SUFFICES ASSUME GramInv PROVE GramIsExact OBVIOUS
  <2>1. ASSUME ~mixed, GramUsable, NEW d \in Docs \ dirty
        PROVE  {p \in base : p[2] = d} = IF d \in Live THEN PostingsOf(d, docs[d]) ELSE {}
    <3>1. Posts(base, d, docs[d]) BY <2>1 DEF GramInv, BaseIsExact, GramUsable, BaseReady
    <3>2. base \subseteq Grams \X Docs BY DEF GramInv, GramTyped, Postings
    <3>3. docs[d] # Missing => docs[d] \in SUBSET Grams
      BY GramAssumption DEF GramInv, GramTyped, HeldTexts
    <3> QED BY <3>1, <3>2, <3>3 DEF Posts, Has, Live, PostingsOf
  <2>2. AnswersHold BY DEF GramInv, SearchKnows, AnswersHold
  <2> QED BY <2>1, <2>2 DEF UsableIsExact, GramIsExact
<1> QED BY <1>1, GramInductive, PTL

-----------------------------------------------------------------------------
(* Together.                                                               *)
(* What is made from canonical pages and memories.                         *)

\* What was completed is published and readable, but for what a named race left
\* behind, and the usable n-gram index is exact but for a base that overlapping
\* rebuilds published: ProjectionsAreSound, for all pages, texts, processes,
\* documents, grams and rebuilders.
THEOREM ProjectionsAreAlwaysSound ==
    IndexSpec /\ GramSpec => []ProjectionsAreSound
  BY StoresAlwaysFollowCanon, GramIsAlwaysExact, PTL DEF ProjectionsAreSound
=============================================================================
