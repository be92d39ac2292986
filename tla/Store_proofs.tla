---------------------------- MODULE Store_proofs ----------------------------
(***************************************************************************)
(* Proofs about the nine models of StoreParts, for every instance.         *)
(*                                                                         *)
(* No model shares a variable with another, so each has an inductive       *)
(* invariant of its own, which says what its property cannot: whose turn   *)
(* it is, what a process that will write has seen, and of what moment that *)
(* is.  The last section puts the theorems together.                       *)
(***************************************************************************)
EXTENDS StoreParts, FiniteSetTheorems, WellFoundedInduction, TLAPS

\* A set of numbers that is not empty has a least member,
LEMMA LeastExists ==
    ASSUME NEW S \in SUBSET Nat, S # {}
    PROVE  \E m \in S : \A x \in S : m <= x
<1> DEFINE R == {ss \in Nat \X Nat : ss[1] < ss[2]}
<1>1. IsWellFoundedOn(R, Nat)
  BY NatLessThanWellFounded, Zenon DEF OpToRel
<1>2. \A x, m \in Nat : x < m => <<x, m>> \in R
  OBVIOUS
<1> HIDE DEF R
<1>3. PICK m \in S : \A x \in S : ~ (<<x, m>> \in R)
  BY <1>1, WFMin, Zenon
<1>4. ASSUME NEW x \in S PROVE m <= x
  <2>1. x \in Nat /\ m \in Nat /\ ~(x < m) BY <1>2, <1>3
  <2> QED BY <2>1
<1> QED BY <1>4

\* and a greatest one if it is bounded.
LEMMA GreatestExists ==
    ASSUME NEW S \in SUBSET Nat, S # {}, NEW b \in Nat, \A x \in S : x <= b
    PROVE  Max(S) \in S /\ \A x \in S : x <= Max(S)
<1> DEFINE D == {d \in Nat : \E x \in S : d = b - x}
<1>1. D # {}
  <2>1. PICK x \in S : TRUE OBVIOUS
  <2>2. b - x \in D BY <2>1
  <2> QED BY <2>2
<1>2. PICK m \in D : \A d \in D : m <= d
  BY <1>1, LeastExists
<1>3. PICK y \in S : m = b - y BY <1>2
<1>4. ASSUME NEW x \in S PROVE y >= x
  <2>1. b - x \in D OBVIOUS
  <2> QED BY <1>2, <1>3, <2>1
<1>5. Max(S) \in S /\ \A x \in S : Max(S) >= x BY <1>4 DEF Max
<1> QED BY <1>5

\* A set whose members are equal has one at most.
LEMMA AtMostOne ==
    ASSUME NEW S, \A x, y \in S : x = y
    PROVE  Cardinality(S) <= 1
<1>1. CASE S = {} BY <1>1, FS_EmptySet
<1>2. CASE S # {}
  <2>1. PICK x \in S : TRUE BY <1>2
  <2>2. S = {x} BY <2>1
  <2> QED BY <2>2, FS_Singleton
<1> QED BY <1>1, <1>2

-----------------------------------------------------------------------------
(* SchemaUpgrade.                                                          *)
(* A command that returns at once because its process has initialised the  *)
(* database before relies on what that first time left.  The invariant     *)
(* follows a process through init_db: whoever remembers the database, or is *)
(* past its DDL, can rely on the tables, and on the index on entities if no *)
(* statement failed, and what it has still to prune are names of           *)
(* migrations.                                                             *)

Usable == Needed \subseteq have /\ ("entityIndex" \in have \/ faults > 0)

\* Who may rely on the tables: everyone after InitFast or Ddl.
Initialised(p) == proc[p].memo \/ proc[p].at \in {"fill", "prune", "ready"}

Record == [at : {"off", "idle", "fill", "ddl", "prune", "ready"},
           memo : BOOLEAN, pending : SUBSET Migrations]

Shape ==
    /\ have \subseteq Objects /\ done \subseteq Migrations
    /\ rows \in {"none", "history", "live"}
    /\ unique \in {"absent", "active", "full"}
    /\ proc \in [Processes -> Record]

SchemaInv ==
    /\ SchemaTypeOK
    /\ \A p \in Processes : Initialised(p) => Usable
    /\ LedgerIsTrue

-----------------------------------------------------------------------------
(* The parts of a record of proc, and the record after a step of init_db.    *)
LEMMA Parts ==
    ASSUME NEW r \in Record
    PROVE  /\ r.at \in {"off", "idle", "fill", "ddl", "prune", "ready"}
           /\ r.memo \in BOOLEAN
           /\ r.pending \subseteq Migrations
           /\ \A at \in {"off", "idle", "fill", "ddl", "prune", "ready"} :
                 [r EXCEPT !.at = at] \in Record
           /\ \A m \in Migrations : [r EXCEPT !.pending = @ \ {m}] \in Record
  BY DEF Record

(* A step of p that only changes where p is keeps the records well formed.   *)
LEMMA GoesKeeps ==
    ASSUME SchemaTypeOK, NEW p \in Processes,
           NEW at \in {"off", "idle", "fill", "ddl", "prune", "ready"}, Goes(p, at)
    PROVE  /\ proc' \in [Processes -> Record]
           /\ proc'[p].at = at /\ proc'[p].memo = proc[p].memo
           /\ \A q \in Processes \ {p} : proc'[q] = proc[q]
  <1>1. proc \in [Processes -> Record]
    BY DEF SchemaTypeOK, Record
  <1>2. proc' = [proc EXCEPT ![p] = [proc[p] EXCEPT !.at = at]]
    BY DEF Goes
  <1>3. proc[p] \in Record /\ [proc[p] EXCEPT !.at = at] \in Record
    BY <1>1, Parts
  <1>4. proc'[p] = [proc[p] EXCEPT !.at = at]
    BY <1>1, <1>2
  <1>5. proc'[p].at = at /\ proc'[p].memo = proc[p].memo
    BY <1>3, <1>4 DEF Record
  <1>6. QED
    BY <1>1, <1>2, <1>3, <1>5

(* The same for a step that comes to the prunes.                             *)
LEMMA ToPruneKeeps ==
    ASSUME SchemaTypeOK, NEW p \in Processes, NEW known \in BOOLEAN, ToPrune(p, known)
    PROVE  /\ proc' \in [Processes -> Record]
           /\ proc'[p].at = "prune" /\ proc'[p].memo = known
           /\ \A q \in Processes \ {p} : proc'[q] = proc[q]
  <1>1. proc \in [Processes -> Record]
    BY DEF SchemaTypeOK, Record
  <1>2. [at |-> "prune", memo |-> known, pending |-> Pending] \in Record
    BY DEF Record, Pending
  <1>3. QED
    BY <1>1, <1>2 DEF ToPrune

(* The next migration is one of those that are left.                         *)
LEMMA FirstIsLeft ==
    ASSUME SchemaTypeOK, NEW p \in Processes, proc[p].pending # {}
    PROVE  First(p) \in proc[p].pending /\ First(p) \in Migrations
  <1>1. proc[p].pending \subseteq Migrations
    BY Parts DEF SchemaTypeOK, Record
  <1>2. /\ Order["legacy"] = 1 /\ Order["entityJson"] = 2
        /\ Order["retired"] = 3 /\ Order["snapshot"] = 4
    BY DEF Order, Migrations
  <1>3. \E m \in proc[p].pending : \A n \in proc[p].pending : Order[m] <= Order[n]
    <2>1. CASE "legacy" \in proc[p].pending
      BY <1>1, <1>2, <2>1 DEF Migrations
    <2>2. CASE "legacy" \notin proc[p].pending /\ "entityJson" \in proc[p].pending
      BY <1>1, <1>2, <2>2 DEF Migrations
    <2>3. CASE /\ {"legacy", "entityJson"} \cap proc[p].pending = {}
               /\ "retired" \in proc[p].pending
      BY <1>1, <1>2, <2>3 DEF Migrations
    <2>4. CASE {"legacy", "entityJson", "retired"} \cap proc[p].pending = {}
      BY <1>1, <1>2, <2>4 DEF Migrations
    <2>5. QED
      BY <2>1, <2>2, <2>3, <2>4
  <1>4. First(p) \in proc[p].pending
    BY <1>3 DEF First
  <1>5. QED
    BY <1>1, <1>4

(* A migration takes away at most the tables of removed releases and the     *)
(* retired indexes, and those not on entities only with their replacement.   *)
LEMMA PrunedKeeps ==
    ASSUME NEW m \in Migrations, have \subseteq Objects
    PROVE  /\ Pruned(m) \subseteq Objects
           /\ have \ {"legacy", "entityJson", "retired"} \subseteq Pruned(m)
           /\ "legacy" \in Pruned(m) => "legacy" \in have
           /\ m = "legacy" => "legacy" \notin Pruned(m)
           /\ m = "snapshot" => "snapshot" \in Pruned(m)
           /\ "retired" \in have /\ "retired" \notin Pruned(m) => "indexes" \in have
  <1>1. CASE m \in {"legacy", "entityJson"}
    BY <1>1 DEF Pruned, Objects
  <1>2. CASE m = "retired"
    BY <1>2 DEF Pruned, Objects
  <1>3. CASE m = "snapshot"
    BY <1>3 DEF Pruned, Objects
  <1>4. QED
    BY <1>1, <1>2, <1>3 DEF Migrations

(* The strength of the unique index never exceeds what the keys keep.        *)
LEMMA StrongestIsTrue ==
    ASSUME rows \in {"none", "history", "live"}, unique \in {"absent", "active", "full"},
           unique = "full" => rows = "none", unique = "active" => rows # "live"
    PROVE  /\ Strongest(rows, unique) \in {"absent", "active", "full"}
           /\ Strongest(rows, unique) = "full" => rows = "none"
           /\ Strongest(rows, unique) = "active" => rows # "live"
  BY DEF Strongest
-----------------------------------------------------------------------------
\* Before the first command nobody relies on anything.
LEMMA SchemaInvInit == SchemaInit => SchemaInv
  <1>1. SUFFICES ASSUME SchemaInit
                 PROVE  SchemaInv
    OBVIOUS
  <1>2. \A p \in Processes : proc[p] = Fresh
    BY <1>1 DEF SchemaInit
  <1>3. proc \in [Processes -> Record]
    <2>1. Fresh \in Record
      BY DEF Fresh, Record
    <2>2. QED
      BY <1>1, <2>1 DEF SchemaInit
  <1>4. have \subseteq Objects /\ done \subseteq Migrations
    BY <1>1 DEF SchemaInit, Objects, Migrations, Needed, BestEffort
  <1>5. rows \in {"none", "history", "live"} /\ unique \in {"absent", "active", "full"}
    BY <1>1 DEF SchemaInit
  <1>6. faults \in 0 .. MaxFaults /\ bypasses \in 0 .. MaxBypasses /\ stops \in 0 .. MaxStops
    <2>1. 0 \in 0 .. MaxFaults /\ 0 \in 0 .. MaxBypasses /\ 0 \in 0 .. MaxStops
      BY BoundsAssumption
    <2>2. QED
      BY <1>1, <2>1 DEF SchemaInit
  <1>7. SchemaTypeOK
    BY <1>1, <1>3, <1>4, <1>5, <1>6 DEF SchemaInit, SchemaTypeOK, Record
  <1>8. \A p \in Processes : ~Initialised(p)
    BY <1>2 DEF Initialised, Fresh
  <1>9. LedgerIsTrue
    <2>1. "snapshot" \in have => "legacy" \notin have
      BY <1>1 DEF SchemaInit, Needed, BestEffort
    <2>2. done # {} => "snapshot" \in have
      BY <1>1 DEF SchemaInit
    <2>3. unique = "full" => rows = "none"
      BY <1>1 DEF SchemaInit
    <2>4. unique = "active" => rows # "live"
      BY <1>1 DEF SchemaInit
    <2>5. QED
      BY <2>1, <2>2, <2>3, <2>4 DEF LedgerIsTrue
  <1>10. QED
    BY <1>7, <1>8, <1>9 DEF SchemaInv

(* What a step of p has to keep, when p is where it relies on the tables     *)
(* only if they are there: the form in which the actions are proved.         *)
LEMMA StepKeeps ==
    ASSUME SchemaInv, NEW p \in Processes, SchemaTypeOK', LedgerIsTrue',
           \A q \in Processes \ {p} : proc'[q] = proc[q],
           (Needed \cup {"entityIndex"}) \cap have \subseteq have',
           faults > 0 => faults' > 0,
           Initialised(p)' => Initialised(p) \/ Usable'
    PROVE  SchemaInv'
  <1>1. Usable => Usable'
    BY DEF Usable
  <1>2. ASSUME NEW q \in Processes, Initialised(q)'
        PROVE  Usable'
    <2>1. CASE q = p
      BY <1>1, <1>2, <2>1 DEF SchemaInv
    <2>2. CASE q # p
      BY <1>1, <1>2, <2>2 DEF SchemaInv, Initialised
    <2>3. QED
      BY <2>1, <2>2
  <1>3. QED
    BY <1>2 DEF SchemaInv

\* Faults, bypasses and stops stay within their bounds.
LEMMA CountersKeep ==
    ASSUME SchemaTypeOK, Sound \/ Faulty
    PROVE  /\ faults' \in 0 .. MaxFaults /\ bypasses' \in 0 .. MaxBypasses
           /\ stops' \in 0 .. MaxStops
           /\ faults > 0 => faults' > 0
           /\ Faulty => faults' > 0
  <1>1. MaxFaults \in Nat
    BY BoundsAssumption
  <1>2. CASE Sound
    BY <1>2 DEF Sound, Faulty, counts, SchemaTypeOK
  <1>3. CASE Faulty
    <2>1. faults \in 0 .. MaxFaults /\ faults < MaxFaults /\ faults' = faults + 1
      BY <1>3 DEF Faulty, SchemaTypeOK
    <2>2. faults' \in 0 .. MaxFaults /\ faults' > 0
      BY <1>1, <2>1
    <2>3. QED
      BY <1>3, <2>2 DEF Faulty, SchemaTypeOK
  <1>4. QED
    BY <1>2, <1>3

(* A step that moves p and leaves the database as it is.                     *)
LEMMA GoesStep ==
    ASSUME SchemaInv, NEW p \in Processes,
           NEW at \in {"off", "idle", "fill", "ddl", "prune", "ready"}, Goes(p, at),
           UNCHANGED <<have, done, rows, unique, gap, revived, lock>>, Sound \/ Faulty,
           at \in {"fill", "prune", "ready"} => Initialised(p)
    PROVE  SchemaInv'
  <1>1. SchemaTypeOK /\ LedgerIsTrue
    BY DEF SchemaInv
  <1>2. /\ proc' \in [Processes -> Record]
        /\ proc'[p].at = at /\ proc'[p].memo = proc[p].memo
        /\ \A q \in Processes \ {p} : proc'[q] = proc[q]
    BY <1>1, GoesKeeps
  <1>3. SchemaTypeOK'
    BY <1>1, <1>2, CountersKeep DEF SchemaTypeOK, Record
  <1>4. LedgerIsTrue'
    BY <1>1 DEF LedgerIsTrue
  <1>5. Initialised(p)' => Initialised(p)
    BY <1>2 DEF Initialised
  <1>6. faults > 0 => faults' > 0
    BY <1>1, CountersKeep
  <1>7. QED
    BY <1>2, <1>3, <1>4, <1>5, <1>6, StepKeeps

(* A step that changes the database and leaves every process where it is.    *)
LEMMA DataStep ==
    ASSUME SchemaInv, UNCHANGED proc, SchemaTypeOK', LedgerIsTrue',
           (Needed \cup {"entityIndex"}) \cap have \subseteq have', UNCHANGED faults
    PROVE  SchemaInv'
  BY DEF SchemaInv, Initialised, Usable

(* The steps of init_db that do not touch the database.                      *)
LEMMA WayKeeps ==
    ASSUME SchemaInv, NEW p \in Processes,
           \/ Start(p) \/ InitAgain(p) \/ InitFull(p) \/ DdlFails(p)
           \/ PruneFails(p) \/ PruneEnds(p) \/ Return(p)
    PROVE  SchemaInv'
  <1>1. CASE Start(p)
    BY <1>1, GoesStep DEF Start, Sound
  <1>2. CASE InitAgain(p)
    <2>1. Initialised(p)
      BY <1>2, Parts DEF InitAgain, Initialised
    <2>2. QED
      BY <1>2, <2>1, GoesStep DEF InitAgain, Sound
  <1>3. CASE InitFull(p)
    BY <1>3, GoesStep DEF InitFull, Sound
  <1>4. CASE DdlFails(p)
    BY <1>4, GoesStep DEF DdlFails, Sound
  <1>5. CASE PruneFails(p)
    <2>1. Initialised(p)
      BY <1>5 DEF PruneFails, Initialised
    <2>2. QED
      BY <1>5, <2>1, GoesStep DEF PruneFails
  <1>6. CASE PruneEnds(p)
    <2>1. Initialised(p)
      BY <1>6 DEF PruneEnds, Initialised
    <2>2. QED
      BY <1>6, <2>1, GoesStep DEF PruneEnds, Sound
  <1>7. CASE Return(p)
    BY <1>7, GoesStep DEF Return, Sound
  <1>8. QED
    BY <1>1, <1>2, <1>3, <1>4, <1>5, <1>6, <1>7

\* The fast path is taken where the tables are there already.
LEMMA InitFastKeeps ==
    ASSUME SchemaInv, NEW p \in Processes, InitFast(p)
    PROVE  SchemaInv'
  <1>1. SchemaTypeOK /\ LedgerIsTrue
    BY DEF SchemaInv
  <1>2. proc' \in [Processes -> Record] /\ \A q \in Processes \ {p} : proc'[q] = proc[q]
    <2>1. proc \in [Processes -> Record]
      BY <1>1 DEF SchemaTypeOK, Record
    <2>2. [proc[p] EXCEPT !.at = "fill", !.memo = TRUE] \in Record
      BY <2>1 DEF Record
    <2>3. QED
      BY <2>1, <2>2 DEF InitFast
  <1>3. SchemaTypeOK'
    BY <1>1, <1>2 DEF InitFast, SchemaTypeOK, Record, counts
  <1>4. LedgerIsTrue'
    BY <1>1 DEF LedgerIsTrue, InitFast
  <1>5. Usable'
    BY DEF InitFast, Complete, Usable, BestEffort
  <1>6. QED
    BY <1>2, <1>3, <1>4, <1>5, StepKeeps DEF InitFast, counts

\* The gap-fill changes rows only.
LEMMA FillKeeps ==
    ASSUME SchemaInv, NEW p \in Processes, Fill(p)
    PROVE  SchemaInv'
  <1>1. SchemaTypeOK /\ LedgerIsTrue
    BY DEF SchemaInv
  <1>2. Initialised(p)
    BY DEF Fill, Initialised
  <1>3. CASE Goes(p, "idle") /\ UNCHANGED lock
    BY <1>3, GoesStep DEF Fill, Sound
  <1>4. CASE ToPrune(p, TRUE) /\ (UNCHANGED lock \/ lock' = p)
    <2>1. proc' \in [Processes -> Record] /\ \A q \in Processes \ {p} : proc'[q] = proc[q]
      BY <1>1, <1>4, ToPruneKeeps
    <2>2. SchemaTypeOK'
      BY <1>1, <1>4, <2>1 DEF Fill, SchemaTypeOK, Record, counts
    <2>3. LedgerIsTrue'
      BY <1>1 DEF LedgerIsTrue, Fill
    <2>4. QED
      BY <1>2, <2>1, <2>2, <2>3, StepKeeps DEF Fill, counts
  <1>5. QED
    BY <1>3, <1>4 DEF Fill

\* The DDL makes what is missing and drops no object in use.
LEMMA DdlKeeps ==
    ASSUME SchemaInv, NEW p \in Processes, Ddl(p)
    PROVE  SchemaInv' /\ have \subseteq have'
  <1>1. SchemaTypeOK /\ LedgerIsTrue
    BY DEF SchemaInv
  <1>2. PICK made \in {{}, {"entityIndex"}, BestEffort} :
           /\ have' = have \cup Needed \cup made
                           \cup (IF "tables" \in have THEN {} ELSE {"snapshot"})
           /\ \/ made = BestEffort /\ Sound
              \/ made # BestEffort /\ Faulty
    BY DEF Ddl
  <1>3. faults > 0 => faults' > 0
    BY <1>1, <1>2, CountersKeep
  <1>4. /\ have \subseteq have' /\ have' \subseteq Objects
        /\ "legacy" \in have' => "legacy" \in have
    BY <1>1, <1>2 DEF SchemaTypeOK, Objects, Needed, BestEffort
  <1>5. Usable'
    <2>1. Needed \subseteq have'
      BY <1>2
    <2>2. made = BestEffort => "entityIndex" \in have'
      BY <1>2 DEF BestEffort
    <2>3. made # BestEffort => faults' > 0
      BY <1>1, <1>2, CountersKeep
    <2>4. QED
      BY <2>1, <2>2, <2>3 DEF Usable
  <1>6. proc' \in [Processes -> Record] /\ \A q \in Processes \ {p} : proc'[q] = proc[q]
    BY <1>1, ToPruneKeeps DEF Ddl
  <1>7. /\ unique' \in {"absent", "active", "full"}
        /\ unique' = "full" => rows = "none"
        /\ unique' = "active" => rows # "live"
    BY <1>1, StrongestIsTrue DEF Ddl, SchemaTypeOK, LedgerIsTrue
  <1>8. SchemaTypeOK'
    BY <1>1, <1>2, <1>4, <1>6, <1>7, CountersKeep DEF Ddl, SchemaTypeOK, Record
  <1>9. LedgerIsTrue'
    BY <1>1, <1>4, <1>7 DEF LedgerIsTrue, Ddl
  <1>10. SchemaInv'
    BY <1>3, <1>4, <1>5, <1>6, <1>8, <1>9, StepKeeps
  <1>11. QED
    BY <1>4, <1>10

\* A prune takes what is retired, and only where its replacement stands.
LEMMA PruneKeeps ==
    ASSUME SchemaInv, NEW p \in Processes, Prune(p)
    PROVE  /\ SchemaInv'
           /\ have \ {"legacy", "entityJson", "retired"} \subseteq have'
           /\ "retired" \in have /\ "retired" \notin have' => "indexes" \in have
           /\ "entityIndex" \in have \/ faults > 0
  <1> DEFINE m == First(p)
  <1>1. SchemaTypeOK /\ LedgerIsTrue
    BY DEF SchemaInv
  <1>2. m \in Migrations
    BY <1>1, FirstIsLeft DEF Prune
  <1>3. have' = (IF m \in done THEN have ELSE Pruned(m)) /\ done' = done \cup {m}
    BY DEF Prune
  <1>4. proc' \in [Processes -> Record] /\ \A q \in Processes \ {p} : proc'[q] = proc[q]
    <2>1. proc \in [Processes -> Record]
      BY <1>1 DEF SchemaTypeOK, Record
    <2>2. [proc[p] EXCEPT !.pending = @ \ {m}] \in Record
      BY <1>2, <2>1, Parts
    <2>3. QED
      BY <2>1, <2>2 DEF Prune
  <1> HIDE DEF m
  <1>5. have \subseteq Objects
    BY <1>1 DEF SchemaTypeOK
  <1>6. /\ have' \subseteq Objects /\ have \ {"legacy", "entityJson", "retired"} \subseteq have'
        /\ "retired" \in have /\ "retired" \notin have' => "indexes" \in have
        /\ "legacy" \in have' => "legacy" \in have
        /\ m \notin done /\ m = "legacy" => "legacy" \notin have'
        /\ m \notin done /\ m = "snapshot" => "snapshot" \in have'
    BY <1>2, <1>3, <1>5, PrunedKeeps
  <1>7. SchemaTypeOK'
    BY <1>1, <1>2, <1>3, <1>4, <1>6 DEF Prune, SchemaTypeOK, Record, counts
  <1>8. LedgerIsTrue'
    BY <1>1, <1>3, <1>6 DEF LedgerIsTrue, Prune
  <1>9. Initialised(p)
    BY DEF Prune, Initialised
  <1>10. (Needed \cup {"entityIndex"}) \cap have \subseteq have' /\ UNCHANGED faults
    BY <1>6 DEF Needed, Prune, counts
  <1>11. SchemaInv'
    BY <1>4, <1>7, <1>8, <1>9, <1>10, StepKeeps
  <1>12. QED
    BY <1>6, <1>9, <1>11 DEF SchemaInv, Usable

(* The commands that run after init_db, and the end of a connection.         *)
LEMMA CommandKeeps ==
    ASSUME SchemaInv, NEW p \in Processes,
           Search(p) \/ Repair(p) \/ Close(p) \/ CloseConnection(p)
    PROVE  SchemaInv'
  <1>1. SchemaTypeOK /\ LedgerIsTrue
    BY DEF SchemaInv
  <1>2. UNCHANGED <<proc, faults>> /\ have' = have /\ done' = done
    BY DEF Search, Repair, Close, CloseConnection, counts
  <1>3. CASE Search(p)
    <2>1. SchemaTypeOK' /\ LedgerIsTrue'
      BY <1>1, <1>3 DEF Search, SchemaTypeOK, LedgerIsTrue, counts
    <2>2. QED
      BY <1>2, <2>1, DataStep
  <1>4. CASE Repair(p)
    <2>1. SchemaTypeOK' /\ LedgerIsTrue'
      BY <1>1, <1>4 DEF Repair, Strongest, SchemaTypeOK, LedgerIsTrue, counts
    <2>2. QED
      BY <1>2, <2>1, DataStep
  <1>5. CASE Close(p)
    <2>1. SchemaTypeOK' /\ LedgerIsTrue'
      BY <1>1, <1>5 DEF Close, SchemaTypeOK, LedgerIsTrue, counts
    <2>2. QED
      BY <1>2, <2>1, DataStep
  <1>6. CASE CloseConnection(p)
    <2>1. SchemaTypeOK' /\ LedgerIsTrue'
      BY <1>1, <1>6 DEF CloseConnection, Release, SchemaTypeOK, LedgerIsTrue, counts
    <2>2. QED
      BY <1>2, <2>1, DataStep
  <1>7. QED
    BY <1>3, <1>4, <1>5, <1>6

\* A process that ends forgets that it knew the database.
LEMMA StopKeeps ==
    ASSUME SchemaInv, NEW p \in Processes, Stop(p)
    PROVE  SchemaInv'
  <1>1. SchemaTypeOK /\ LedgerIsTrue
    BY DEF SchemaInv
  <1>2. /\ proc' \in [Processes -> Record] /\ proc'[p] = Fresh
        /\ \A q \in Processes \ {p} : proc'[q] = proc[q]
    <2>1. proc \in [Processes -> Record] /\ Fresh \in Record
      BY <1>1 DEF SchemaTypeOK, Record, Fresh
    <2>2. QED
      BY <2>1 DEF Stop
  <1>3. stops' \in 0 .. MaxStops
    <2>1. MaxStops \in Nat /\ stops \in 0 .. MaxStops
      BY <1>1, BoundsAssumption DEF SchemaTypeOK
    <2>2. QED
      BY <2>1 DEF Stop
  <1>4. SchemaTypeOK'
    BY <1>1, <1>2, <1>3 DEF Stop, Release, SchemaTypeOK, Record
  <1>5. LedgerIsTrue'
    BY <1>1 DEF LedgerIsTrue, Stop
  <1>6. ~Initialised(p)'
    BY <1>2 DEF Initialised, Fresh
  <1>7. QED
    BY <1>2, <1>4, <1>5, <1>6, StepKeeps DEF Stop

-----------------------------------------------------------------------------
(* One step of the specification, of any process.                            *)
LEMMA SchemaInvStep == SchemaInv /\ [SchemaNext]_schemaVars => SchemaInv'
  <1>1. SUFFICES ASSUME SchemaInv, [SchemaNext]_schemaVars
                 PROVE  SchemaInv'
    OBVIOUS
  <1>2. ASSUME NEW p \in Processes,
               \/ Initialise(p) \/ Search(p) \/ Repair(p) \/ Close(p) \/ Return(p)
               \/ CloseConnection(p) \/ Stop(p)
        PROVE  SchemaInv'
    <2>1. CASE Initialise(p)
      BY <1>1, <2>1, WayKeeps, InitFastKeeps, FillKeeps, DdlKeeps, PruneKeeps DEF Initialise
    <2>2. CASE Search(p) \/ Repair(p) \/ Close(p) \/ CloseConnection(p)
      BY <1>1, <2>2, CommandKeeps
    <2>3. CASE Return(p)
      BY <1>1, <2>3, WayKeeps
    <2>4. CASE Stop(p)
      BY <1>1, <2>4, StopKeeps
    <2>5. QED
      BY <1>2, <2>1, <2>2, <2>3, <2>4
  <1>3. CASE Bypass
    <2>1. SchemaTypeOK /\ LedgerIsTrue
      BY <1>1 DEF SchemaInv
    <2>2. bypasses' \in 0 .. MaxBypasses
      <3>1. MaxBypasses \in Nat /\ bypasses \in 0 .. MaxBypasses
        BY <2>1, BoundsAssumption DEF SchemaTypeOK
      <3>2. QED
        BY <1>3, <3>1 DEF Bypass
    <2>3. SchemaTypeOK' /\ LedgerIsTrue'
      BY <1>3, <2>1, <2>2 DEF Bypass, SchemaTypeOK, LedgerIsTrue
    <2>4. QED
      BY <1>1, <1>3, <2>3, DataStep DEF Bypass
  <1>4. CASE Revive
    <2>1. SchemaTypeOK /\ LedgerIsTrue
      BY <1>1 DEF SchemaInv
    <2>2. bypasses' \in 0 .. MaxBypasses
      <3>1. MaxBypasses \in Nat /\ bypasses \in 0 .. MaxBypasses
        BY <2>1, BoundsAssumption DEF SchemaTypeOK
      <3>2. QED
        BY <1>4, <3>1 DEF Revive
    <2>3. SchemaTypeOK' /\ LedgerIsTrue'
      BY <1>4, <2>1, <2>2 DEF Revive, SchemaTypeOK, LedgerIsTrue, Objects
    <2>4. QED
      BY <1>1, <1>4, <2>3, DataStep DEF Revive
  <1>5. CASE UNCHANGED schemaVars
    BY <1>1, <1>5
       DEF schemaVars, counts, SchemaInv, SchemaTypeOK, Initialised, Usable, LedgerIsTrue
  <1>6. QED
    BY <1>1, <1>2, <1>3, <1>4, <1>5 DEF SchemaNext

(* The inductive invariant of init_db: types, the ledger, and that whoever   *)
(* remembers the database or is past its DDL can rely on the tables.         *)
THEOREM SchemaInductive == SchemaSpec => []SchemaInv
  BY SchemaInvInit, SchemaInvStep, PTL DEF SchemaSpec

(* A command that got past init_db finds every table and column the code     *)
(* names, whoever else upgrades, fails or stops meanwhile; schema_migrations *)
(* and the unique index on idempotency keys claim only what is so.           *)
THEOREM SchemaSound == SchemaSpec => []SchemaIsSound
  <1>1. SchemaInv => SchemaIsSound
    <2>1. SUFFICES ASSUME SchemaInv
                   PROVE  SchemaIsSound
      OBVIOUS
    <2>2. ReadyIsUsable
      BY <2>1 DEF SchemaInv, ReadyIsUsable, Initialised, Usable
    <2>3. QED
      BY <2>1, <2>2 DEF SchemaInv, SchemaIsSound
  <1>2. QED
    BY <1>1, SchemaInductive, PTL

(* No step takes away what the DDL makes, a retired index goes only while    *)
(* what replaces it is there, and that on entities without a replacement     *)
(* only after a statement that failed.                                       *)
THEOREM UpgradesKeep == SchemaSpec => [][UpgradeStep]_schemaVars
  <1>1. SchemaInv /\ [SchemaNext]_schemaVars => [UpgradeStep]_schemaVars
    <2>1. SUFFICES ASSUME SchemaInv, SchemaNext
                   PROVE  UpgradeStep
      OBVIOUS
    <2>2. CASE have' = have
      BY <2>2 DEF UpgradeStep
    <2>3. CASE Revive \/ \E p \in Processes : Ddl(p)
      <3>1. have \subseteq have'
        BY <2>1, <2>3, DdlKeeps DEF Revive
      <3>2. QED
        BY <3>1 DEF UpgradeStep
    <2>4. CASE \E p \in Processes : Prune(p)
      BY <2>1, <2>4, PruneKeeps DEF UpgradeStep, Needed, BestEffort
    <2>5. have' = have \/ Revive \/ (\E p \in Processes : Ddl(p) \/ Prune(p))
      BY <2>1 DEF SchemaNext, Initialise, Start, InitAgain, InitFast, InitFull, Fill, DdlFails,
         PruneFails, PruneEnds, Search, Repair, Close, Return, CloseConnection, Stop, Bypass
    <2>6. QED
      BY <2>2, <2>3, <2>4, <2>5
  <1>2. QED
    BY <1>1, SchemaInductive, PTL DEF SchemaSpec

-----------------------------------------------------------------------------
(* BackupRetention.                                                        *)
(* The lock of the directory makes the passes exclusive: while one process *)
(* works, all others rest.  What a pass began to delete blindly was in its *)
(* hand when the last copy it retains went bad; from then on none of these *)
(* copies is good again, and the pass chooses nothing more.                *)

\* The unit in hand is one that exists; one that is torn was sealed before,
\* and the pass that holds a whole one was never blind.
Hand(b) ==
    /\ backer[b].at \in Kinds \cup {"unlink"} => backer[b].of \in Units
    /\ backer[b].at = "unlink" => unit[backer[b].of] \in {"sealed", "torn"}
    /\ backer[b].at = "unlink" /\ unit[backer[b].of] = "sealed" => backer[b].blind = {}

\* A pass was blind for one unit at most, and then none of its copies is good.
Blind(b) ==
    /\ backer[b].blind # {} => backer[b].keep \cap Verified = {}
    /\ \A u, v \in backer[b].blind : u = v
    /\ backer[b].at \in {"done"} \cup Kinds => backer[b].blind = {}

BackupInv == BackupTypeOK /\ OneBacker /\ \A b \in Backers : Hand(b) /\ Blind(b)

BackupTasks == [at : Kinds \cup {"done", "plan", "unlink"}, of : {0} \cup Units,
          blind : SUBSET Units, keep : SUBSET Units, remove : SUBSET Units]
-----------------------------------------------------------------------------
\* What the tasks of a process look like after a step.
LEMMA StartedTask ==
    ASSUME NEW kind \in Kinds, NEW u \in Units
    PROVE  /\ [Done EXCEPT !.at = kind, !.of = u] \in BackupTasks
           /\ [Done EXCEPT !.at = kind, !.of = u].at = kind
           /\ [Done EXCEPT !.at = kind, !.of = u].of = u
           /\ [Done EXCEPT !.at = kind, !.of = u].blind = {}
  BY DEF Done, BackupTasks, Kinds

\* A task that went on to another unit, or back to choosing, is a task.
LEMMA UnlinkedTask ==
    ASSUME NEW t \in BackupTasks, NEW blind \in SUBSET Units, NEW at \in {"unlink", "plan"}
    PROVE  [t EXCEPT !.at = at, !.blind = blind] \in BackupTasks
  BY DEF BackupTasks

\* A set of naturals has a least element.
LEMMA Least ==
    ASSUME NEW S \in SUBSET Nat, S # {}
    PROVE  \E x \in S : \A y \in S : x <= y
  <1> DEFINE R == OpToRel(<, Nat)
  <1>1. \A x, y \in S : (<<y, x>> \in R) <=> y < x
    BY DEF OpToRel
  <1>2. IsWellFoundedOn(R, Nat)
    BY NatLessThanWellFounded
  <1> HIDE DEF R
  <1>3. PICK x \in S : \A y \in S : ~ (<<y, x>> \in R)
    BY <1>2, WFMin
  <1>4. \A y \in S : ~ (y < x)
    BY <1>1, <1>3, Zenon
  <1>5. \A y \in S : x <= y
    BY <1>4, SMT
  <1>6. QED
    BY <1>5, Zenon

\* The oldest of the free units is one of them.
LEMMA OldestIsFree ==
    ASSUME NEW free \in SUBSET Units, free # {}
    PROVE  Oldest(free) \in free
  <1>1. Cardinality(Units) \in Nat
    BY UnitsAssumption, FS_CardinalityType
  <1>2. free \in SUBSET Nat
    BY <1>1, UnitsAssumption
  <1>3. \E x \in free : \A y \in free : x <= y
    BY <1>2, Least
  <1>4. QED
    BY <1>3 DEF Oldest

\* While one process works, or none holds the lock, the others rest.
LEMMA WorksAlone ==
    ASSUME BackupInv, NEW b \in Backers, NEW c \in Backers, c # b,
           backer[b].at # "done" \/ holder = NoBacker
    PROVE  backer[c].at = "done" /\ backer[c].blind = {}
  <1>1. backer[c].at = "done"
    BY BackersAssumption DEF BackupInv, OneBacker
  <1>2. QED
    BY <1>1 DEF BackupInv, Blind

\* A step of one process: the others rest before and after it.
LEMMA StepOfOne ==
    ASSUME BackupInv, NEW b \in Backers, NEW entry,
           backer[b].at # "done" \/ holder = NoBacker,
           BackupTypeOK', backer' = [backer EXCEPT ![b] = entry],
           holder' = b \/ backer'[b].at = "done",
           Hand(b)', Blind(b)'
    PROVE  BackupInv'
  <1>1. \A c \in Backers : c # b => backer'[c] = backer[c]
    BY DEF BackupInv, BackupTypeOK
  <1>2. \A c \in Backers : c # b => backer'[c].at = "done" /\ backer'[c].blind = {}
    BY <1>1, WorksAlone
  <1>3. \A c \in Backers : c # b => Hand(c)' /\ Blind(c)'
    BY <1>2 DEF Hand, Blind, Kinds
  <1>4. OneBacker'
    BY <1>2 DEF OneBacker
  <1>5. QED
    BY <1>3, <1>4 DEF BackupInv
-----------------------------------------------------------------------------
\* At the start nobody has the lock and nobody is blind.
LEMMA BackupInvInit == BackupInit => BackupInv
  BY DEF BackupInit, BackupInv, BackupTypeOK, OneBacker, Hand, Blind, Done, Kinds, States

\* A backup takes the free lock and the next unit, so its hand holds a new
\* unit.
LEMMA StartBackupInv ==
    ASSUME BackupInv, NEW b \in Backers, NEW kind \in Kinds, StartBackup(b, kind)
    PROVE  BackupInv'
  <1> DEFINE free == {u \in Units : \A v \in Units : v >= u => unit[v] = "none"}
  <1>1. Oldest(free) \in Units
    BY OldestIsFree DEF StartBackup
  <1> DEFINE entry == [Done EXCEPT !.at = kind, !.of = Oldest(free)]
  <1>2. /\ backer' = [backer EXCEPT ![b] = entry] /\ holder = NoBacker /\ holder' = b
        /\ unit' = [unit EXCEPT ![Oldest(free)] = "partial"] /\ bad' = bad
    BY DEF StartBackup, Lock
  <1> HIDE DEF free
  <1>3. /\ entry \in BackupTasks
        /\ entry.at = kind /\ entry.of = Oldest(free) /\ entry.blind = {}
    BY <1>1, StartedTask
  <1> HIDE DEF entry
  <1>4. backer'[b] = entry
    BY <1>2 DEF BackupInv, BackupTypeOK
  <1>5. BackupTypeOK'
    BY <1>1, <1>2, <1>3 DEF BackupInv, BackupTypeOK, States, BackupTasks
  <1>6. Hand(b)' /\ Blind(b)'
    BY <1>1, <1>3, <1>4 DEF Hand, Blind, Kinds
  <1>7. QED
    BY <1>2, <1>5, <1>6, StepOfOne

\* Publication moves the unit in hand from partial to sealed; no other unit.
LEMMA AdvanceInv ==
    ASSUME BackupInv, NEW b \in Backers, Advance(b)
    PROVE  BackupInv'
  <1>1. /\ backer[b].at \in Kinds /\ UNCHANGED <<bad, holder, backer>>
        /\ unit' \in [Units -> States] /\ backer[b].of \in Units
    BY DEF Advance, Kinds, BackupInv, BackupTypeOK, States, Hand
  <1>2. BackupTypeOK' /\ OneBacker'
    BY <1>1 DEF BackupInv, BackupTypeOK, OneBacker
  <1>3. \A c \in Backers : backer[c].at \in {"done"} \cup Kinds /\ backer[c].blind = {}
    BY <1>1, WorksAlone DEF BackupInv, Blind, Kinds
  <1>4. \A c \in Backers : Hand(c)' /\ Blind(c)'
    BY <1>1, <1>3 DEF BackupInv, Hand, Blind, Kinds
  <1>5. QED
    BY <1>2, <1>4 DEF BackupInv

\* The end of a task, however it comes.
LEMMA EndsInv ==
    ASSUME BackupInv, NEW b \in Backers, backer[b].at # "done", Ends(b),
           unit' \in [Units -> States], bad' = bad
    PROVE  BackupInv'
  <1>1. backer' = [backer EXCEPT ![b] = Done] /\ holder' \in Backers \cup {NoBacker}
    BY DEF Ends, Unlock, BackupInv, BackupTypeOK
  <1>2. backer'[b] = Done
    BY <1>1 DEF BackupInv, BackupTypeOK
  <1>3. BackupTypeOK'
    BY <1>1 DEF BackupInv, BackupTypeOK, Done, Kinds
  <1>4. Hand(b)' /\ Blind(b)' /\ backer'[b].at = "done"
    BY <1>2 DEF Hand, Blind, Done, Kinds
  <1>5. QED
    BY <1>1, <1>3, <1>4, StepOfOne

\* However a task ends, its process gives up lock, unit and choice together.
LEMMA TaskEnds ==
    ASSUME BackupInv, NEW b \in Backers,
           EndBackup(b) \/ BackupFails(b) \/ EndPrune(b) \/ BackerStops(b)
    PROVE  BackupInv'
  <1>1. backer[b].at # "done" /\ Ends(b) /\ bad' = bad
    BY DEF EndBackup, BackupFails, EndPrune, BackerStops, Kinds
  <1>2. unit' \in [Units -> States]
    BY DEF EndBackup, BackupFails, EndPrune, BackerStops, BackupInv, BackupTypeOK, States
  <1>3. QED
    BY <1>1, <1>2, EndsInv

\* A retention pass begins with the lock, with nothing in hand and not blind.
LEMMA StartPruneInv ==
    ASSUME BackupInv, NEW b \in Backers, StartPrune(b)
    PROVE  BackupInv'
  <1>1. PICK seen \in SUBSET Verified, n \in 1 .. KeepCount :
           backer' = [backer EXCEPT ![b] =
             [at |-> "plan", of |-> 0, blind |-> {}, keep |-> Newest(n, seen),
              remove |-> seen \ Newest(n, seen)]]
    BY DEF StartPrune
  <1>2. holder = NoBacker /\ holder' = b /\ UNCHANGED <<unit, bad>>
    BY DEF StartPrune, Lock
  <1>3. Newest(n, seen) \subseteq Units /\ seen \subseteq Units
    BY DEF Newest, Verified
  <1>4. backer'[b] = [at |-> "plan", of |-> 0, blind |-> {}, keep |-> Newest(n, seen),
                      remove |-> seen \ Newest(n, seen)]
    BY <1>1 DEF BackupInv, BackupTypeOK
  <1>5. BackupTypeOK'
    BY <1>1, <1>2, <1>3 DEF BackupInv, BackupTypeOK
  <1>6. Hand(b)' /\ Blind(b)'
    BY <1>4 DEF Hand, Blind, Kinds
  <1>7. QED
    BY <1>1, <1>2, <1>5, <1>6, StepOfOne

\* A pass puts in hand a unit it may remove, and none once its copies are
\* bad.
LEMMA ChooseInv ==
    ASSUME BackupInv, NEW b \in Backers, Choose(b)
    PROVE  BackupInv'
  <1>1. PICK u \in backer[b].remove :
          backer' = [backer EXCEPT ![b].of = u, ![b].remove = @ \ {u},
                                   ![b].at = IF u \in Verified THEN "unlink" ELSE "plan"]
    BY DEF Choose
  <1>2. /\ backer[b].at = "plan" /\ backer[b].keep \cap Verified # {}
        /\ UNCHANGED <<unit, bad, holder>>
    BY DEF Choose, Retained
  <1> DEFINE at == IF u \in Verified THEN "unlink" ELSE "plan"
             entry == [backer[b] EXCEPT !.of = u, !.remove = @ \ {u}, !.at = at]
  <1>3. backer' = [backer EXCEPT ![b] = entry] /\ backer'[b] = entry
    BY <1>1 DEF BackupInv, BackupTypeOK
  <1>4. u \in Units
    BY DEF BackupInv, BackupTypeOK
  <1>5. /\ entry \in BackupTasks /\ entry.of = u /\ entry.at = at
        /\ entry.keep = backer[b].keep /\ entry.blind = backer[b].blind
    <2>1. backer[b] \in BackupTasks /\ at \in {"unlink", "plan"}
      BY DEF BackupInv, BackupTypeOK, BackupTasks
    <2> HIDE DEF at
    <2>2. entry.of = u /\ entry.at = at
      BY <2>1 DEF BackupTasks
    <2>3. entry.keep = backer[b].keep /\ entry.blind = backer[b].blind
      BY <2>1 DEF BackupTasks
    <2>4. entry \in BackupTasks
      BY <1>4, <2>1 DEF BackupTasks
    <2>5. QED
      BY <2>2, <2>3, <2>4
  <1> HIDE DEF entry
  <1>6. entry.blind = {}
    BY <1>2, <1>5 DEF BackupInv, Blind
  <1>7. BackupTypeOK'
    BY <1>2, <1>3, <1>5 DEF BackupInv, BackupTypeOK, BackupTasks
  <1>8. Hand(b)' /\ Blind(b)'
    BY <1>2, <1>3, <1>4, <1>5, <1>6 DEF Hand, Blind, Kinds, Verified
  <1>9. holder' = b
    BY <1>2 DEF BackupInv, OneBacker
  <1>10. QED
    BY <1>2, <1>3, <1>7, <1>8, <1>9, StepOfOne

\* Removing files tears the unit in hand; what was blind stays the one unit.
LEMMA UnlinkInv ==
    ASSUME BackupInv, NEW b \in Backers, Unlink(b)
    PROVE  BackupInv'
  <1> DEFINE u == backer[b].of
             atend == IF unit[u] = "torn" THEN "plan" ELSE backer[b].at
             blindend == IF unit[u] = "sealed" /\ backer[b].keep \cap Verified = {}
                         THEN backer[b].blind \cup {u} ELSE backer[b].blind
             entry == [backer[b] EXCEPT !.at = atend, !.blind = blindend]
  <1>1. /\ backer[b].at = "unlink" /\ u \in Units /\ unit[u] \in {"sealed", "torn"}
        /\ unit' = [unit EXCEPT ![u] = IF @ = "sealed" THEN "torn" ELSE "none"]
        /\ UNCHANGED <<bad, holder>>
    BY DEF Unlink, BackupInv, Hand
  <1>2. backer' = [backer EXCEPT ![b] = entry] /\ backer'[b] = entry
    BY DEF Unlink, BackupInv, BackupTypeOK
  <1>3. /\ entry.at = atend /\ entry.blind = blindend
        /\ entry.of = u /\ entry.keep = backer[b].keep /\ entry.remove = backer[b].remove
    BY DEF BackupInv, BackupTypeOK
  <1>4. BackupTypeOK'
    <2>1. backer[b] \in BackupTasks /\ blindend \in SUBSET Units /\ atend \in {"unlink", "plan"}
      BY <1>1 DEF BackupInv, BackupTypeOK, BackupTasks
    <2>2. entry \in BackupTasks
      BY <2>1, UnlinkedTask
    <2> HIDE DEF entry
    <2>3. backer' \in [Backers -> BackupTasks]
      BY <1>2, <2>2 DEF BackupInv, BackupTypeOK, BackupTasks
    <2>4. unit' \in [Units -> States]
      BY <1>1 DEF BackupInv, BackupTypeOK, States
    <2>5. QED
      BY <1>1, <2>3, <2>4 DEF BackupInv, BackupTypeOK, BackupTasks
  <1>5. Verified' \subseteq Verified
    BY <1>1 DEF Verified, BackupInv, BackupTypeOK
  <1> HIDE DEF entry
  <1>6. CASE unit[u] = "sealed"
    <2>1. unit'[u] = "torn" /\ backer[b].blind = {} /\ atend = "unlink"
      BY <1>1, <1>6 DEF BackupInv, BackupTypeOK, Hand
    <2>2. Hand(b)'
      BY <1>1, <1>2, <1>3, <2>1 DEF Hand
    <2>3. Blind(b)'
      BY <1>2, <1>3, <1>5, <2>1 DEF Blind, Kinds
    <2>4. holder' = b
      BY <1>1 DEF BackupInv, OneBacker
    <2>5. QED
      BY <1>1, <1>2, <1>4, <2>2, <2>3, <2>4, StepOfOne
  <1>7. CASE unit[u] = "torn"
    <2>1. atend = "plan" /\ blindend = backer[b].blind
      BY <1>7
    <2>2. Hand(b)'
      BY <1>2, <1>3, <2>1 DEF Hand, Kinds
    <2>3. Blind(b)'
      BY <1>2, <1>3, <1>5, <2>1 DEF Blind, Kinds, BackupInv
    <2>4. holder' = b
      BY <1>1 DEF BackupInv, OneBacker
    <2>5. QED
      BY <1>1, <1>2, <1>4, <2>2, <2>3, <2>4, StepOfOne
  <1>8. QED
    BY <1>1, <1>6, <1>7

\* A removal that fails leaves the unit torn and the pass as it was.
LEMMA UnlinkFailsInv ==
    ASSUME BackupInv, NEW b \in Backers, UnlinkFails(b)
    PROVE  BackupInv'
  <1> DEFINE entry == [backer[b] EXCEPT !.at = "plan"]
  <1>1. /\ backer[b].at = "unlink" /\ UNCHANGED <<unit, bad, holder>>
        /\ backer' = [backer EXCEPT ![b] = entry] /\ backer'[b] = entry
    BY DEF UnlinkFails, BackupInv, BackupTypeOK
  <1>2. entry.at = "plan" /\ entry.blind = backer[b].blind /\ entry.keep = backer[b].keep
    BY DEF BackupInv, BackupTypeOK
  <1>3. BackupTypeOK'
    BY <1>1 DEF BackupInv, BackupTypeOK
  <1> HIDE DEF entry
  <1>4. Hand(b)' /\ Blind(b)'
    BY <1>1, <1>2 DEF BackupInv, Hand, Blind, Verified, Kinds
  <1>5. holder' = b
    BY <1>1 DEF BackupInv, OneBacker
  <1>6. QED
    BY <1>1, <1>3, <1>4, <1>5, StepOfOne

\* A copy that goes bad may leave a pass blind, for the unit it has in hand.
LEMMA GoesBadInv ==
    ASSUME BackupInv, NEW u \in Units, GoesBad(u)
    PROVE  BackupInv'
  <1>1. bad' = bad \cup {u} /\ UNCHANGED <<unit, holder, backer>>
    BY DEF GoesBad
  <1>2. Verified' \subseteq Verified
    BY <1>1 DEF Verified
  <1>3. QED
    BY <1>1, <1>2 DEF BackupInv, BackupTypeOK, OneBacker, Hand, Blind

\* Every step keeps the invariant of the retention passes.
LEMMA BackupInvStep == BackupInv /\ [BackupNext]_backupVars => BackupInv'
  <1>1. SUFFICES ASSUME BackupInv, [BackupNext]_backupVars
                 PROVE  BackupInv'
    OBVIOUS
  <1>2. CASE UNCHANGED backupVars
    BY <1>1, <1>2 DEF backupVars, BackupInv, BackupTypeOK, OneBacker, Hand, Blind, Verified
  <1>3. CASE BackupNext
    BY <1>1, <1>3, StartBackupInv, AdvanceInv, TaskEnds, StartPruneInv, ChooseInv, UnlinkInv,
       UnlinkFailsInv, GoesBadInv DEF BackupNext
  <1>4. QED
    BY <1>1, <1>2, <1>3

\* The inductive invariant holds in every reachable state.
THEOREM BackupInductive == BackupSpec => []BackupInv
  BY BackupInvInit, BackupInvStep, PTL DEF BackupSpec

\* The invariant says that at most one copy is lost to a blind pass.
LEMMA SafeFromInv == BackupInv => BackupsAreSafe
  <1>1. SUFFICES ASSUME BackupInv
                 PROVE  BackupsAreSafe
    OBVIOUS
  <1>2. ASSUME NEW b \in Backers
        PROVE  Cardinality(backer[b].blind) <= 1
    <2>1. CASE backer[b].blind = {}
      BY <2>1, FS_EmptySet
    <2>2. CASE backer[b].blind # {}
      <3>1. PICK u \in backer[b].blind : TRUE
        BY <2>2
      <3>2. backer[b].blind = {u}
        BY <1>1, <3>1 DEF BackupInv, Blind
      <3>3. Cardinality(backer[b].blind) = 1
        BY <3>2, FS_Singleton
      <3>4. QED
        BY <3>3, SMT
    <2>3. QED
      BY <2>1, <2>2
  <1>3. QED
    BY <1>1, <1>2 DEF BackupInv, BackupsAreSafe, ACopyIsLeft

\* Whatever goes bad on the disk while a pass works, it takes at most the one
\* copy it had in hand; and one process at a time changes the directory.
THEOREM CopiesAreSafe == BackupSpec => []BackupsAreSafe
  BY BackupInductive, SafeFromInv, PTL

\* A unit that vanishes was sealed and in the hand of the pass that took it.
LEMMA BackupStepHolds == BackupInv /\ [BackupNext]_backupVars => [BackupStep]_backupVars
  <1>1. SUFFICES ASSUME BackupInv, BackupNext, NEW u \in Units,
                        unit'[u] \in {"torn", "none"},
                        unit[u] \notin {"torn", "none", "partial"}
                 PROVE  /\ unit[u] = "sealed"
                        /\ \E b \in Backers : backer[b].at = "unlink" /\ backer[b].of = u
    BY DEF BackupStep
  <1>2. unit' # unit
    BY <1>1
  <1>3. ASSUME NEW b \in Backers, NEW kind \in Kinds, StartBackup(b, kind)
        PROVE  FALSE
    BY <1>1, <1>3 DEF StartBackup, BackupInv, BackupTypeOK
  <1>4. ASSUME NEW b \in Backers, Advance(b)
        PROVE  FALSE
    BY <1>1, <1>4 DEF Advance, BackupInv, BackupTypeOK
  <1>5. ASSUME NEW b \in Backers, BackupFails(b)
        PROVE  FALSE
    BY <1>1, <1>5 DEF BackupFails, BackupInv, BackupTypeOK
  <1>6. PICK b \in Backers : Unlink(b)
    BY <1>1, <1>2, <1>3, <1>4, <1>5
       DEF BackupNext, EndBackup, StartPrune, Choose, UnlinkFails, EndPrune, BackerStops, GoesBad
  <1>7. backer[b].at = "unlink" /\ backer[b].of = u
    BY <1>1, <1>6 DEF Unlink, BackupInv, BackupTypeOK
  <1>8. QED
    BY <1>1, <1>7 DEF BackupInv, Hand

\* Retention deletes what it has verified: legacy, incomplete and changed
\* backups stay.
THEOREM OnlyVerifiedGoes == BackupSpec => [][BackupStep]_backupVars
  BY BackupInductive, BackupStepHolds, PTL DEF BackupSpec

-----------------------------------------------------------------------------
(* GovernanceQueue.                                                        *)
(* Who appends, resolves or merges holds the lock and has the table itself *)
(* as its snapshot; what was looked at without the lock decides nothing.  A *)
(* merge and the mark on its item are one transaction.                     *)

\* What the queue, an actor's snapshot of it and an actor may hold.
QueueItems == [key : Keys, status : Statuses]
Snapshots == [AllIds -> QueueItems \cup {None}]
Tasks == [at : {"idle", "scanned", "append", "resolve", "merge"}, snap : Snapshots,
          key : Keys \cup {None}, id : AllIds \cup {None}]

\* The types of the variables.
QueueTyped ==
    /\ queue \in Snapshots
    /\ queueLock \in Actors \cup {None}
    /\ actor \in [Actors -> Tasks]
    /\ alias \in [QueuePages -> QueuePages \cup {None}]
    /\ applied \in SUBSET AllIds

\* Where an actor holds the lock.
Inside == {"append", "resolve", "merge"}

\* Who is inside holds the lock, and its snapshot is the table.
Holding ==
    \A a \in Actors :
        /\ actor[a].at \in Inside => queueLock = a /\ actor[a].snap = queue
        /\ actor[a].at \in {"scanned", "append"} => actor[a].key \in Keys
        /\ actor[a].at \in {"resolve", "merge"} => actor[a].id \in AllIds
        /\ actor[a].at = "merge" => /\ queue[actor[a].id] # None
                                    /\ actor[a].key = queue[actor[a].id].key
                                    /\ actor[a].key.kind \in Merges

\* The id of a batch is that of a batch, and only merges are merged.
KindsKept ==
    \A id \in Items(queue) :
        /\ queue[id].key.kind = "batch" <=> id = BatchId
        /\ queue[id].status = "merged" => queue[id].key.kind \in Merges

\* The inductive invariant: the properties, the lock and the kinds.
QueueInv == QueueTyped /\ Holding /\ KindsKept /\ OnePair /\ MergesAreOnRecord /\ AliasesEnd

\* An item is something, and ids are ids.
LEMMA ItemIsSome ==
    /\ \A item \in QueueItems : item # None
    /\ BatchId \in AllIds /\ ItemIds \subseteq AllIds
<1>1. ASSUME NEW item \in QueueItems PROVE item # None
  <2>1. item = [key |-> item.key, status |-> item.status] /\ item.key \in Keys
          /\ item.status \in Statuses
    BY DEF QueueItems
  <2> QED BY <2>1, QueueAssumption
<1> QED BY <1>1 DEF AllIds

\* The idle actor has its type.
LEMMA NoTaskIs ==
    /\ Empty \in Snapshots /\ NoTask \in Tasks /\ NoTask.at = "idle"
    /\ \A id \in AllIds : Empty[id] = None
<1>1. Empty \in Snapshots BY DEF Empty, Snapshots
<1> QED BY <1>1 DEF NoTask, Tasks, Empty

\* At first the queue is empty.
LEMMA QueueStarts == QueueInit => QueueInv
<1> SUFFICES ASSUME QueueInit PROVE QueueInv OBVIOUS
<1>1. queue = Empty /\ queueLock = None /\ applied = {} /\ actor = [a \in Actors |-> NoTask]
      /\ alias = [p \in QueuePages |-> None]
  BY DEF QueueInit
<1>2. QueueTyped BY <1>1, NoTaskIs DEF QueueTyped
<1>3. Holding BY <1>1, NoTaskIs DEF Holding, Inside
<1>4. Items(queue) = {} BY <1>1, NoTaskIs DEF Items
<1>5. KindsKept /\ OnePair BY <1>4 DEF KindsKept, OnePair
<1>6. MergesAreOnRecord BY <1>1, NoTaskIs DEF MergesAreOnRecord
<1>7. AliasesEnd
  <2>1. ASSUME NEW loop \in (SUBSET QueuePages) \ {{}}
        PROVE  \E p \in loop : alias[p] \notin loop
    <3>1. \E p : p \in loop BY <2>1
    <3>2. PICK p \in loop : TRUE BY <3>1
    <3>3. p \in QueuePages /\ None \notin loop BY QueueAssumption
    <3> QED BY <1>1, <3>3
  <2> QED BY <2>1 DEF AliasesEnd
<1> QED BY <1>2, <1>3, <1>5, <1>6, <1>7 DEF QueueInv

(* One actor moves, and what holds of the table stays.                     *)
LEMMA TableStays ==
    ASSUME QueueInv, UNCHANGED <<queue, applied>>
    PROVE  KindsKept' /\ OnePair' /\ MergesAreOnRecord'
  BY DEF QueueInv, KindsKept, OnePair, MergesAreOnRecord, Items

\* Aliases that stay end where they ended.
LEMMA AliasesStay ==
    ASSUME QueueInv, UNCHANGED alias
    PROVE  AliasesEnd'
  BY DEF QueueInv, AliasesEnd

(* The others are outside when one is inside.                              *)
LEMMA OthersWait ==
    ASSUME QueueInv, NEW a \in Actors, queueLock = a \/ queueLock = None,
           NEW p \in Tasks, actor' = [actor EXCEPT ![a] = p],
           p.at \notin Inside,
           p.at = "scanned" => p.key \in Keys
    PROVE  /\ Holding'
           /\ actor' \in [Actors -> Tasks]
<1>1. actor \in [Actors -> Tasks] BY DEF QueueInv, QueueTyped
<1>2. actor'[a] = p /\ \A b \in Actors \ {a} : actor'[b] = actor[b] BY <1>1
<1>3. \A b \in Actors \ {a} : actor[b].at \notin Inside
  BY QueueAssumption DEF QueueInv, Holding
<1>4. \A b \in Actors : actor'[b].at \notin Inside BY <1>2, <1>3
<1>5. \A b \in Actors : actor'[b].at \in {"scanned", "append"} => actor'[b].key \in Keys
  BY <1>2, <1>3 DEF QueueInv, Holding, Inside
<1>6. Holding' BY <1>4, <1>5 DEF Holding, Inside
<1> QED BY <1>1, <1>6

\* Looking at the queue without the lock decides nothing.
LEMMA KeepScan ==
    ASSUME QueueInv, NEW a \in Actors, NEW key \in Keys, Scan(a, key)
    PROVE  QueueInv'
<1>1. UNCHANGED <<queue, queueLock, existing, alias, applied>>
      /\ actor' = [actor EXCEPT ![a] = [NoTask EXCEPT !.at = "scanned", !.key = key]]
  BY DEF Scan, Become
<1> DEFINE p == [NoTask EXCEPT !.at = "scanned", !.key = key]
<1>2. p \in Tasks /\ p.at = "scanned" /\ p.key = key BY NoTaskIs DEF NoTask, Tasks
<1>3. actor \in [Actors -> Tasks] /\ QueueTyped BY DEF QueueInv, QueueTyped
<1> HIDE DEF p
<1>4. actor'[a] = p /\ \A b \in Actors \ {a} : actor'[b] = actor[b] BY <1>1, <1>3 DEF p
<1>5. actor' \in [Actors -> Tasks] BY <1>1, <1>2, <1>3 DEF p
<1>6. Holding'
  <2>1. ASSUME NEW b \in Actors
        PROVE  /\ actor'[b].at \in Inside => queueLock' = b /\ actor'[b].snap = queue'
               /\ actor'[b].at \in {"scanned", "append"} => actor'[b].key \in Keys
               /\ actor'[b].at \in {"resolve", "merge"} => actor'[b].id \in AllIds
               /\ actor'[b].at = "merge" => /\ queue'[actor'[b].id] # None
                                            /\ actor'[b].key = queue'[actor'[b].id].key
                                            /\ actor'[b].key.kind \in Merges
    <3>1. CASE b = a BY <1>2, <1>4, <3>1 DEF Inside
    <3>2. CASE b # a BY <1>1, <1>4, <3>2 DEF QueueInv, Holding
    <3> QED BY <3>1, <3>2
  <2> QED BY <2>1 DEF Holding
<1>7. QueueTyped' BY <1>1, <1>3, <1>5 DEF QueueTyped
<1> QED BY <1>1, <1>6, <1>7, TableStays, AliasesStay DEF QueueInv

(* Entering the session: the lock is free, the snapshot is the table.      *)
LEMMA KeepEntering ==
    ASSUME QueueInv, NEW a \in Actors, Unlocked, queueLock' = a, NEW p \in Tasks,
           actor' = [actor EXCEPT ![a] = p], UNCHANGED <<queue, alias, applied>>,
           p.snap = queue,
           \/ p.at = "append" /\ p.key \in Keys
           \/ p.at = "resolve" /\ p.id \in AllIds
    PROVE  QueueInv'
<1>1. actor \in [Actors -> Tasks] /\ QueueTyped BY DEF QueueInv, QueueTyped
<1>2. actor'[a] = p /\ \A b \in Actors \ {a} : actor'[b] = actor[b] BY <1>1
<1>3. actor' \in [Actors -> Tasks] BY <1>1
<1>4. \A b \in Actors : actor[b].at \notin Inside
  BY QueueAssumption DEF QueueInv, Holding, Unlocked
<1>5. Holding'
  <2>1. ASSUME NEW b \in Actors
        PROVE  /\ actor'[b].at \in Inside => queueLock' = b /\ actor'[b].snap = queue'
               /\ actor'[b].at \in {"scanned", "append"} => actor'[b].key \in Keys
               /\ actor'[b].at \in {"resolve", "merge"} => actor'[b].id \in AllIds
               /\ actor'[b].at # "merge"
    <3>1. CASE b = a BY <1>2, <3>1 DEF Inside
    <3>2. CASE b # a BY <1>2, <1>4, <3>2 DEF QueueInv, Holding, Inside
    <3> QED BY <3>1, <3>2
  <2> QED BY <2>1 DEF Holding
<1>6. QueueTyped' BY <1>1, <1>3 DEF QueueTyped
<1> QED BY <1>5, <1>6, TableStays, AliasesStay DEF QueueInv

\* Who enters to append takes the free lock and reads the table.
LEMMA KeepEnter ==
    ASSUME QueueInv, NEW a \in Actors, NEW key \in Keys, Enter(a, key)
    PROVE  QueueInv'
<1> DEFINE p == [NoTask EXCEPT !.at = "append", !.snap = queue, !.key = key]
<1>1. Unlocked /\ queueLock' = a /\ UNCHANGED <<queue, alias, applied>>
      /\ actor' = [actor EXCEPT ![a] = p]
  BY DEF Enter, Become
<1>2. queue \in Snapshots BY DEF QueueInv, QueueTyped
<1>3. p \in Tasks /\ p.at = "append" /\ p.snap = queue /\ p.key = key
  BY <1>2, NoTaskIs DEF NoTask, Tasks
<1> HIDE DEF p
<1> QED BY <1>1, <1>3, KeepEntering

\* The same to resolve.
LEMMA KeepEnterResolve ==
    ASSUME QueueInv, NEW a \in Actors, NEW id \in AllIds, EnterResolve(a, id)
    PROVE  QueueInv'
<1> DEFINE p == [NoTask EXCEPT !.at = "resolve", !.snap = queue, !.id = id]
<1>1. Unlocked /\ queueLock' = a /\ UNCHANGED <<queue, alias, applied>>
      /\ actor' = [actor EXCEPT ![a] = p]
  BY DEF EnterResolve, Become
<1>2. queue \in Snapshots BY DEF QueueInv, QueueTyped
<1>3. p \in Tasks /\ p.at = "resolve" /\ p.snap = queue /\ p.id = id
  BY <1>2, NoTaskIs DEF NoTask, Tasks
<1> HIDE DEF p
<1> QED BY <1>1, <1>3, KeepEntering

(* Leaving: the lock is released.                                          *)
LEMMA KeepLeaving ==
    ASSUME QueueInv, NEW a \in Actors, actor[a].at \in Inside, queueLock' = None,
           actor' = [actor EXCEPT ![a] = NoTask]
    PROVE  Holding' /\ (queue' \in Snapshots /\ alias' \in [QueuePages -> QueuePages \cup {None}]
                        /\ applied' \in SUBSET AllIds => QueueTyped')
<1>1. queueLock = a BY DEF QueueInv, Holding
<1>2. Holding' /\ actor' \in [Actors -> Tasks] BY <1>1, NoTaskIs, OthersWait DEF Inside
<1> QED BY <1>2 DEF QueueTyped

\* What is appended is new by the snapshot, which is the table.
LEMMA KeepAppend ==
    ASSUME QueueInv, NEW a \in Actors, Append(a)
    PROVE  QueueInv' /\ RecordStep
<1> DEFINE p == actor[a]
<1>1. p.at = "append" /\ p.snap = queue /\ p.key \in Keys /\ queueLock' = None
      /\ actor' = [actor EXCEPT ![a] = NoTask] /\ UNCHANGED <<existing, alias, applied>>
  BY DEF Append, Become, QueueInv, Holding, Inside
<1>2. queue \in Snapshots /\ QueueTyped /\ OnePair /\ MergesAreOnRecord /\ KindsKept
        /\ applied \in SUBSET AllIds
      /\ alias \in [QueuePages -> QueuePages \cup {None}]
  BY DEF QueueInv, QueueTyped
<1>3. AliasesEnd' BY <1>1, AliasesStay
<1>4. CASE IsNew(p)
  <2>1. PICK id \in NewId(p) : queue' = [queue EXCEPT ![id] = [key |-> p.key, status |-> "pending"]]
    BY <1>1, <1>4 DEF Append
  <2>2. p.key.kind \in ItemKinds BY <1>1, QueueAssumption
  <2>3. /\ id \in AllIds
        /\ p.key.kind = "batch" => id = BatchId
        /\ p.key.kind # "batch" => id \in ItemIds /\ queue[id] = None /\ id # BatchId
    BY <1>1, <2>1, QueueAssumption, ItemIsSome DEF NewId, Items
  <2> DEFINE item == [key |-> p.key, status |-> "pending"]
  <2>4. item \in QueueItems /\ item # None /\ item.key = p.key /\ item.status = "pending"
    BY <1>1, ItemIsSome DEF QueueItems, Statuses
  <2>5. queue'[id] = item /\ (\A i \in AllIds \ {id} : queue'[i] = queue[i]) /\ queue' \in Snapshots
    BY <1>2, <2>1, <2>3, <2>4 DEF Snapshots
  <2> HIDE DEF p, item
  <2>6. Holding' /\ QueueTyped' BY <1>1, <1>2, <2>5, KeepLeaving DEF Inside, p
  <2>7. id \notin applied
    <3>1. ASSUME id \in applied PROVE FALSE
      <4>1. queue[id] # None /\ queue[id].status = "merged"
        BY <1>2, <2>3, <3>1 DEF MergesAreOnRecord
      <4>2. id = BatchId BY <2>3, <4>1
      <4> QED BY <1>2, <2>3, <4>1, <4>2 DEF KindsKept, Items, Merges
    <3> QED BY <3>1
  <2>8. MergesAreOnRecord'
    <3>1. ASSUME NEW i \in AllIds
          PROVE  i \in applied' <=> (queue'[i] # None /\ queue'[i].status = "merged")
      <4>1. CASE i = id BY <1>1, <2>4, <2>5, <2>7, <4>1
      <4>2. CASE i # id BY <1>1, <1>2, <2>5, <4>2 DEF MergesAreOnRecord
      <4> QED BY <4>1, <4>2
    <3> QED BY <3>1 DEF MergesAreOnRecord
  <2>9. KindsKept'
    <3>1. ASSUME NEW i \in Items(queue')
          PROVE  /\ queue'[i].key.kind = "batch" <=> i = BatchId
                 /\ queue'[i].status = "merged" => queue'[i].key.kind \in Merges
      <4>1. i \in AllIds BY DEF Items
      <4>2. CASE i = id BY <2>3, <2>4, <2>5, <4>2
      <4>3. CASE i # id BY <1>2, <2>5, <3>1, <4>1, <4>3 DEF KindsKept, Items
      <4> QED BY <4>2, <4>3
    <3> QED BY <3>1 DEF KindsKept, Items
  <2>10. OnePair'
    <3>1. p.key.kind = "pair" => \A i \in Items(queue) : queue[i].key # p.key
      BY <1>1, <1>4 DEF IsNew, Known, p
    <3>2. ASSUME NEW i \in Items(queue'), NEW j \in Items(queue'),
                 queue'[i].key = queue'[j].key, queue'[i].key.kind = "pair"
          PROVE  i = j
      <4>1. i \in AllIds /\ j \in AllIds BY DEF Items
      <4>2. CASE i = id /\ j # id
        <5>1. j \in Items(queue) /\ queue[j].key = p.key /\ p.key.kind = "pair"
          BY <2>4, <2>5, <3>2, <4>1, <4>2 DEF Items
        <5> QED BY <3>1, <5>1
      <4>3. CASE j = id /\ i # id
        <5>1. i \in Items(queue) /\ queue[i].key = p.key /\ p.key.kind = "pair"
          BY <2>4, <2>5, <3>2, <4>1, <4>3 DEF Items
        <5> QED BY <3>1, <5>1
      <4>4. CASE i # id /\ j # id
        <5>1. i \in Items(queue) /\ j \in Items(queue) /\ queue[i].key = queue[j].key
              /\ queue[i].key.kind = "pair"
          BY <2>5, <3>2, <4>1, <4>4 DEF Items
        <5> QED BY <1>2, <5>1 DEF OnePair
      <4> QED BY <4>2, <4>3, <4>4
    <3> QED BY <3>2 DEF OnePair, Items
  <2>11. RecordStep
    <3>1. Items(queue) \subseteq Items(queue') BY <2>4, <2>5 DEF Items
    <3>2. ASSUME NEW i \in ItemIds, Decided(i) PROVE Decided(i)'
      <4>1. i \in AllIds /\ i # BatchId BY QueueAssumption, ItemIsSome
      <4>2. i # id BY <2>3, <3>2, <4>1 DEF Decided
      <4> QED BY <2>5, <3>2, <4>1, <4>2 DEF Decided
    <3> QED BY <3>1, <3>2 DEF RecordStep
  <2> QED BY <1>3, <2>6, <2>8, <2>9, <2>10, <2>11 DEF QueueInv
<1>5. CASE ~IsNew(p)
  <2>1. UNCHANGED queue BY <1>5 DEF Append
  <2>2. Holding' /\ QueueTyped' BY <1>1, <1>2, <2>1, KeepLeaving DEF Inside
  <2>3. RecordStep BY <2>1 DEF RecordStep, Decided, Items
  <2> QED BY <1>1, <1>3, <2>1, <2>2, <2>3, TableStays DEF QueueInv
<1> QED BY <1>4, <1>5

(* Marking an item that is there, and adding it to those merged if so marked. *)
LEMMA KeepMarked ==
    ASSUME QueueInv, NEW id \in AllIds, queue[id] # None, NEW status \in {"skipped", "merged"},
           queue' = [queue EXCEPT ![id].status = status],
           status = "skipped" => queue[id].status = "pending" /\ UNCHANGED applied,
           status = "merged" => queue[id].key.kind \in Merges /\ applied' = applied \cup {id}
    PROVE  /\ queue' \in Snapshots /\ applied' \in SUBSET AllIds
           /\ KindsKept' /\ OnePair' /\ MergesAreOnRecord' /\ RecordStep
<1>1. queue \in Snapshots /\ applied \in SUBSET AllIds /\ KindsKept /\ OnePair /\ MergesAreOnRecord
  BY DEF QueueInv, QueueTyped
<1>2. queue[id] \in QueueItems BY <1>1 DEF Snapshots
<1> DEFINE item == [queue[id] EXCEPT !.status = status]
<1>3. item \in QueueItems /\ item.key = queue[id].key /\ item.status = status /\ item # None
  BY <1>2, ItemIsSome DEF QueueItems, Statuses
<1>4. queue' = [queue EXCEPT ![id] = item] OBVIOUS
<1> HIDE DEF item
<1>5. queue' \in Snapshots /\ queue'[id] = item /\ \A i \in AllIds \ {id} : queue'[i] = queue[i]
  BY <1>1, <1>3, <1>4 DEF Snapshots
<1>6. Items(queue') = Items(queue) BY <1>3, <1>5 DEF Items
<1>7. \A i \in Items(queue) : i \in AllIds /\ queue'[i].key = queue[i].key
  BY <1>3, <1>5 DEF Items
<1>8. OnePair' BY <1>1, <1>6, <1>7 DEF OnePair, Items
<1>9. KindsKept'
  <2>1. ASSUME NEW i \in Items(queue)
        PROVE  /\ queue'[i].key.kind = "batch" <=> i = BatchId
               /\ queue'[i].status = "merged" => queue'[i].key.kind \in Merges
    <3>1. CASE i = id BY <1>1, <1>3, <1>5, <3>1 DEF KindsKept
    <3>2. CASE i # id BY <1>1, <1>5, <1>7, <3>2 DEF KindsKept
    <3> QED BY <3>1, <3>2
  <2> QED BY <1>6, <2>1 DEF KindsKept, Items
<1>10. MergesAreOnRecord' /\ applied' \in SUBSET AllIds
  <2>1. ASSUME NEW i \in AllIds
        PROVE  i \in applied' <=> (queue'[i] # None /\ queue'[i].status = "merged")
    <3>1. CASE i = id BY <1>1, <1>3, <1>5, <3>1 DEF MergesAreOnRecord
    <3>2. CASE i # id BY <1>1, <1>5, <3>2 DEF MergesAreOnRecord
    <3> QED BY <3>1, <3>2
  <2> QED BY <1>1, <2>1 DEF MergesAreOnRecord
<1>11. RecordStep
  <2>1. ASSUME NEW i \in ItemIds, Decided(i) PROVE Decided(i)'
    <3>1. i \in AllIds BY ItemIsSome
    <3>2. CASE i = id BY <1>3, <1>5, <3>2 DEF Decided
    <3>3. CASE i # id BY <1>5, <2>1, <3>1, <3>3 DEF Decided
    <3> QED BY <3>2, <3>3
  <2> QED BY <1>6, <2>1 DEF RecordStep
<1> QED BY <1>5, <1>8, <1>9, <1>10, <1>11

\* A pending item is skipped.
LEMMA KeepSkip ==
    ASSUME QueueInv, NEW a \in Actors, Skip(a)
    PROVE  QueueInv' /\ RecordStep
<1> DEFINE p == actor[a]
<1>1. p.at = "resolve" /\ p.snap = queue /\ p.id \in AllIds /\ queueLock' = None
      /\ actor' = [actor EXCEPT ![a] = NoTask] /\ UNCHANGED <<existing, alias, applied>>
      /\ queue[p.id] # None /\ queue[p.id].status = "pending"
      /\ queue' = [queue EXCEPT ![p.id].status = "skipped"]
  BY DEF Skip, Become, QueueInv, Holding, Inside, Open, Marked
<1> HIDE DEF p
<1>2. /\ queue' \in Snapshots /\ applied' \in SUBSET AllIds
      /\ KindsKept' /\ OnePair' /\ MergesAreOnRecord' /\ RecordStep
  BY <1>1, KeepMarked
<1>3. alias' \in [QueuePages -> QueuePages \cup {None}] BY <1>1 DEF QueueInv, QueueTyped
<1>4. Holding' /\ QueueTyped' BY <1>1, <1>2, <1>3, KeepLeaving DEF Inside, p
<1> QED BY <1>1, <1>2, <1>4, AliasesStay DEF QueueInv

\* A merge is read and its pages are looked at.
LEMMA KeepRead ==
    ASSUME QueueInv, NEW a \in Actors, Read(a)
    PROVE  QueueInv'
<1>1. actor[a].at = "resolve" /\ actor[a].snap = queue /\ actor[a].id \in AllIds /\ queueLock = a
      /\ queue[actor[a].id] # None /\ queue[actor[a].id].key.kind \in Merges
      /\ actor' = [actor EXCEPT ![a] = [actor[a] EXCEPT !.at = "merge",
           !.key = queue[actor[a].id].key]]
      /\ UNCHANGED <<queue, queueLock, existing, alias, applied>>
  BY DEF Read, Become, QueueInv, Holding, Inside, Open
<1> DEFINE p == [actor[a] EXCEPT !.at = "merge", !.key = queue[actor[a].id].key]
<1>2. QueueTyped /\ Holding /\ actor \in [Actors -> Tasks] /\ queue \in Snapshots
  BY DEF QueueInv, QueueTyped
<1>3. queue[actor[a].id].key \in Keys BY <1>1, <1>2 DEF Snapshots, QueueItems
<1>4. p \in Tasks /\ p.at = "merge" /\ p.snap = queue /\ p.id = actor[a].id
      /\ p.key = queue[actor[a].id].key
  BY <1>1, <1>2, <1>3 DEF Tasks
<1>5. actor' = [actor EXCEPT ![a] = p] BY <1>1
<1> HIDE DEF p
<1>6. actor'[a] = p /\ (\A b \in Actors \ {a} : actor'[b] = actor[b]) /\ actor' \in [Actors -> Tasks]
  BY <1>2, <1>4, <1>5
<1>7. Holding'
  <2>1. ASSUME NEW b \in Actors
        PROVE  /\ actor'[b].at \in Inside => queueLock' = b /\ actor'[b].snap = queue'
               /\ actor'[b].at \in {"scanned", "append"} => actor'[b].key \in Keys
               /\ actor'[b].at \in {"resolve", "merge"} => actor'[b].id \in AllIds
               /\ actor'[b].at = "merge" => /\ queue'[actor'[b].id] # None
                                            /\ actor'[b].key = queue'[actor'[b].id].key
                                            /\ actor'[b].key.kind \in Merges
    <3>1. CASE b = a BY <1>1, <1>4, <1>6, <3>1 DEF Inside
    <3>2. CASE b # a BY <1>1, <1>2, <1>6, <3>2 DEF Holding
    <3> QED BY <3>1, <3>2
  <2> QED BY <2>1 DEF Holding
<1>8. QueueTyped' BY <1>1, <1>2, <1>6 DEF QueueTyped
<1> QED BY <1>1, <1>7, <1>8, TableStays, AliasesStay DEF QueueInv

(* Aliases that are dropped make no cycle, nor does one from a page that no *)
(* alias leads to any more.                                                *)
LEMMA DroppingIsSafe ==
    ASSUME QueueInv, NEW gone \in SUBSET QueuePages,
           NEW table, table = [p \in QueuePages |-> IF alias[p] \in gone THEN None ELSE alias[p]]
    PROVE  /\ table \in [QueuePages -> QueuePages \cup {None}]
           /\ \A loop \in (SUBSET QueuePages) \ {{}} : \E p \in loop : table[p] \notin loop
<1>1. alias \in [QueuePages -> QueuePages \cup {None}] /\ AliasesEnd BY DEF QueueInv, QueueTyped
<1>2. table \in [QueuePages -> QueuePages \cup {None}] BY <1>1
<1>3. ASSUME NEW loop \in (SUBSET QueuePages) \ {{}} PROVE \E p \in loop : table[p] \notin loop
  <2>1. PICK p \in loop : alias[p] \notin loop BY <1>1 DEF AliasesEnd
  <2>2. table[p] = alias[p] \/ table[p] = None OBVIOUS
  <2> QED BY <2>1, <2>2, QueueAssumption
<1> QED BY <1>2, <1>3

\* A new alias ends at a page, and the older aliases of that page are dropped.
LEMMA MergingIsSafe ==
    ASSUME QueueInv, NEW key \in Keys, key.kind \in Merges,
           alias' = [Dropped(alias, key) EXCEPT ![key.consumed] = key.survivor]
    PROVE  AliasesEnd' /\ alias' \in [QueuePages -> QueuePages \cup {None}]
<1>1. key.survivor \in QueuePages /\ key.consumed \in QueuePages /\ key.survivor # key.consumed
  BY QueueAssumption
<1> DEFINE gone == {key.survivor, key.consumed}
           table == [p \in QueuePages |-> IF alias[p] \in gone THEN None ELSE alias[p]]
<1>2. Dropped(alias, key) = table BY DEF Dropped
<1>3. /\ table \in [QueuePages -> QueuePages \cup {None}]
      /\ \A loop \in (SUBSET QueuePages) \ {{}} : \E p \in loop : table[p] \notin loop
  <2>1. gone \in SUBSET QueuePages BY <1>1
  <2> HIDE DEF gone
  <2> QED BY <2>1, DroppingIsSafe
<1>4. \A p \in QueuePages : table[p] \notin gone
  <2>1. None \notin gone BY <1>1, QueueAssumption
  <2> QED BY <2>1
<1> HIDE DEF table
<1>5. /\ alias' \in [QueuePages -> QueuePages \cup {None}] /\ alias'[key.consumed] = key.survivor
      /\ \A p \in QueuePages \ {key.consumed} : alias'[p] = table[p]
  BY <1>1, <1>2, <1>3
<1>6. ASSUME NEW loop \in (SUBSET QueuePages) \ {{}} PROVE \E p \in loop : alias'[p] \notin loop
  <2>1. CASE key.consumed \notin loop
    <3>1. PICK p \in loop : table[p] \notin loop BY <1>3
    <3> QED BY <1>5, <2>1, <3>1
  <2>2. CASE key.survivor \notin loop /\ key.consumed \in loop BY <1>5, <2>2
  <2>3. CASE key.survivor \in loop /\ key.consumed \in loop
    <3> DEFINE rest == loop \ {key.consumed}
    <3>1. rest \in (SUBSET QueuePages) \ {{}} BY <1>1, <2>3
    <3>2. PICK p \in rest : table[p] \notin rest BY <1>3, <3>1
    <3>3. table[p] # key.consumed BY <1>4, <3>1
    <3> QED BY <1>5, <3>2, <3>3
  <2> QED BY <2>1, <2>2, <2>3
<1> QED BY <1>5, <1>6 DEF AliasesEnd

\* The alias and the mark on the item are committed together.
LEMMA KeepCommitMerge ==
    ASSUME QueueInv, NEW a \in Actors, CommitMerge(a)
    PROVE  QueueInv' /\ RecordStep
<1> DEFINE p == actor[a]
<1>1. p.at = "merge" /\ p.snap = queue /\ p.id \in AllIds /\ queueLock' = None
      /\ actor' = [actor EXCEPT ![a] = NoTask]
      /\ queue[p.id] # None /\ p.key = queue[p.id].key /\ p.key.kind \in Merges
  BY DEF CommitMerge, Become, QueueInv, Holding, Inside
<1>2. queue' = [queue EXCEPT ![p.id].status = "merged"] /\ applied' = applied \cup {p.id}
      /\ alias' = [Dropped(alias, p.key) EXCEPT ![p.key.consumed] = p.key.survivor]
  BY <1>1 DEF CommitMerge, Recorded, Marked
<1> HIDE DEF p
<1>3. /\ queue' \in Snapshots /\ applied' \in SUBSET AllIds
      /\ KindsKept' /\ OnePair' /\ MergesAreOnRecord' /\ RecordStep
  BY <1>1, <1>2, KeepMarked
<1>4. p.key \in Keys BY <1>1 DEF QueueInv, QueueTyped, Snapshots, QueueItems
<1>5. AliasesEnd' /\ alias' \in [QueuePages -> QueuePages \cup {None}]
  BY <1>1, <1>2, <1>4, MergingIsSafe
<1>6. Holding' /\ QueueTyped' BY <1>1, <1>3, <1>5, KeepLeaving DEF Inside, p
<1> QED BY <1>3, <1>5, <1>6 DEF QueueInv

\* A merge that is refused leaves the table.
LEMMA KeepRefuse ==
    ASSUME QueueInv, NEW a \in Actors, Refuse(a)
    PROVE  QueueInv'
<1>1. actor[a].at \in Inside /\ queueLock' = None /\ actor' = [actor EXCEPT ![a] = NoTask]
      /\ UNCHANGED <<queue, existing, alias, applied>>
  BY DEF Refuse, Become, Inside
<1>2. queue' \in Snapshots /\ alias' \in [QueuePages -> QueuePages \cup {None}]
        /\ applied' \in SUBSET AllIds
  BY <1>1 DEF QueueInv, QueueTyped
<1>3. Holding' /\ QueueTyped' BY <1>1, <1>2, KeepLeaving
<1> QED BY <1>1, <1>3, TableStays, AliasesStay DEF QueueInv

\* A process that dies gives up the lock.
LEMMA KeepCrash ==
    ASSUME QueueInv, NEW a \in Actors, Crash(a)
    PROVE  QueueInv'
<1>1. queueLock' = (IF queueLock = a THEN None ELSE queueLock)
        /\ actor' = [actor EXCEPT ![a] = NoTask]
      /\ UNCHANGED <<queue, existing, alias, applied>>
  BY DEF Crash, Become
<1>2. QueueTyped /\ Holding /\ actor \in [Actors -> Tasks] BY DEF QueueInv, QueueTyped
<1>3. actor'[a] = NoTask /\ (\A b \in Actors \ {a} : actor'[b] = actor[b])
        /\ actor' \in [Actors -> Tasks]
  BY <1>1, <1>2, NoTaskIs
<1>4. Holding'
  <2>1. ASSUME NEW b \in Actors
        PROVE  /\ actor'[b].at \in Inside => queueLock' = b /\ actor'[b].snap = queue'
               /\ actor'[b].at \in {"scanned", "append"} => actor'[b].key \in Keys
               /\ actor'[b].at \in {"resolve", "merge"} => actor'[b].id \in AllIds
               /\ actor'[b].at = "merge" => /\ queue'[actor'[b].id] # None
                                            /\ actor'[b].key = queue'[actor'[b].id].key
                                            /\ actor'[b].key.kind \in Merges
    <3>1. CASE b = a BY <1>3, <3>1, NoTaskIs DEF Inside
    <3>2. CASE b # a BY <1>1, <1>2, <1>3, <3>2 DEF Holding
    <3> QED BY <3>1, <3>2
  <2> QED BY <2>1 DEF Holding
<1>5. QueueTyped' BY <1>1, <1>2, <1>3 DEF QueueTyped
<1> QED BY <1>1, <1>4, <1>5, TableStays, AliasesStay DEF QueueInv

\* Pages come and go.
LEMMA KeepPages ==
    ASSUME QueueInv, NEW p \in QueuePages, WritePage(p) \/ DeletePage(p)
    PROVE  QueueInv'
<1>1. UNCHANGED <<queue, queueLock, actor, applied>>
      /\ alias' = [q \in QueuePages |-> IF alias[q] = p THEN None ELSE alias[q]]
  BY DEF WritePage, DeletePage
<1>2. alias' = [q \in QueuePages |-> IF alias[q] \in {p} THEN None ELSE alias[q]] BY <1>1
<1>3. /\ alias' \in [QueuePages -> QueuePages \cup {None}]
      /\ \A loop \in (SUBSET QueuePages) \ {{}} : \E q \in loop : alias'[q] \notin loop
  <2> DEFINE table == [q \in QueuePages |-> IF alias[q] \in {p} THEN None ELSE alias[q]]
  <2>1. {p} \in SUBSET QueuePages OBVIOUS
  <2>2. /\ table \in [QueuePages -> QueuePages \cup {None}]
        /\ \A loop \in (SUBSET QueuePages) \ {{}} : \E q \in loop : table[q] \notin loop
    BY <2>1, DroppingIsSafe
  <2>3. alias' = table BY <1>2
  <2> HIDE DEF table
  <2> QED BY <2>2, <2>3
<1>4. AliasesEnd' BY <1>3 DEF AliasesEnd
<1>5. Holding' BY <1>1 DEF QueueInv, Holding
<1>6. QueueTyped' BY <1>1, <1>3 DEF QueueInv, QueueTyped
<1> QED BY <1>1, <1>4, <1>5, <1>6, TableStays DEF QueueInv

\* Every step keeps the invariant and lets records stand.
LEMMA QueueSteps == QueueInv /\ [QueueNext]_queueVars => QueueInv' /\ RecordStep
<1> SUFFICES ASSUME QueueInv, [QueueNext]_queueVars PROVE QueueInv' /\ RecordStep OBVIOUS
<1>1. UNCHANGED queue => RecordStep BY DEF RecordStep, Decided, Items
<1>2. ASSUME NEW a \in Actors, NEW key \in Keys, Scan(a, key) \/ Enter(a, key)
      PROVE  QueueInv' /\ RecordStep
  BY <1>1, <1>2, KeepScan, KeepEnter DEF Scan, Enter
<1>3. ASSUME NEW a \in Actors, NEW id \in AllIds, EnterResolve(a, id)
      PROVE  QueueInv' /\ RecordStep
  BY <1>1, <1>3, KeepEnterResolve DEF EnterResolve
<1>4. ASSUME NEW a \in Actors, Append(a) \/ Skip(a) \/ CommitMerge(a)
      PROVE  QueueInv' /\ RecordStep
  BY <1>4, KeepAppend, KeepSkip, KeepCommitMerge
<1>5. ASSUME NEW a \in Actors, Refuse(a) \/ Read(a) \/ Crash(a) PROVE QueueInv' /\ RecordStep
  BY <1>1, <1>5, KeepRefuse, KeepRead, KeepCrash DEF Refuse, Read, Crash
<1>6. ASSUME NEW p \in QueuePages, WritePage(p) \/ DeletePage(p) PROVE QueueInv' /\ RecordStep
  BY <1>1, <1>6, KeepPages DEF WritePage, DeletePage
<1>7. CASE UNCHANGED queueVars
  <2>1. UNCHANGED <<queue, queueLock, actor, existing, alias, applied>> BY <1>7 DEF queueVars
  <2>2. QueueTyped' /\ Holding' BY <2>1 DEF QueueInv, QueueTyped, Holding
  <2> QED BY <1>1, <2>1, <2>2, TableStays, AliasesStay DEF QueueInv
<1> QED BY <1>2, <1>3, <1>4, <1>5, <1>6, <1>7 DEF QueueNext

\* The invariant of the queue always holds.
THEOREM QueueInductive == QueueSpec => []QueueInv
  BY QueueStarts, QueueSteps, PTL DEF QueueSpec

\* No pair is queued twice, an item says merged exactly when its merge was committed,
\* and following aliases ends: QueueIsSound, for all actors, pages, keys and ids.
THEOREM QueueIsAlwaysSound == QueueSpec => []QueueIsSound
<1>1. QueueInv => QueueIsSound BY DEF QueueInv, QueueIsSound
<1> QED BY <1>1, QueueInductive, PTL

\* No item is ever lost, and what was decided about a single item stays decided,
\* whoever saves which snapshot (RecordStep).
THEOREM RecordsStand == QueueSpec => [][RecordStep]_queueVars
  BY QueueInductive, QueueSteps, PTL DEF QueueSpec

-----------------------------------------------------------------------------
(* OperationalMemory.                                                      *)
(* Of the memories of a key one at most supersedes nothing, and the others *)
(* are not above it in rank: the winner that a resolution picks is kept by *)
(* every step that leaves the key alone.                                   *)

\* What the tables hold: memories, and what claims say.
MemoryObjects == [slot : Slots \cup {Fact}, rank : Nat,
  state : {"active", "weak", "expired", "superseded"},
            winner : Claims \cup {Nil}]
Said == [slot : Slots \cup {Fact}, rank : Nat, state : {"active", "weak", "expired"}]
MemoryTables == [Claims -> MemoryObjects \cup {Nil}]
ClaimTables == [Claims -> Said \cup {Nil}]

\* The memories of a slot that nothing supersedes.
CurrentIn(table, slot) == {c \in Candidates(table, slot) : table[c].state # "superseded"}

\* Of the slot: one memory at most is current, the others follow it in rank.
WonIn(table, slot) ==
    /\ \A c \in CurrentIn(table, slot), d \in CurrentIn(table, slot) : c = d
    /\ CurrentIn(table, slot) \subseteq Top(table, slot)

\* Facts are never superseded.
FactsStand(table) ==
    \A c \in Rows(table) : table[c].slot = Fact => table[c].state # "superseded"

\* The types of the variables.
MemoryTyped ==
    /\ claims \in ClaimTables /\ memory \in MemoryTables /\ rebuild \in ClaimTables \cup {Nil}

\* The inductive invariant: one winner for every slot, facts stand, memories follow.
MemoryInv ==
    /\ MemoryTyped /\ FactsStand(memory) /\ MemoriesFollowClaims
    /\ \A s \in Slots : WonIn(memory, s)

(* A finite set with a rank for every member has members of highest rank.  *)
HighestIn(S, f) == {x \in S : \A y \in S : f[x] >= f[y]}
Ranked(n, f, D) == \E S \in SUBSET D : S # {} /\ IsFiniteSet(S) /\ Cardinality(S) = n
  /\ HighestIn(S, f) = {}

\* It has a member of the highest rank: a rank that no member has would be the least
\* of the ranks without one.
LEMMA HighestExists ==
    ASSUME NEW D, NEW f \in [D -> Nat], NEW S \in SUBSET D, S # {}, IsFiniteSet(S)
    PROVE  \E x \in S : \A y \in S : f[x] >= f[y]
<1> SUFFICES ASSUME HighestIn(S, f) = {} PROVE FALSE BY DEF HighestIn
<1> DEFINE wrong == {n \in Nat : Ranked(n, f, D)}
<1>1. Cardinality(S) \in Nat BY FS_CardinalityType
<1>2. Cardinality(S) \in wrong BY <1>1 DEF Ranked
<1>3. wrong \in SUBSET Nat /\ wrong # {} BY <1>2
<1> HIDE DEF wrong
<1>4. PICK n \in wrong : \A k \in wrong : n <= k BY <1>3, LeastExists
<1>5. n \in Nat /\ Ranked(n, f, D) BY <1>4 DEF wrong
<1>6. PICK T \in SUBSET D : T # {} /\ IsFiniteSet(T) /\ Cardinality(T) = n /\ HighestIn(T, f) = {}
  BY <1>5 DEF Ranked
<1>7. PICK x \in T : TRUE BY <1>6
<1> DEFINE U == T \ {x}
<1>8. IsFiniteSet(U) /\ Cardinality(U) = n - 1 BY <1>6, <1>7, FS_RemoveElement
<1>9. U \in SUBSET D /\ x \in D /\ x \notin U /\ T = U \cup {x} BY <1>7
<1> HIDE DEF U
<1>10. Cardinality(U) \in Nat BY <1>8, FS_CardinalityType
<1>11. U # {}
  <2>1. ASSUME U = {} PROVE FALSE
    <3>1. T = {x} BY <1>9, <2>1
    <3>2. x \in HighestIn(T, f) BY <1>9, <3>1 DEF HighestIn
    <3> QED BY <1>6, <3>2
  <2> QED BY <2>1
<1>12. HighestIn(U, f) # {}
  <2>1. ASSUME HighestIn(U, f) = {} PROVE FALSE
    <3>1. Ranked(n - 1, f, D) BY <1>8, <1>9, <1>11, <2>1 DEF Ranked
    <3>2. n - 1 \in wrong BY <1>8, <1>10, <3>1 DEF wrong
    <3>3. n <= n - 1 BY <1>4, <3>2
    <3> QED BY <1>5, <3>3
  <2> QED BY <2>1
<1>13. PICK y \in U : \A z \in U : f[y] >= f[z] BY <1>12 DEF HighestIn
<1>14. f[x] \in Nat /\ f[y] \in Nat /\ \A z \in U : f[z] \in Nat BY <1>9, <1>13
<1>15. CASE f[x] >= f[y]
  <2>1. \A z \in T : f[x] >= f[z] BY <1>9, <1>13, <1>14, <1>15
  <2>2. x \in HighestIn(T, f) BY <1>7, <2>1 DEF HighestIn
  <2> QED BY <1>6, <2>2
<1>16. CASE f[y] >= f[x]
  <2>1. \A z \in T : f[y] >= f[z] BY <1>9, <1>13, <1>14, <1>16
  <2>2. y \in HighestIn(T, f) BY <1>9, <2>1 DEF HighestIn
  <2> QED BY <1>6, <2>2
<1> QED BY <1>14, <1>15, <1>16

\* A row is something.
LEMMA ObjectIsSome ==
    /\ \A m \in MemoryObjects : m # Nil
    /\ \A m \in Said : m # Nil
  BY MemoryAssumption DEF MemoryObjects, Said

\* What is extracted is one of the things claims say.
LEMMA ContentIsSaid == Content \subseteq Said
  BY DEF Content, Said

\* A memory is extracted with the slot and rank of its claim, and supersedes nothing.
LEMMA ExtractIs ==
    ASSUME NEW m \in Said \cup {Nil}
    PROVE  /\ Extract(m) \in MemoryObjects \cup {Nil}
           /\ Extract(m) = Nil <=> m = Nil
           /\ m # Nil => /\ Extract(m).slot = m.slot /\ Extract(m).rank = m.rank
                         /\ Extract(m).state # "superseded"
<1>1. CASE m = Nil BY <1>1 DEF Extract
<1>2. CASE m \in Said
  <2>1. m # Nil BY <1>2, ObjectIsSome
  <2>2. Extract(m) = [slot |-> m.slot, rank |-> m.rank, state |-> m.state, winner |-> Nil]
    BY <2>1 DEF Extract
  <2>3. Extract(m) \in MemoryObjects BY <1>2, <2>2 DEF MemoryObjects, Said
  <2>4. Extract(m).state # "superseded" BY <1>2, <2>2 DEF Said
  <2> QED BY <2>1, <2>2, <2>3, <2>4, ObjectIsSome
<1> QED BY <1>1, <1>2

\* Where there are candidates one of them is highest.
LEMMA TopExists ==
    ASSUME NEW table \in MemoryTables, NEW s, Candidates(table, s) # {}
    PROVE  Top(table, s) # {}
<1> DEFINE C == Candidates(table, s)
           rank == [c \in C |-> table[c].rank]
<1>1. C \subseteq Claims BY DEF Candidates, Rows
<1>2. IsFiniteSet(C) BY <1>1, MemoryAssumption, FS_Subset
<1>3. rank \in [C -> Nat]
  <2>1. \A c \in C : table[c] \in MemoryObjects BY <1>1 DEF MemoryTables, Candidates, Rows
  <2> QED BY <2>1 DEF MemoryObjects
<1>4. C # {} OBVIOUS
<1>5. \A c \in C : rank[c] = table[c].rank OBVIOUS
<1> HIDE DEF rank, C
<1>6. PICK c \in C : \A d \in C : rank[c] >= rank[d] BY <1>2, <1>3, <1>4, HighestExists
<1>7. \A d \in C : table[c].rank >= table[d].rank BY <1>5, <1>6
<1>8. c \in Top(table, s) BY <1>6, <1>7 DEF Top, C
<1> QED BY <1>8

(* What settling makes of one memory.                                      *)
LEMMA SettledIs ==
    ASSUME NEW table \in MemoryTables, NEW slots \in SUBSET Slots,
           NEW w \in Winners(table, slots), NEW c \in Claims
    PROVE  /\ Settled(table, w, c) \in MemoryObjects \cup {Nil}
           /\ Settled(table, w, c) = Nil <=> table[c] = Nil
           /\ table[c] # Nil => /\ Settled(table, w, c).slot = table[c].slot
                                /\ Settled(table, w, c).rank = table[c].rank
                                /\ Settled(table, w, c).state = "expired" <=> table[c].state = "expired"
                                /\ table[c].slot \notin slots => Settled(table, w, c) = table[c]
           /\ \A s \in slots : c \in Candidates(table, s) =>
                /\ Candidates(table, s) # {c}
                     => Settled(table, w, c).winner = (IF c = w[s] THEN Nil ELSE w[s])
                /\ Settled(table, w, c).state = "superseded" <=> Candidates(table, s) # {c}
                     /\ c # w[s]
<1> DEFINE m == table[c]
           n == Settled(table, w, c)
<1>1. w \in [slots -> Claims \cup {Nil}] /\ DOMAIN w = slots BY DEF Winners
<1>2. m \in MemoryObjects \cup {Nil} BY DEF MemoryTables
<1>3. \A s : c \in Candidates(table, s) <=> m # Nil /\ m.slot = s /\ m.state # "expired"
  BY DEF Candidates, Rows
<1>4. CASE m = Nil
  <2>1. n = Nil BY <1>4 DEF Settled
  <2> QED BY <1>3, <1>4, <2>1
<1>5. CASE m # Nil /\ (m.slot \notin slots \/ m.state = "expired")
  <2>1. c \notin Candidates(table, m.slot) \/ m.slot \notin DOMAIN w
    BY <1>1, <1>5 DEF Candidates
  <2>2. n = m BY <1>5, <2>1 DEF Settled
  <2>3. \A s \in slots : c \notin Candidates(table, s) BY <1>3, <1>5
  <2> QED BY <1>2, <1>5, <2>2, <2>3
<1>6. CASE m # Nil /\ m.slot \in slots /\ m.state # "expired"
  <2>1. m \in MemoryObjects /\ c \in Candidates(table, m.slot) BY <1>2, <1>3, <1>6
  <2>2. n = IF Candidates(table, m.slot) = {c} THEN [m EXCEPT !.state = "active", !.winner = Nil]
            ELSE IF c = w[m.slot] THEN Competes(m)
            ELSE [m EXCEPT !.state = "superseded", !.winner = w[m.slot]]
    BY <1>1, <1>6, <2>1 DEF Settled
  <2>3. \A s \in slots : c \in Candidates(table, s) => s = m.slot BY <1>3
  <2> SUFFICES
         /\ n \in MemoryObjects /\ n.slot = m.slot /\ n.rank = m.rank /\ n.state # "expired"
         /\ Candidates(table, m.slot) # {c} => n.winner = (IF c = w[m.slot] THEN Nil ELSE w[m.slot])
         /\ n.state = "superseded" <=> Candidates(table, m.slot) # {c} /\ c # w[m.slot]
    <3> HIDE DEF n, m
    <3> QED BY <1>6, <2>3, ObjectIsSome DEF n, m
  <2>4. CASE Candidates(table, m.slot) = {c}
    <3>1. n = [m EXCEPT !.state = "active", !.winner = Nil] BY <2>2, <2>4
    <3> QED BY <2>1, <2>4, <3>1 DEF MemoryObjects
  <2>5. CASE Candidates(table, m.slot) # {c} /\ c = w[m.slot]
    <3>1. n = [m EXCEPT !.state = IF m.state = "superseded" THEN "active" ELSE m.state,
            !.winner = Nil]
      BY <2>2, <2>5 DEF Competes
    <3>2. (IF m.state = "superseded" THEN "active" ELSE m.state) \in {"active", "weak"}
      BY <1>6, <2>1 DEF MemoryObjects
    <3> HIDE DEF n, m
    <3>3. n.state = (IF m.state = "superseded" THEN "active" ELSE m.state) /\ n.winner = Nil
          /\ n.slot = m.slot /\ n.rank = m.rank
      BY <2>1, <3>1 DEF MemoryObjects
    <3>4. n \in MemoryObjects BY <2>1, <3>1, <3>2 DEF MemoryObjects
    <3> QED BY <2>5, <3>2, <3>3, <3>4
  <2>6. CASE Candidates(table, m.slot) # {c} /\ c # w[m.slot]
    <3>1. n = [m EXCEPT !.state = "superseded", !.winner = w[m.slot]] BY <2>2, <2>6
    <3>2. w[m.slot] \in Claims \cup {Nil} BY <1>1, <1>6
    <3> QED BY <2>1, <2>6, <3>1, <3>2 DEF MemoryObjects
  <2> QED BY <2>4, <2>5, <2>6
<1> QED BY <1>4, <1>5, <1>6

(* What resolving makes of a table: rows, slots and ranks stay, and each of *)
(* the slots has one current memory, which the others name.                *)
LEMMA ResolvedIs ==
    ASSUME NEW table \in MemoryTables, NEW slots \in SUBSET Slots, NEW new \in Resolved(table, slots)
    PROVE  /\ new \in MemoryTables
           /\ \A c \in Claims : /\ new[c] = Nil <=> table[c] = Nil
                                /\ table[c] # Nil => /\ new[c].slot = table[c].slot
                                                     /\ new[c].rank = table[c].rank
                                                     /\ table[c].slot \notin slots
                                                          => new[c] = table[c]
           /\ \A s \in slots : WonIn(new, s)
           /\ \A s \in slots, c \in Claims :
                new[c] # Nil /\ new[c].slot = s /\ new[c].state = "superseded"
                  => new[c].winner \in CurrentIn(new, s)
<1>1. PICK w \in Winners(table, slots) : new = [c \in Claims |-> Settled(table, w, c)]
  BY DEF Resolved
<1>2. \A c \in Claims : new[c] = Settled(table, w, c) BY <1>1
<1>3. \A c \in Claims : Settled(table, w, c) \in MemoryObjects \cup {Nil} BY SettledIs
<1>4. new \in MemoryTables BY <1>1, <1>3 DEF MemoryTables
<1>5. ASSUME NEW c \in Claims
      PROVE  /\ new[c] = Nil <=> table[c] = Nil
             /\ table[c] # Nil => /\ new[c].slot = table[c].slot
                                  /\ new[c].rank = table[c].rank
                                  /\ new[c].state = "expired" <=> table[c].state = "expired"
                                  /\ table[c].slot \notin slots => new[c] = table[c]
  BY <1>2, SettledIs
<1>6. ASSUME NEW s \in slots
      PROVE  /\ Candidates(new, s) = Candidates(table, s) /\ Candidates(table, s) \subseteq Claims
             /\ Top(new, s) = Top(table, s)
  <2>1. \A c \in Claims : c \in Candidates(new, s) <=> c \in Candidates(table, s)
    BY <1>5 DEF Candidates, Rows
  <2>2. Candidates(new, s) = Candidates(table, s) /\ Candidates(table, s) \subseteq Claims
    BY <2>1 DEF Candidates, Rows
  <2>3. \A c \in Candidates(table, s) : new[c].rank = table[c].rank
    BY <1>5, <2>2 DEF Candidates, Rows
  <2> QED BY <2>2, <2>3 DEF Top
<1>7. ASSUME NEW s \in slots, NEW c \in Candidates(table, s)
      PROVE  /\ Candidates(table, s) # {c} => new[c].winner = (IF c = w[s] THEN Nil ELSE w[s])
             /\ new[c].state = "superseded" <=> Candidates(table, s) # {c} /\ c # w[s]
  <2>1. c \in Claims BY <1>6
  <2> QED BY <1>2, <2>1, SettledIs
<1>8. ASSUME NEW s \in slots, Candidates(table, s) # {} PROVE w[s] \in Top(table, s)
  <2>1. Top(table, s) # {} BY <1>8, TopExists
  <2> QED BY <2>1 DEF Winners
<1>9. ASSUME NEW s \in slots, NEW c \in CurrentIn(new, s)
      PROVE  c \in Top(table, s) /\ (Candidates(table, s) = {c} \/ c = w[s])
  <2>1. c \in Candidates(table, s) /\ new[c].state # "superseded" BY <1>6, <1>9 DEF CurrentIn
  <2>2. Candidates(table, s) = {c} \/ c = w[s] BY <1>7, <2>1
  <2>3. w[s] \in Top(table, s) /\ Top(table, s) \subseteq Candidates(table, s)
    BY <1>8, <2>1 DEF Top
  <2> QED BY <2>2, <2>3
<1>10. \A s \in slots : WonIn(new, s)
  <2>1. ASSUME NEW s \in slots, NEW c \in CurrentIn(new, s), NEW d \in CurrentIn(new, s)
        PROVE  c = d
    <3>1. c \in Candidates(table, s) /\ d \in Candidates(table, s) BY <1>6, <2>1 DEF CurrentIn
    <3> QED BY <1>9, <2>1, <3>1
  <2>2. \A s \in slots : CurrentIn(new, s) \subseteq Top(new, s) BY <1>6, <1>9
  <2> QED BY <2>1, <2>2 DEF WonIn
<1>11. ASSUME NEW s \in slots, NEW c \in Claims, new[c] # Nil, new[c].slot = s,
                new[c].state = "superseded"
       PROVE  new[c].winner \in CurrentIn(new, s)
  <2>1. c \in Candidates(table, s) BY <1>6, <1>11 DEF Candidates, Rows
  <2>2. Candidates(table, s) # {c} /\ c # w[s] /\ new[c].winner = w[s] BY <1>7, <1>11, <2>1
  <2>3. w[s] \in Candidates(table, s) BY <1>8, <2>1 DEF Top
  <2>4. new[w[s]].state # "superseded" BY <1>7, <2>3
  <2> QED BY <1>6, <2>2, <2>3, <2>4 DEF CurrentIn
<1> QED BY <1>4, <1>5, <1>10, <1>11

\* At first there is no memory and nothing has been seen.
LEMMA MemoryStarts == MemoryInit => MemoryInv
<1> SUFFICES ASSUME MemoryInit PROVE MemoryInv OBVIOUS
<1>1. claims \in [Claims -> Content \cup {Nil}] /\ memory = NoMemories /\ rebuild = Nil
        /\ behind = Claims
  BY DEF MemoryInit
<1>2. MemoryTyped BY <1>1, ContentIsSaid DEF MemoryTyped, ClaimTables, MemoryTables, NoMemories
<1>3. Rows(memory) = {} BY <1>1 DEF Rows, NoMemories
<1>4. FactsStand(memory) BY <1>3 DEF FactsStand
<1>5. \A s \in Slots : CurrentIn(memory, s) = {} BY <1>3 DEF CurrentIn, Candidates
<1>6. \A s \in Slots : WonIn(memory, s) BY <1>5 DEF WonIn
<1>7. MemoriesFollowClaims BY <1>1 DEF MemoriesFollowClaims
<1> QED BY <1>2, <1>4, <1>6, <1>7 DEF MemoryInv

(* Rows of a slot that stay as they are leave the slot as it is.           *)
SameRows(old, new, s) ==
    \A c \in Claims : (old[c] # Nil /\ old[c].slot = s) \/ (new[c] # Nil /\ new[c].slot = s)
      => new[c] = old[c]

\* The winner of such a slot stays.
LEMMA SlotStays ==
    ASSUME NEW old, NEW new, NEW s, SameRows(old, new, s)
    PROVE  /\ CurrentIn(new, s) = CurrentIn(old, s)
           /\ WonIn(old, s) => WonIn(new, s)
<1>1. ASSUME NEW c \in Claims
      PROVE  /\ c \in Candidates(new, s) <=> c \in Candidates(old, s)
             /\ c \in Candidates(old, s) => new[c] = old[c]
  BY DEF Candidates, Rows, SameRows
<1>2. Candidates(new, s) = Candidates(old, s) /\ \A c \in Candidates(old, s) : new[c] = old[c]
  <2>1. Candidates(new, s) \subseteq Claims /\ Candidates(old, s) \subseteq Claims
    BY DEF Candidates, Rows
  <2> QED BY <1>1, <2>1
<1>3. CurrentIn(new, s) = CurrentIn(old, s) BY <1>2 DEF CurrentIn
<1>4. Top(new, s) = Top(old, s) BY <1>2 DEF Top
<1> QED BY <1>3, <1>4 DEF WonIn

\* A page is rewritten: its slots and those it leaves are resolved.
LEMMA KeepMemoryRewrite ==
    ASSUME MemoryInv, NEW p \in ClaimPages, Rewrite(p)
    PROVE  MemoryInv' /\ LoserStep
<1> DEFINE own == {c \in Claims : Owner[c] = p}
<1>1. PICK proposed \in [own -> Content \cup {Nil}] :
        /\ claims' = [c \in Claims |-> IF c \in own THEN proposed[c] ELSE claims[c]]
        /\ LET changed == {c \in own : claims[c] # Nil \/ proposed[c] # Nil}
               new == [c \in Claims |-> IF c \in changed THEN Extract(proposed[c]) ELSE memory[c]]
           IN  /\ memory' \in Resolved(new, Impacted(memory, new, changed))
               /\ behind' = behind \ changed
        /\ UNCHANGED rebuild
  BY DEF Rewrite
<1> DEFINE changed == {c \in own : claims[c] # Nil \/ proposed[c] # Nil}
           new == [c \in Claims |-> IF c \in changed THEN Extract(proposed[c]) ELSE memory[c]]
           slots == Impacted(memory, new, changed)
<1>2. memory' \in Resolved(new, slots) /\ behind' = behind \ changed /\ UNCHANGED rebuild
  BY <1>1
<1>3. MemoryTyped /\ claims \in ClaimTables /\ memory \in MemoryTables /\ FactsStand(memory)
      /\ MemoriesFollowClaims /\ \A s \in Slots : WonIn(memory, s)
  BY DEF MemoryInv, MemoryTyped
<1>4. \A c \in own : c \in Claims /\ proposed[c] \in Said \cup {Nil} BY <1>1, ContentIsSaid
<1>5. changed \subseteq own OBVIOUS
<1>6. \A c \in Claims : new[c] = IF c \in changed THEN Extract(proposed[c]) ELSE memory[c] OBVIOUS
<1>7. new \in MemoryTables
  <2>1. \A c \in changed : Extract(proposed[c]) \in MemoryObjects \cup {Nil}
    BY <1>4, <1>5, ExtractIs
  <2> HIDE DEF changed
  <2> QED BY <1>3, <2>1 DEF MemoryTables
<1>8. slots \in SUBSET Slots BY DEF Impacted
<1>9. ASSUME NEW c \in changed
      PROVE  /\ memory[c] # Nil /\ memory[c].slot \in Slots => memory[c].slot \in slots
             /\ new[c] # Nil /\ new[c].slot \in Slots => new[c].slot \in slots
  <2>1. c \in Claims BY <1>4, <1>5
  <2> HIDE DEF new, changed
  <2> QED BY <1>9, <2>1 DEF Impacted, Rows
<1>10. \A c \in Claims \ changed : claims'[c] = claims[c]
  <2>1. \A c \in own \ changed : claims[c] = Nil /\ proposed[c] = Nil OBVIOUS
  <2> HIDE DEF changed, own
  <2> QED BY <1>1, <2>1
<1>11. \A c \in changed : claims'[c] = proposed[c] BY <1>1
<1>12. claims' \in ClaimTables BY <1>1, <1>3, <1>4 DEF ClaimTables
<1> HIDE DEF new, changed, slots, own
<1>13. /\ memory' \in MemoryTables
       /\ \A c \in Claims : /\ memory'[c] = Nil <=> new[c] = Nil
                            /\ new[c] # Nil => /\ memory'[c].slot = new[c].slot
                                               /\ memory'[c].rank = new[c].rank
                                               /\ new[c].slot \notin slots => memory'[c] = new[c]
       /\ \A s \in slots : WonIn(memory', s)
       /\ \A s \in slots, c \in Claims :
            memory'[c] # Nil /\ memory'[c].slot = s /\ memory'[c].state = "superseded"
              => memory'[c].winner \in CurrentIn(memory', s)
  BY <1>2, <1>7, <1>8, ResolvedIs
<1>14. MemoryTyped' BY <1>2, <1>3, <1>12, <1>13 DEF MemoryTyped
<1>15. FactsStand(memory')
  <2>1. ASSUME NEW c \in Claims, memory'[c] # Nil, memory'[c].slot = Fact
        PROVE  memory'[c].state # "superseded"
    <3>1. new[c] # Nil /\ new[c].slot = Fact BY <1>13, <2>1
    <3>2. memory'[c] = new[c] BY <1>8, <1>13, <3>1, MemoryAssumption
    <3>3. CASE c \in changed
      <4>1. new[c] = Extract(proposed[c]) /\ proposed[c] \in Said \cup {Nil}
        BY <1>4, <1>5, <1>6, <3>3
      <4> QED BY <3>1, <3>2, <4>1, ExtractIs
    <3>4. CASE c \notin changed BY <1>3, <1>6, <3>1, <3>2, <3>4 DEF FactsStand, Rows
    <3> QED BY <3>3, <3>4
  <2> QED BY <2>1 DEF FactsStand, Rows
<1>16. MemoriesFollowClaims'
  <2>1. ASSUME NEW c \in Claims \ behind'
        PROVE  /\ memory'[c] = Nil <=> claims'[c] = Nil
               /\ memory'[c] # Nil => memory'[c].slot = claims'[c].slot
                    /\ memory'[c].rank = claims'[c].rank
    <3>1. CASE c \in changed
      <4>1. new[c] = Extract(proposed[c]) /\ proposed[c] \in Said \cup {Nil}
              /\ claims'[c] = proposed[c]
        BY <1>4, <1>5, <1>6, <1>11, <3>1
      <4> QED BY <1>13, <4>1, ExtractIs
    <3>2. CASE c \notin changed
      <4>1. c \notin behind /\ new[c] = memory[c] /\ claims'[c] = claims[c]
        BY <1>2, <1>6, <1>10, <2>1, <3>2
      <4> QED BY <1>3, <1>13, <4>1 DEF MemoriesFollowClaims
    <3> QED BY <3>1, <3>2
  <2> QED BY <2>1 DEF MemoriesFollowClaims
<1>17. \A s \in Slots \ slots : SameRows(memory, memory', s)
  <2>1. ASSUME NEW s \in Slots \ slots, NEW c \in Claims,
               (memory[c] # Nil /\ memory[c].slot = s) \/ (memory'[c] # Nil /\ memory'[c].slot = s)
        PROVE  memory'[c] = memory[c]
    <3>1. c \notin changed BY <1>9, <1>13, <2>1
    <3>2. new[c] = memory[c] BY <1>6, <3>1
    <3> QED BY <1>13, <2>1, <3>2
  <2> QED BY <2>1 DEF SameRows
<1>18. \A s \in Slots : WonIn(memory', s) BY <1>3, <1>13, <1>17, SlotStays
<1>19. LoserStep
  <2>1. ASSUME NEW c \in Claims, memory'[c] # Nil, memory'[c].state = "superseded",
               memory'[c].winner \notin CurrentIn(memory', memory'[c].slot)
        PROVE  /\ memory[c] # Nil /\ memory[c].state = "superseded"
               /\ memory[c].winner \notin CurrentIn(memory, memory[c].slot)
    <3>1. memory'[c] \in MemoryObjects BY <1>13, <2>1 DEF MemoryTables
    <3>2. memory'[c].slot # Fact BY <1>15, <2>1 DEF FactsStand, Rows
    <3>3. memory'[c].slot \in Slots BY <3>1, <3>2 DEF MemoryObjects
    <3>4. memory'[c].slot \notin slots BY <1>13, <2>1
    <3>5. memory'[c] = memory[c] BY <1>17, <2>1, <3>3, <3>4 DEF SameRows
    <3>6. CurrentIn(memory', memory'[c].slot) = CurrentIn(memory, memory'[c].slot)
      BY <1>17, <3>3, <3>4, SlotStays
    <3> QED BY <2>1, <3>5, <3>6
  <2>2. Unnamed' \subseteq Unnamed BY <2>1 DEF Unnamed, Rows, Current, CurrentIn
  <2> QED BY <2>2 DEF LoserStep
<1> QED BY <1>14, <1>15, <1>16, <1>18, <1>19 DEF MemoryInv

\* A page is deleted: what is left of a slot has at most one that is current.
LEMMA KeepDelete ==
    ASSUME MemoryInv, NEW p \in ClaimPages, Delete(p)
    PROVE  MemoryInv' /\ LoserStep
<1> DEFINE own == {c \in Rows(claims) : Owner[c] = p}
<1>1. /\ claims' = [c \in Claims |-> IF c \in own THEN Nil ELSE claims[c]]
      /\ memory' = [c \in Claims |-> IF c \in own THEN Nil ELSE memory[c]]
      /\ behind' = behind \ own /\ UNCHANGED rebuild
  BY DEF Delete
<1> HIDE DEF own
<1>2. MemoryTyped /\ claims \in ClaimTables /\ memory \in MemoryTables /\ FactsStand(memory)
      /\ MemoriesFollowClaims /\ \A s \in Slots : WonIn(memory, s)
  BY DEF MemoryInv, MemoryTyped
<1>3. MemoryTyped' BY <1>1, <1>2 DEF MemoryTyped, ClaimTables, MemoryTables
<1>4. \A c \in Claims : memory'[c] # Nil => c \notin own /\ memory'[c] = memory[c] BY <1>1
<1>5. FactsStand(memory') BY <1>2, <1>4 DEF FactsStand, Rows
<1>6. MemoriesFollowClaims' BY <1>1, <1>2 DEF MemoriesFollowClaims
<1>7. ASSUME NEW s \in Slots PROVE WonIn(memory', s)
  <2>1. ASSUME NEW c \in Candidates(memory', s)
        PROVE  c \in Candidates(memory, s) /\ memory'[c] = memory[c]
    BY <1>4, <2>1 DEF Candidates, Rows
  <2>2. WonIn(memory, s) BY <1>2
  <2>3. \A c \in CurrentIn(memory', s) : c \in CurrentIn(memory, s) BY <2>1 DEF CurrentIn
  <2>4. \A c \in CurrentIn(memory', s) : c \in Candidates(memory', s) /\ c \in Top(memory, s)
    BY <2>2, <2>3 DEF WonIn, CurrentIn
  <2>5. \A c \in CurrentIn(memory', s) : c \in Top(memory', s) BY <2>1, <2>4 DEF Top
  <2> QED BY <2>2, <2>3, <2>5 DEF WonIn
<1> QED BY <1>3, <1>5, <1>6, <1>7 DEF MemoryInv, LoserStep

\* A rebuild resolves every slot, for the claims it has read.
LEMMA KeepRebuild ==
    ASSUME MemoryInv, RebuildSave
    PROVE  MemoryInv' /\ LoserStep
<1>1. rebuild # Nil /\ memory' \in Resolved(Extracted(rebuild), Slots) /\ behind' = Unseen(rebuild)
      /\ rebuild' = Nil /\ UNCHANGED claims
  BY DEF RebuildSave
<1>2. rebuild \in ClaimTables /\ claims \in ClaimTables BY <1>1 DEF MemoryInv, MemoryTyped
<1>3. \A c \in Claims : Extracted(rebuild)[c] = Extract(rebuild[c]) /\ rebuild[c] \in Said \cup {Nil}
  BY <1>2 DEF Extracted, ClaimTables
<1>4. Extracted(rebuild) \in MemoryTables
  <2>1. \A c \in Claims : Extract(rebuild[c]) \in MemoryObjects \cup {Nil} BY <1>3, ExtractIs
  <2> QED BY <2>1 DEF Extracted, MemoryTables
<1> DEFINE new == Extracted(rebuild)
<1> HIDE DEF new
<1>5. /\ memory' \in MemoryTables
      /\ \A c \in Claims : /\ memory'[c] = Nil <=> new[c] = Nil
                           /\ new[c] # Nil => /\ memory'[c].slot = new[c].slot
                                              /\ memory'[c].rank = new[c].rank
                                              /\ new[c].slot \notin Slots => memory'[c] = new[c]
      /\ \A s \in Slots : WonIn(memory', s)
      /\ \A s \in Slots, c \in Claims :
           memory'[c] # Nil /\ memory'[c].slot = s /\ memory'[c].state = "superseded"
             => memory'[c].winner \in CurrentIn(memory', s)
  BY <1>1, <1>4, ResolvedIs DEF new
<1>6. MemoryTyped' BY <1>1, <1>2, <1>5 DEF MemoryTyped
<1>7. FactsStand(memory')
  <2>1. ASSUME NEW c \in Claims, memory'[c] # Nil, memory'[c].slot = Fact
        PROVE  memory'[c].state # "superseded"
    <3>1. new[c] # Nil /\ memory'[c] = new[c] BY <1>5, <2>1, MemoryAssumption
    <3>2. new[c] = Extract(rebuild[c]) /\ rebuild[c] \in Said \cup {Nil} BY <1>3 DEF new
    <3> QED BY <3>1, <3>2, ExtractIs
  <2> QED BY <2>1 DEF FactsStand, Rows
<1>8. MemoriesFollowClaims'
  <2>1. ASSUME NEW c \in Claims \ behind'
        PROVE  /\ memory'[c] = Nil <=> claims[c] = Nil
               /\ memory'[c] # Nil => memory'[c].slot = claims[c].slot
                    /\ memory'[c].rank = claims[c].rank
    <3>1. rebuild[c] = claims[c] BY <1>1, <2>1 DEF Unseen
    <3>2. new[c] = Extract(rebuild[c]) /\ rebuild[c] \in Said \cup {Nil} BY <1>3 DEF new
    <3> QED BY <1>5, <3>1, <3>2, ExtractIs
  <2> QED BY <1>1, <2>1 DEF MemoriesFollowClaims
<1>9. Unnamed' = {}
  <2>1. ASSUME NEW c \in Claims, memory'[c] # Nil, memory'[c].state = "superseded"
        PROVE  memory'[c].winner \in CurrentIn(memory', memory'[c].slot)
    <3>1. memory'[c] \in MemoryObjects BY <1>5, <2>1 DEF MemoryTables
    <3>2. memory'[c].slot # Fact BY <1>7, <2>1 DEF FactsStand, Rows
    <3>3. memory'[c].slot \in Slots BY <3>1, <3>2 DEF MemoryObjects
    <3> QED BY <1>5, <2>1, <3>3
  <2> QED BY <2>1 DEF Unnamed, Rows, Current, CurrentIn
<1> QED BY <1>5, <1>6, <1>7, <1>8, <1>9 DEF MemoryInv, LoserStep

\* Reading for a rebuild, and giving up, change no memory.
LEMMA KeepReading ==
    ASSUME MemoryInv, RebuildRead \/ RebuildStops \/ UNCHANGED memoryVars
    PROVE  MemoryInv' /\ LoserStep
<1>1. UNCHANGED <<claims, memory, behind>> /\ rebuild' \in {claims, Nil, rebuild}
  BY DEF RebuildRead, RebuildStops, memoryVars
<1>2. MemoryTyped' BY <1>1 DEF MemoryInv, MemoryTyped
<1>3. FactsStand(memory') /\ MemoriesFollowClaims' /\ \A s \in Slots : WonIn(memory', s)
  <2>1. FactsStand(memory) /\ MemoriesFollowClaims /\ \A s \in Slots : WonIn(memory, s)
    BY DEF MemoryInv
  <2>2. memory' = memory BY <1>1
  <2>3. MemoriesFollowClaims' BY <1>1, <2>1 DEF MemoriesFollowClaims
  <2> QED BY <2>1, <2>2, <2>3
<1>4. LoserStep BY <1>1 DEF LoserStep, Unnamed, Rows, Current, Candidates
<1> QED BY <1>2, <1>3, <1>4 DEF MemoryInv

\* Every step keeps the invariant, and only deletion leaves a loser unnamed.
LEMMA MemorySteps == MemoryInv /\ [MemoryNext]_memoryVars => MemoryInv' /\ LoserStep
  BY KeepMemoryRewrite, KeepDelete, KeepRebuild, KeepReading DEF MemoryNext

\* The invariant of the memories always holds.
THEOREM MemoryInductive == MemorySpec => []MemoryInv
  BY MemoryStarts, MemorySteps, PTL DEF MemorySpec

\* Every key has at most one current memory and it is of the highest rank, and memories
\* are those of the claims: MemoryIsSound, for all claims, keys and ranks.
THEOREM MemoryIsAlwaysSound == MemorySpec => []MemoryIsSound
<1>1. MemoryInv => MemoryIsSound
  <2> SUFFICES ASSUME MemoryInv PROVE MemoryIsSound OBVIOUS
  <2>1. ASSUME NEW s \in Slots
        PROVE  Cardinality(Current(s)) <= 1 /\ Current(s) \subseteq Top(memory, s)
    <3>1. Current(s) = CurrentIn(memory, s) BY DEF Current, CurrentIn
    <3>2. WonIn(memory, s) BY DEF MemoryInv
    <3> QED BY <3>1, <3>2, AtMostOne DEF WonIn
  <2>2. OneWinner BY <2>1 DEF OneWinner
  <2> QED BY <2>2 DEF MemoryInv, MemoryIsSound
<1> QED BY <1>1, MemoryInductive, PTL

\* Only the deletion of a page may leave a superseded memory that does not name the
\* current one of its key (LosersHaveWinners).
THEOREM LosersAreNamed == MemorySpec => LosersHaveWinners
  BY MemoryInductive, MemorySteps, PTL DEF MemorySpec, LosersHaveWinners

-----------------------------------------------------------------------------
(* Finalization.                                                           *)
(* A finalizer may have checked its answer long before it commits.  While  *)
(* its claim holds, the answer is composed from the packet of its row; when *)
(* the claim has lapsed the commit refuses.                                *)

\* What the variables hold: hashes, pages, offers, jobs, packets.
Hashes == Versions \cup {0}
Writings == [text : {0, 1}, extra : {0, 1}, stamp : Hashes, rels : SUBSET Pages]
PageOrNot == Writings \cup {NoPage}
Offerings == [Targets -> PageOrNot]
Jobs == [status : {"none", "found", "queued", "ready", "claimed", "final"}, hash : Hashes,
         current : BOOLEAN, lease : Finalizers \cup {NoPage}, base : PageOrNot,
         offers : Offerings, projection : Hashes, torn : BOOLEAN]
Packets == [at : {"none", "looked", "read"}, base : PageOrNot, offers : Offerings,
  projection : Hashes]

\* What a finalizer has in hand is a record of these fields.
IsAnswer(a) ==
    a \in [at : {a.at}, of : {a.of}, write : {a.write}, expect : {a.expect}, proof : {a.proof}]

\* The types of the variables.
FinalTyped ==
    /\ raw \in [Sources -> Versions] /\ ledger \in [Sources -> Hashes]
    /\ canon \in [Pages -> PageOrNot] /\ markdown \in [Pages -> PageOrNot]
    /\ job \in [Sources -> Jobs] /\ worker \in [Sources -> Packets]
    /\ fin = [f \in Finalizers |-> fin[f]]
    /\ \A f \in Finalizers :
         /\ IsAnswer(fin[f])
         /\ fin[f].at # "idle" => fin[f].of \in Sources

\* Only a queued row of this release is being dispatched.
Dispatched ==
    \A s \in Sources : worker[s].at # "none" => job[s].status = "queued" /\ job[s].current

\* A queued packet is of the hash its text was read at, or torn.
TextIsKnown ==
    \A s \in Sources : job[s].status \in {"queued", "ready", "claimed"} /\ job[s].current
        => job[s].projection = job[s].hash \/ job[s].torn

\* What an answer writes, and which versions it expects, comes from the packet.
ComposedFrom(s, write, expect, j) ==
    \E targets \in SUBSET Targets, others \in SUBSET Targets :
        /\ targets \cap others = {} /\ \A t \in targets : j.offers[t] # NoPage
        /\ write = [p \in {s} \cup targets \cup others |->
                         CASE p = s -> [Page(0, j.hash) EXCEPT !.rels = targets]
                           [] p \in targets -> [j.offers[p] EXCEPT !.rels = @ \cup {s}]
                           [] OTHER -> Page(1, 0)]
        /\ expect = [p \in {s} \cup targets \cup others |->
                         CASE p = s -> j.base
                           [] p \in targets -> Version(p, j.offers[p])
                           [] OTHER -> NoPage]

\* An answer that is checked, while its claim holds, was composed from its packet.
Composed ==
    \A f \in Finalizers :
        /\ fin[f].at = "checked" /\ Holds(f)
             => ComposedFrom(fin[f].of, fin[f].write, fin[f].expect, job[fin[f].of])
        /\ fin[f].at = "same" => fin[f].proof # NoPage

\* The inductive invariant.
FinalInv == FinalTyped /\ Dispatched /\ TextIsKnown /\ Composed

\* No page is none.
LEMMA NoPageIsNone == \A c \in Writings : c # NoPage
  BY FinalAssumption DEF Writings, Hashes

\* The pages that are written have their type.
LEMMA PageIs ==
    /\ \A body \in {0, 1}, stamp \in Hashes : Page(body, stamp) \in Writings
    /\ \A body \in {0, 1}, stamp \in Hashes, targets \in SUBSET Targets :
         [Page(body, stamp) EXCEPT !.rels = targets] \in Writings
    /\ 0 \in Hashes /\ 1 \in Hashes
<1>1. 0 \in Hashes /\ 1 \in Hashes BY FinalAssumption DEF Hashes
<1>2. \A body \in {0, 1}, stamp \in Hashes : Page(body, stamp) \in Writings
  BY DEF Page, Writings
<1>3. ASSUME NEW body \in {0, 1}, NEW stamp \in Hashes, NEW targets \in SUBSET Targets
      PROVE  [Page(body, stamp) EXCEPT !.rels = targets] \in Writings
  <2>1. targets \in SUBSET Pages BY DEF Pages
  <2> QED BY <2>1 DEF Page, Writings
<1> QED BY <1>1, <1>2, <1>3

(* Two pages of one version have the same text and the same relations.     *)
LEMMA VersionTells ==
    ASSUME NEW p, NEW c \in Writings
    PROVE  /\ Version(p, c) \in Writings
           /\ Version(p, c).text = c.text /\ Version(p, c).rels = c.rels
<1>1. c # NoPage BY NoPageIsNone
<1>2. CASE c.stamp # 0 BY <1>2 DEF Version
<1>3. CASE c.stamp = 0
  <2>1. Version(p, c) = [c EXCEPT !.extra = 0] BY <1>1, <1>3 DEF Version
  <2> QED BY <2>1 DEF Writings
<1> QED BY <1>2, <1>3

\* The version of a page is a page.
LEMMA VersionTyped == \A p, c : c \in PageOrNot => Version(p, c) \in PageOrNot
<1> SUFFICES ASSUME NEW p, NEW c \in PageOrNot PROVE Version(p, c) \in PageOrNot OBVIOUS
<1>1. CASE c = NoPage BY <1>1 DEF Version, PageOrNot
<1>2. CASE c \in Writings BY <1>2, VersionTells DEF PageOrNot
<1> QED BY <1>1, <1>2 DEF PageOrNot

\* The empty offers, packet, job and answer have their types.
LEMMA NoneAre ==
    /\ NoOffers \in Offerings /\ NoPacket \in Packets /\ NoJob \in Jobs
    /\ NoPacket.at = "none" /\ NoJob.status = "none" /\ NoAnswer.at = "idle"
    /\ IsAnswer(NoAnswer)
<1>1. NoOffers \in Offerings BY DEF NoOffers, Offerings, PageOrNot
<1>2. 0 \in Hashes /\ NoPage \in PageOrNot BY DEF Hashes, PageOrNot
<1>3. NoPacket \in Packets /\ NoPacket.at = "none" BY <1>1, <1>2 DEF NoPacket, Packets
<1>4. NoJob \in Jobs /\ NoJob.status = "none" BY <1>1, <1>2 DEF NoJob, Jobs
<1>5. NoAnswer.at = "idle" BY DEF NoAnswer
<1>6. IsAnswer(NoAnswer)
  BY DEF NoAnswer, IsAnswer
<1> QED BY <1>1, <1>3, <1>4, <1>5, <1>6

\* The invariant holds at first.
LEMMA FinalStarts == FinalInit => FinalInv
<1> SUFFICES ASSUME FinalInit PROVE FinalInv OBVIOUS
<1>1. {NoPage, Page(0, 0), Page(0, 1)} \subseteq PageOrNot BY PageIs DEF PageOrNot
<1>2. canon \in [Pages -> {NoPage, Page(0, 0), Page(0, 1)}] /\ markdown = canon BY DEF FinalInit
<1>3. canon \in [Pages -> PageOrNot] /\ markdown \in [Pages -> PageOrNot] BY <1>1, <1>2
<1> DEFINE old == [NoJob EXCEPT !.status = "queued", !.hash = 1, !.current = FALSE]
           given == [NoJob EXCEPT !.status = "ready", !.hash = 1, !.current = FALSE]
<1>4. old \in Jobs /\ given \in Jobs /\ old.current = FALSE /\ given.current = FALSE
      /\ old.status = "queued" /\ given.status = "ready"
  BY NoneAre, PageIs DEF Jobs
<1>5. job \in [Sources -> {NoJob, old, given}] BY DEF FinalInit
<1> HIDE DEF old, given
<1>6. job \in [Sources -> Jobs] BY <1>4, <1>5, NoneAre
<1>7. \A s \in Sources : job[s] = NoJob \/ job[s].current = FALSE BY <1>4, <1>5
<1>8. worker = [s \in Sources |-> NoPacket] /\ fin = [f \in Finalizers |-> NoAnswer]
      /\ raw = [s \in Sources |-> 1] /\ ledger = [s \in Sources |-> 0]
  BY DEF FinalInit
<1>9. FinalTyped
  <2>1. worker \in [Sources -> Packets] BY <1>8, NoneAre
  <2>2. raw \in [Sources -> Versions] /\ ledger \in [Sources -> Hashes]
    BY <1>8, FinalAssumption, PageIs
  <2>3. fin = [f \in Finalizers |-> fin[f]] /\ \A f \in Finalizers : fin[f] = NoAnswer BY <1>8
  <2>4. \A f \in Finalizers : fin[f].at = "idle" BY <2>3, NoneAre
  <2>5. \A f \in Finalizers :
          IsAnswer(fin[f])
    BY <2>3, NoneAre
  <2> QED BY <1>3, <1>6, <2>1, <2>2, <2>3, <2>4, <2>5 DEF FinalTyped
<1>10. Dispatched BY <1>8, NoneAre DEF Dispatched
<1>11. TextIsKnown BY <1>7, NoneAre DEF TextIsKnown
<1>12. Composed BY <1>8, NoneAre DEF Composed
<1> QED BY <1>9, <1>10, <1>11, <1>12 DEF FinalInv

-----------------------------------------------------------------------------
(* Steps that finish no job.                                               *)

\* A step that finishes no claimed row and leaves the ledger.
LEMMA NothingFinishes ==
    ASSUME UNCHANGED ledger,
           \A s \in Sources : job[s].status = "claimed" => job'[s].status # "final"
    PROVE  FinalStep
  BY DEF FinalStep, Finishes

\* Answers stay composed while the claimed rows stay.
LEMMA AnswersStay ==
    ASSUME FinalInv, UNCHANGED fin,
           \A s \in Sources : job'[s].status = "claimed" => job'[s] = job[s]
    PROVE  Composed'
<1>1. ASSUME NEW f \in Finalizers, fin[f].at = "checked", Holds(f)'
      PROVE  ComposedFrom(fin[f].of, fin[f].write, fin[f].expect, job[fin[f].of])'
  <2>1. fin[f].of \in Sources BY <1>1 DEF FinalInv, FinalTyped
  <2>2. job'[fin[f].of] = job[fin[f].of] /\ Holds(f) BY <1>1, <2>1 DEF Holds
  <2>3. ComposedFrom(fin[f].of, fin[f].write, fin[f].expect, job[fin[f].of])
    BY <1>1, <2>2 DEF FinalInv, Composed
  <2> QED BY <2>2, <2>3
<1>2. \A f \in Finalizers : fin[f].at = "same" => fin[f].proof # NoPage
  BY DEF FinalInv, Composed
<1> QED BY <1>1, <1>2 DEF Composed

(* One finalizer answers anew or rests; the rows of the others stay.       *)
LEMMA OneAnswers ==
    ASSUME FinalInv, NEW f \in Finalizers, NEW a,
           IsAnswer(a),
           a.at # "idle" => a.of \in Sources,
           fin' = [fin EXCEPT ![f] = a],
           a.at = "checked" => ComposedFrom(a.of, a.write, a.expect, job'[a.of]),
           a.at = "same" => a.proof # NoPage,
           \A s \in Sources : job'[s].status = "claimed" /\ job'[s].lease # f => job'[s] = job[s]
    PROVE  /\ Composed'
           /\ fin' = [g \in Finalizers |-> fin'[g]]
           /\ \A g \in Finalizers :
                /\ IsAnswer(fin'[g])
                /\ fin'[g].at # "idle" => fin'[g].of \in Sources
<1>1. FinalTyped /\ Composed BY DEF FinalInv
<1>2. fin' = [g \in Finalizers |-> fin'[g]] /\ fin'[f] = a
        /\ \A g \in Finalizers \ {f} : fin'[g] = fin[g]
  BY <1>1 DEF FinalTyped
<1>3. ASSUME NEW g \in Finalizers
      PROVE  /\ IsAnswer(fin'[g])
             /\ fin'[g].at # "idle" => fin'[g].of \in Sources
  <2>1. CASE g = f BY <1>2, <2>1
  <2>2. CASE g # f BY <1>1, <1>2, <2>2 DEF FinalTyped
  <2> QED BY <2>1, <2>2
<1>4. ASSUME NEW g \in Finalizers, fin'[g].at = "checked", Holds(g)'
      PROVE  ComposedFrom(fin'[g].of, fin'[g].write, fin'[g].expect, job'[fin'[g].of])
  <2>1. CASE g = f BY <1>2, <1>4, <2>1
  <2>2. CASE g # f
    <3>1. fin'[g] = fin[g] BY <1>2, <2>2
    <3>2. fin[g].of \in Sources /\ job'[fin[g].of].status = "claimed" /\ job'[fin[g].of].lease = g
      BY <1>1, <1>4, <3>1 DEF FinalTyped, Holds
    <3>3. job'[fin[g].of] = job[fin[g].of] /\ Holds(g) BY <2>2, <3>2 DEF Holds
    <3> QED BY <1>1, <1>4, <3>1, <3>3 DEF Composed
  <2> QED BY <2>1, <2>2
<1>5. \A g \in Finalizers : fin'[g].at = "same" => fin'[g].proof # NoPage
  BY <1>1, <1>2 DEF Composed
<1>6. Composed' BY <1>4, <1>5 DEF Composed
<1> QED BY <1>2, <1>3, <1>6

(* One row changes, not to a claimed one, and no finalizer moves.          *)
LEMMA RowChanges ==
    ASSUME FinalInv, NEW s \in Sources, NEW j \in Jobs, job' = [job EXCEPT ![s] = j],
           j.status \notin {"claimed", "final"}, UNCHANGED <<raw, canon, markdown, ledger, fin>>,
           NEW w \in Packets, worker' = [worker EXCEPT ![s] = w],
           w.at # "none" => j.status = "queued" /\ j.current,
           j.status \in {"queued", "ready"} /\ j.current => j.projection = j.hash \/ j.torn
    PROVE  FinalInv' /\ FinalStep
<1>1. FinalTyped /\ Dispatched /\ TextIsKnown /\ job \in [Sources -> Jobs]
        /\ worker \in [Sources -> Packets]
  BY DEF FinalInv, FinalTyped
<1>2. /\ job' \in [Sources -> Jobs] /\ job'[s] = j /\ \A r \in Sources \ {s} : job'[r] = job[r]
      /\ worker' \in [Sources -> Packets] /\ worker'[s] = w
      /\ \A r \in Sources \ {s} : worker'[r] = worker[r]
  BY <1>1
<1>3. FinalTyped' BY <1>1, <1>2 DEF FinalTyped
<1>4. Dispatched' BY <1>1, <1>2 DEF Dispatched
<1>5. TextIsKnown' BY <1>1, <1>2 DEF TextIsKnown
<1>6. Composed' BY <1>2, AnswersStay
<1>7. FinalStep BY <1>2, NothingFinishes
<1> QED BY <1>3, <1>4, <1>5, <1>6, <1>7 DEF FinalInv

\* The row, packet and file of a source have their types.
LEMMA RowOf ==
    ASSUME FinalInv, NEW s \in Sources
    PROVE  /\ job[s] \in Jobs /\ worker[s] \in Packets /\ raw[s] \in Versions /\ raw[s] \in Hashes
           /\ job[s] = [job[s] EXCEPT !.status = job[s].status]
           /\ worker = [worker EXCEPT ![s] = worker[s]] /\ job = [job EXCEPT ![s] = job[s]]
  BY DEF FinalInv, FinalTyped, Hashes, Jobs

\* A changed file is found; a row whose attempts are spent is given up.
LEMMA KeepFind ==
    ASSUME FinalInv, NEW s \in Sources, Find(s) \/ GivesUp(s)
    PROVE  FinalInv' /\ FinalStep
<1>1. /\ job[s] \in Jobs /\ worker[s] \in Packets /\ raw[s] \in Hashes
      /\ worker = [worker EXCEPT ![s] = worker[s]]
  BY RowOf
<1>2. worker[s].at = "none" BY DEF Find, GivesUp, FinalInv, Dispatched
<1>3. CASE Find(s)
  <2> DEFINE j == [NoJob EXCEPT !.status = "found", !.hash = raw[s]]
  <2>1. j \in Jobs /\ j.status = "found" BY <1>1, NoneAre DEF Jobs
  <2>2. job' = [job EXCEPT ![s] = j] /\ UNCHANGED <<raw, canon, markdown, ledger, fin, worker>>
    BY <1>3 DEF Find
  <2> HIDE DEF j
  <2> QED BY <1>1, <1>2, <2>1, <2>2, RowChanges
<1>4. CASE GivesUp(s)
  <2>1. job' = [job EXCEPT ![s] = NoJob] /\ UNCHANGED <<raw, canon, markdown, ledger, fin, worker>>
    BY <1>4 DEF GivesUp
  <2> QED BY <1>1, <1>2, <2>1, NoneAre, RowChanges
<1> QED BY <1>3, <1>4

\* A found row is queued, or one of an earlier release is rebuilt.
LEMMA KeepQueueing ==
    ASSUME FinalInv, NEW s \in Sources, Enqueue(s) \/ Rebuild(s)
    PROVE  FinalInv' /\ FinalStep
<1>1. /\ job[s] \in Jobs /\ worker[s] \in Packets /\ raw[s] \in Hashes
      /\ worker = [worker EXCEPT ![s] = worker[s]]
  BY RowOf
<1>2. worker[s].at = "none" BY DEF Enqueue, Rebuild, FinalInv, Dispatched
<1>3. job[s].hash \in Hashes /\ (raw[s] # job[s].hash) \in BOOLEAN BY <1>1 DEF Jobs
<1>4. CASE Enqueue(s)
  <2> DEFINE j == [job[s] EXCEPT !.status = "queued", !.projection = raw[s],
               !.torn = (raw[s] # job[s].hash)]
  <2>1. j \in Jobs BY <1>1, <1>3 DEF Jobs
  <2>2. j.status = "queued" /\ j.hash = job[s].hash /\ j.projection = raw[s] BY <1>1 DEF Jobs
  <2>3. j.torn = (raw[s] # job[s].hash) BY <1>1 DEF Jobs
  <2>4. job' = [job EXCEPT ![s] = j]
    BY <1>1, <1>4 DEF Enqueue, FinalInv, FinalTyped
  <2>5. UNCHANGED <<raw, canon, markdown, ledger, fin, worker>> BY <1>4 DEF Enqueue
  <2> HIDE DEF j
  <2>6. j.projection = j.hash \/ j.torn BY <2>2, <2>3
  <2> QED BY <1>1, <1>2, <2>1, <2>2, <2>4, <2>5, <2>6, RowChanges
<1>5. CASE Rebuild(s)
  <2> DEFINE j == [job[s] EXCEPT !.status = "queued", !.current = TRUE, !.projection = raw[s],
                                 !.torn = (raw[s] # job[s].hash)]
  <2>1. j \in Jobs BY <1>1, <1>3 DEF Jobs
  <2>2. j.status = "queued" /\ j.hash = job[s].hash /\ j.projection = raw[s] BY <1>1 DEF Jobs
  <2>3. j.torn = (raw[s] # job[s].hash) BY <1>1 DEF Jobs
  <2>4. job' = [job EXCEPT ![s] = j]
    BY <1>1, <1>5 DEF Rebuild, FinalInv, FinalTyped
  <2>5. UNCHANGED <<raw, canon, markdown, ledger, fin, worker>> BY <1>5 DEF Rebuild
  <2> HIDE DEF j
  <2>6. j.projection = j.hash \/ j.torn BY <2>2, <2>3
  <2> QED BY <1>1, <1>2, <2>1, <2>2, <2>4, <2>5, <2>6, RowChanges
<1> QED BY <1>4, <1>5

\* What a dispatch reads of the pages has its type.
LEMMA OfferedTyped ==
    ASSUME FinalInv
    PROVE  /\ [t \in Targets |-> Offered(t)] \in Offerings
           /\ \A s \in Sources : Version(s, canon[s]) \in PageOrNot
           /\ \A t \in Targets : Snapshot(t) \in PageOrNot
<1>1. \A p \in Pages : canon[p] \in PageOrNot /\ markdown[p] \in PageOrNot
  BY DEF FinalInv, FinalTyped
<1>2. \A t \in Targets : Snapshot(t) \in PageOrNot BY <1>1 DEF Snapshot, Pages
<1>3. \A t \in Targets : Offered(t) \in PageOrNot BY <1>2 DEF Offered, PageOrNot
<1>4. \A s \in Sources : Version(s, canon[s]) \in PageOrNot BY <1>1, VersionTyped DEF Pages
<1> QED BY <1>2, <1>3, <1>4 DEF Offerings

\* The dispatcher looks, reads the text, or fails.
LEMMA KeepDispatching ==
    ASSUME FinalInv, NEW s \in Sources, Look(s) \/ ReadText(s) \/ DispatchFails(s)
    PROVE  FinalInv' /\ FinalStep
<1>1. /\ job[s] \in Jobs /\ worker[s] \in Packets /\ raw[s] \in Hashes
           /\ job = [job EXCEPT ![s] = job[s]]
  BY RowOf
<1>2. job[s].status = "queued" /\ job[s].current
  BY DEF Look, ReadText, DispatchFails, FinalInv, Dispatched
<1>3. job[s].projection = job[s].hash \/ job[s].torn BY <1>2 DEF FinalInv, TextIsKnown
<1>4. UNCHANGED <<raw, canon, markdown, ledger, fin, job>> BY DEF Look, ReadText, DispatchFails
<1>5. ASSUME NEW w \in Packets, worker' = [worker EXCEPT ![s] = w] PROVE FinalInv' /\ FinalStep
  BY <1>1, <1>2, <1>3, <1>4, <1>5, RowChanges
<1>6. CASE Look(s)
  <2> DEFINE offers == [t \in Targets |-> Offered(t)]
             w == [NoPacket EXCEPT !.at = "looked", !.base = Version(s, canon[s]), !.offers = offers]
  <2>1. offers \in Offerings /\ Version(s, canon[s]) \in PageOrNot BY OfferedTyped
  <2>2. worker' = [worker EXCEPT ![s] = w] BY <1>6 DEF Look
  <2> HIDE DEF offers
  <2>3. w \in Packets BY <2>1, NoneAre DEF Packets
  <2> HIDE DEF w
  <2> QED BY <1>5, <2>2, <2>3
<1>7. CASE ReadText(s)
  <2> DEFINE w == [worker[s] EXCEPT !.at = "read", !.projection = raw[s]]
  <2>1. w \in Packets BY <1>1 DEF Packets
  <2>2. worker' = [worker EXCEPT ![s] = w] BY <1>7 DEF ReadText, FinalInv, FinalTyped
  <2> HIDE DEF w
  <2> QED BY <1>5, <2>1, <2>2
<1>8. CASE DispatchFails(s) BY <1>5, <1>8, NoneAre DEF DispatchFails
<1> QED BY <1>6, <1>7, <1>8

\* The packet is stored with the row, if the file is still what it was.
LEMMA KeepHandOff ==
    ASSUME FinalInv, NEW s \in Sources, HandOff(s)
    PROVE  FinalInv' /\ FinalStep
<1>1. job[s] \in Jobs /\ worker[s] \in Packets BY RowOf
<1> DEFINE j == [job[s] EXCEPT !.status = "ready", !.base = worker[s].base,
             !.offers = worker[s].offers,
                               !.projection = worker[s].projection]
<1>2. j \in Jobs BY <1>1 DEF Jobs, Packets
<1>3. j.status = "ready" /\ j.current = job[s].current /\ j.projection = worker[s].projection
      /\ j.hash = job[s].hash /\ j.torn = job[s].torn
  BY <1>1 DEF Jobs
<1>4. job' = [job EXCEPT ![s] = j] BY DEF HandOff, FinalInv, FinalTyped
<1>5. worker' = [worker EXCEPT ![s] = NoPacket] /\ UNCHANGED <<raw, canon, markdown, ledger, fin>>
      /\ worker[s].projection = job[s].projection /\ worker[s].at = "read"
  BY DEF HandOff, SameText
<1>6. job[s].projection = job[s].hash \/ job[s].torn
  BY <1>5 DEF FinalInv, Dispatched, TextIsKnown
<1> HIDE DEF j
<1> QED BY <1>2, <1>3, <1>4, <1>5, <1>6, NoneAre, RowChanges

\* A lease runs out and the row waits again.
LEMMA KeepLapse ==
    ASSUME FinalInv, NEW s \in Sources, Lapse(s)
    PROVE  FinalInv' /\ FinalStep
<1>1. job[s] \in Jobs /\ worker[s] \in Packets /\ worker = [worker EXCEPT ![s] = worker[s]]
  BY RowOf
<1> DEFINE j == [job[s] EXCEPT !.status = "ready", !.lease = NoPage]
<1>2. j \in Jobs /\ j.status = "ready" /\ j.current = job[s].current
        /\ j.projection = job[s].projection
      /\ j.hash = job[s].hash /\ j.torn = job[s].torn
  BY <1>1 DEF Jobs
<1>3. job' = [job EXCEPT ![s] = j] BY DEF Lapse, FinalInv, FinalTyped
<1>4. UNCHANGED <<raw, canon, markdown, ledger, fin, worker>> /\ job[s].status = "claimed"
  BY DEF Lapse
<1>5. worker[s].at = "none" BY <1>4 DEF FinalInv, Dispatched
<1>6. job[s].current => job[s].projection = job[s].hash \/ job[s].torn
  BY <1>4 DEF FinalInv, TextIsKnown
<1> HIDE DEF j
<1>7. j.current => j.projection = j.hash \/ j.torn BY <1>2, <1>6
<1>8. j.status \notin {"claimed", "final"} /\ ~(worker[s].at # "none") BY <1>2, <1>5
<1>9. UNCHANGED <<raw, canon, markdown, ledger, fin>> /\ worker' = [worker EXCEPT ![s] = worker[s]]
  BY <1>1, <1>4
<1> QED BY <1>1, <1>2, <1>3, <1>7, <1>8, <1>9, RowChanges

(* Others change files and pages.                                          *)
LEMMA FilesChange ==
    ASSUME FinalInv, UNCHANGED <<ledger, job, worker, fin>>,
           raw' \in [Sources -> Versions],
           canon' \in [Pages -> PageOrNot], markdown' \in [Pages -> PageOrNot]
    PROVE  FinalInv' /\ FinalStep
<1>1. FinalTyped' BY DEF FinalInv, FinalTyped
<1>2. Dispatched' /\ TextIsKnown' BY DEF FinalInv, Dispatched, TextIsKnown
<1>3. Composed' BY AnswersStay
<1>4. FinalStep BY NothingFinishes
<1> QED BY <1>1, <1>2, <1>3, <1>4 DEF FinalInv

\* A hand edit makes a page of a page.
LEMMA RewordedTyped ==
    ASSUME NEW c \in Writings
    PROVE  Reworded(c) \subseteq Writings
<1>1. 1 - c.text \in {0, 1} /\ 1 - c.extra \in {0, 1}
  <2>1. c.text \in {0, 1} /\ c.extra \in {0, 1} BY DEF Writings
  <2> QED BY <2>1
<1>2. [c EXCEPT !.text = 1 - c.text] \in Writings BY <1>1 DEF Writings
<1>3. [c EXCEPT !.extra = 1 - c.extra] \in Writings BY <1>1 DEF Writings
<1>4. [c EXCEPT !.stamp = 0] \in Writings BY PageIs DEF Writings
<1> QED BY <1>2, <1>3, <1>4 DEF Reworded

\* Files and pages are changed by others.
LEMMA KeepFiles ==
    ASSUME FinalInv, \/ \E s \in Sources : EditRaw(s)
                     \/ \E p \in Pages : OtherWrite(p) \/ HandEdit(p) \/ Project(p)
    PROVE  FinalInv' /\ FinalStep
<1>1. raw \in [Sources -> Versions] /\ canon \in [Pages -> PageOrNot]
        /\ markdown \in [Pages -> PageOrNot]
  BY DEF FinalInv, FinalTyped
<1>2. ASSUME NEW s \in Sources, EditRaw(s) PROVE FinalInv' /\ FinalStep
  BY <1>1, <1>2, FilesChange DEF EditRaw
<1>3. ASSUME NEW p \in Pages, OtherWrite(p) PROVE FinalInv' /\ FinalStep
  <2>1. PICK c \in IF canon[p] = NoPage THEN {Page(1, 0)} ELSE Reworded(canon[p]) \cup {NoPage} :
           canon' = [canon EXCEPT ![p] = c]
    BY <1>3 DEF OtherWrite
  <2>2. c \in PageOrNot
    <3>1. CASE canon[p] = NoPage BY <2>1, <3>1, PageIs DEF PageOrNot
    <3>2. CASE canon[p] # NoPage
      <4>1. canon[p] \in Writings BY <1>1, <3>2 DEF PageOrNot
      <4> QED BY <2>1, <3>2, <4>1, RewordedTyped DEF PageOrNot
    <3> QED BY <3>1, <3>2
  <2>3. canon' \in [Pages -> PageOrNot] BY <1>1, <2>1, <2>2
  <2> QED BY <1>1, <1>3, <2>3, FilesChange DEF OtherWrite
<1>4. ASSUME NEW p \in Pages, HandEdit(p) PROVE FinalInv' /\ FinalStep
  <2>1. PICK c \in Reworded(markdown[p]) : markdown' = [markdown EXCEPT ![p] = c]
    BY <1>4 DEF HandEdit
  <2>2. markdown[p] \in Writings BY <1>1, <1>4 DEF HandEdit, PageOrNot
  <2>3. c \in PageOrNot BY <2>1, <2>2, RewordedTyped DEF PageOrNot
  <2>4. markdown' \in [Pages -> PageOrNot] BY <1>1, <2>1, <2>3
  <2> QED BY <1>1, <1>4, <2>4, FilesChange DEF HandEdit
<1>5. ASSUME NEW p \in Pages, Project(p) PROVE FinalInv' /\ FinalStep
  <2>1. markdown' \in [Pages -> PageOrNot] BY <1>1, <1>5 DEF Project
  <2> QED BY <1>1, <1>5, <2>1, FilesChange DEF Project
<1> QED BY <1>2, <1>3, <1>4, <1>5

-----------------------------------------------------------------------------
(* The finalizers.                                                         *)

\* A finalizer claims a ready row.
LEMMA KeepClaim ==
    ASSUME FinalInv, NEW f \in Finalizers, NEW s \in Sources, Claim(f, s)
    PROVE  FinalInv' /\ FinalStep
<1>1. job[s] \in Jobs BY RowOf
<1> DEFINE j == [job[s] EXCEPT !.status = "claimed", !.lease = f]
           a == [NoAnswer EXCEPT !.at = "claimed", !.of = s]
<1>2. j \in Jobs /\ j.status = "claimed" /\ j.lease = f /\ j.current = job[s].current
      /\ j.projection = job[s].projection /\ j.hash = job[s].hash /\ j.torn = job[s].torn
  BY <1>1 DEF Jobs
<1>3. job' = [job EXCEPT ![s] = j] BY DEF Claim, FinalInv, FinalTyped
<1>4. fin' = [fin EXCEPT ![f] = a] /\ UNCHANGED <<raw, canon, markdown, ledger, worker>>
      /\ job[s].status = "ready"
  BY DEF Claim
<1>5. IsAnswer(a) /\ a.at = "claimed" /\ a.of = s
  BY DEF NoAnswer, IsAnswer
<1> HIDE DEF j, a
<1>6. FinalTyped /\ Dispatched /\ TextIsKnown /\ job \in [Sources -> Jobs]
  BY DEF FinalInv, FinalTyped
<1>7. job' \in [Sources -> Jobs] /\ job'[s] = j /\ \A r \in Sources \ {s} : job'[r] = job[r]
  BY <1>2, <1>3, <1>6
<1>8. /\ Composed' /\ fin' = [g \in Finalizers |-> fin'[g]]
      /\ \A g \in Finalizers :
           /\ IsAnswer(fin'[g])
           /\ fin'[g].at # "idle" => fin'[g].of \in Sources
  <2>1. \A r \in Sources : job'[r].status = "claimed" /\ job'[r].lease # f => job'[r] = job[r]
    BY <1>2, <1>7
  <2>2. a.at # "idle" /\ a.at # "checked" /\ a.at # "same" BY <1>5
  <2> QED BY <1>4, <1>5, <2>1, <2>2, OneAnswers
<1>9. FinalTyped' BY <1>4, <1>6, <1>7, <1>8 DEF FinalTyped
<1>10. Dispatched' BY <1>4, <1>6, <1>7 DEF Dispatched
<1>11. TextIsKnown' BY <1>2, <1>4, <1>6, <1>7 DEF TextIsKnown
<1>12. FinalStep BY <1>2, <1>4, <1>7, NothingFinishes
<1> QED BY <1>8, <1>9, <1>10, <1>11, <1>12 DEF FinalInv

\* A finalizer that goes on with an answer composed from its packet.
LEMMA KeepChecking ==
    ASSUME FinalInv, NEW f \in Finalizers, NEW a,
           IsAnswer(a),
           a.at # "idle", a.of \in Sources, fin' = [fin EXCEPT ![f] = a],
           a.at = "checked" => ComposedFrom(a.of, a.write, a.expect, job[a.of]),
           a.at = "same" => a.proof # NoPage,
           UNCHANGED <<raw, canon, markdown, ledger, job, worker>>
    PROVE  FinalInv' /\ FinalStep
<1>1. /\ Composed' /\ fin' = [g \in Finalizers |-> fin'[g]]
      /\ \A g \in Finalizers :
           /\ IsAnswer(fin'[g])
           /\ fin'[g].at # "idle" => fin'[g].of \in Sources
  BY OneAnswers
<1>2. FinalTyped' BY <1>1 DEF FinalInv, FinalTyped
<1>3. Dispatched' /\ TextIsKnown' BY DEF FinalInv, Dispatched, TextIsKnown
<1>4. FinalStep BY NothingFinishes
<1> QED BY <1>1, <1>2, <1>3, <1>4 DEF FinalInv

\* An answer is checked and its pages are composed.
LEMMA KeepCheck ==
    ASSUME FinalInv, NEW f \in Finalizers, Check(f)
    PROVE  FinalInv' /\ FinalStep
<1> DEFINE s == fin[f].of
<1>1. fin[f].at = "claimed" /\ UNCHANGED <<raw, canon, markdown, ledger, job, worker>>
  BY DEF Check
<1>2. s \in Sources /\ FinalTyped BY <1>1 DEF FinalInv, FinalTyped
<1>3. PICK targets \in SUBSET Targets, others \in SUBSET Targets :
        /\ targets \cap others = {} /\ \A t \in targets : Relatable(s, t)
        /\ fin' = [fin EXCEPT ![f].at = "checked",
              ![f].write = [p \in {s} \cup targets \cup others |->
                               CASE p = s -> Compiled(s, targets)
                                 [] p \in targets -> Related(s, p)
                                 [] OTHER -> Page(1, 0)],
              ![f].expect = [p \in {s} \cup targets \cup others |-> Required(s, p, targets)]]
  BY DEF Check
<1> DEFINE these == {s} \cup targets \cup others
           write == [p \in these |-> CASE p = s -> Compiled(s, targets)
                                       [] p \in targets -> Related(s, p)
                                       [] OTHER -> Page(1, 0)]
           expect == [p \in these |-> Required(s, p, targets)]
           a == [fin[f] EXCEPT !.at = "checked", !.write = write, !.expect = expect]
<1>4. fin' = [fin EXCEPT ![f] = a] BY <1>2, <1>3 DEF FinalTyped
<1>5. \A t \in targets : t # s BY <1>2, <1>3, FinalAssumption
<1>6. write = [p \in {s} \cup targets \cup others |->
                  CASE p = s -> [Page(0, job[s].hash) EXCEPT !.rels = targets]
                    [] p \in targets -> [job[s].offers[p] EXCEPT !.rels = @ \cup {s}]
                    [] OTHER -> Page(1, 0)]
  <2>1. ASSUME NEW p \in targets
        PROVE  Related(s, p) = [job[s].offers[p] EXCEPT !.rels = @ \cup {s}]
    BY <1>3 DEF Related, Relatable
  <2>2. Compiled(s, targets) = [Page(0, job[s].hash) EXCEPT !.rels = targets] BY DEF Compiled
  <2> HIDE DEF s
  <2> QED BY <2>1, <2>2
<1>7. expect = [p \in {s} \cup targets \cup others |->
                  CASE p = s -> job[s].base
                    [] p \in targets -> Version(p, job[s].offers[p])
                    [] OTHER -> NoPage]
  BY DEF Required
<1>8. \A t \in targets : job[s].offers[t] # NoPage BY <1>3 DEF Relatable
<1> HIDE DEF write, expect
<1>9. a.at = "checked" /\ a.of = s /\ a.write = write /\ a.expect = expect /\ IsAnswer(a)
  BY <1>2 DEF FinalTyped, IsAnswer
<1> HIDE DEF a, s
<1>10. ComposedFrom(s, write, expect, job[s]) BY <1>3, <1>6, <1>7, <1>8 DEF ComposedFrom
<1>11. ComposedFrom(a.of, a.write, a.expect, job[a.of]) BY <1>9, <1>10
<1> QED BY <1>1, <1>2, <1>4, <1>9, <1>11, KeepChecking

\* An answer whose page is there already is checked.
LEMMA KeepCheckSame ==
    ASSUME FinalInv, NEW f \in Finalizers, CheckSame(f)
    PROVE  FinalInv' /\ FinalStep
<1>1. fin[f].at = "claimed" /\ UNCHANGED <<raw, canon, markdown, ledger, job, worker>>
      /\ Evidence(fin[f].of) # NoPage
      /\ fin' = [fin EXCEPT ![f].at = "same", ![f].proof = Evidence(fin[f].of)]
  BY DEF CheckSame
<1>2. fin[f].of \in Sources /\ fin = [g \in Finalizers |-> fin[g]]
      /\ IsAnswer(fin[f])
  BY <1>1 DEF FinalInv, FinalTyped
<1> DEFINE a == [fin[f] EXCEPT !.at = "same", !.proof = Evidence(fin[f].of)]
<1>3. fin' = [fin EXCEPT ![f] = a] BY <1>1, <1>2
<1>4. a.at = "same" /\ a.of = fin[f].of /\ a.proof = Evidence(fin[f].of) /\ IsAnswer(a)
  BY <1>2 DEF IsAnswer
<1> HIDE DEF a
<1> QED BY <1>1, <1>2, <1>3, <1>4, KeepChecking

(* A job leaves the hands of its finalizer.                                *)
LEMMA LettingGo ==
    ASSUME FinalInv, NEW f \in Finalizers, fin[f].at # "idle", NEW status \in {"final", "queued"},
           Holds(f), fin' = [fin EXCEPT ![f] = NoAnswer],
           job' = [job EXCEPT ![fin[f].of].status = status, ![fin[f].of].lease = NoPage],
           UNCHANGED <<raw, worker>>, ledger' \in [Sources -> Hashes],
           canon' \in [Pages -> PageOrNot], markdown' \in [Pages -> PageOrNot]
    PROVE  /\ FinalInv'
           /\ \A r \in Sources \ {fin[f].of} : job'[r] = job[r]
           /\ job'[fin[f].of].status = status
<1> DEFINE s == fin[f].of
           j == [job[s] EXCEPT !.status = status, !.lease = NoPage]
<1>1. s \in Sources /\ FinalTyped /\ Dispatched /\ TextIsKnown /\ job \in [Sources -> Jobs]
  BY DEF FinalInv, FinalTyped
<1>2. job[s] \in Jobs /\ job[s].status = "claimed" BY <1>1 DEF Holds
<1>3. j \in Jobs /\ j.status = status /\ j.current = job[s].current
      /\ j.projection = job[s].projection /\ j.hash = job[s].hash /\ j.torn = job[s].torn
  BY <1>2 DEF Jobs
<1>4. job' = [job EXCEPT ![s] = j] BY <1>1
<1> HIDE DEF j, s
<1>5. job' \in [Sources -> Jobs] /\ job'[s] = j /\ \A r \in Sources \ {s} : job'[r] = job[r]
  BY <1>1, <1>3, <1>4
<1>6. /\ Composed' /\ fin' = [g \in Finalizers |-> fin'[g]]
      /\ \A g \in Finalizers :
           /\ IsAnswer(fin'[g])
           /\ fin'[g].at # "idle" => fin'[g].of \in Sources
  <2>1. \A r \in Sources : job'[r].status = "claimed" => job'[r] = job[r] BY <1>3, <1>5
  <2> QED BY <2>1, NoneAre, OneAnswers
<1>7. FinalTyped' BY <1>1, <1>5, <1>6 DEF FinalTyped
<1>8. worker[s].at = "none" BY <1>1, <1>2 DEF Dispatched
<1>9. Dispatched' BY <1>1, <1>5, <1>8 DEF Dispatched
<1>10. TextIsKnown' BY <1>1, <1>2, <1>3, <1>5 DEF TextIsKnown
<1> QED BY <1>3, <1>5, <1>6, <1>7, <1>9, <1>10 DEF FinalInv, s

\* An answer is refused.
LEMMA KeepRefused ==
    ASSUME FinalInv, NEW f \in Finalizers, Refused(f)
    PROVE  FinalInv' /\ FinalStep
<1>1. fin[f].at # "idle" /\ fin' = [fin EXCEPT ![f] = NoAnswer]
      /\ UNCHANGED <<raw, canon, markdown, ledger, worker>>
  BY DEF Refused
<1>2. ledger \in [Sources -> Hashes] /\ canon \in [Pages -> PageOrNot]
        /\ markdown \in [Pages -> PageOrNot]
      /\ fin[f].of \in Sources
  BY <1>1 DEF FinalInv, FinalTyped
<1>3. CASE Holds(f)
  <2>1. job' = [job EXCEPT ![fin[f].of].status = "queued", ![fin[f].of].lease = NoPage]
    BY <1>3 DEF Refused
  <2>2. /\ FinalInv' /\ \A r \in Sources \ {fin[f].of} : job'[r] = job[r]
        /\ job'[fin[f].of].status = "queued"
    BY <1>1, <1>2, <1>3, <2>1, LettingGo
  <2>3. FinalStep BY <1>1, <2>2, NothingFinishes
  <2> QED BY <2>2, <2>3
<1>4. CASE ~Holds(f)
  <2>1. UNCHANGED job BY <1>4 DEF Refused
  <2>2. /\ Composed' /\ fin' = [g \in Finalizers |-> fin'[g]]
        /\ \A g \in Finalizers :
             /\ IsAnswer(fin'[g])
             /\ fin'[g].at # "idle" => fin'[g].of \in Sources
    BY <1>1, <2>1, NoneAre, OneAnswers
  <2>3. FinalTyped' BY <1>1, <2>1, <2>2 DEF FinalInv, FinalTyped
  <2>4. Dispatched' /\ TextIsKnown' BY <1>1, <2>1 DEF FinalInv, Dispatched, TextIsKnown
  <2>5. FinalStep BY <1>1, <2>1, NothingFinishes
  <2> QED BY <2>2, <2>3, <2>4, <2>5 DEF FinalInv
<1> QED BY <1>3, <1>4

(* What finishing a job may do to the ledger and to the pages.             *)
LEMMA FinishingIs ==
    ASSUME FinalInv, NEW f \in Finalizers, fin[f].at # "idle", Holds(f), FinishJob(f),
           UNCHANGED <<raw, worker>>,
           canon' \in [Pages -> PageOrNot], markdown' \in [Pages -> PageOrNot],
           ledger'[fin[f].of] = job[fin[f].of].hash => Entered(fin[f].of),
           Respects(fin[f].of)
    PROVE  FinalInv' /\ FinalStep
<1> DEFINE s == fin[f].of
<1>1. s \in Sources /\ ledger \in [Sources -> Hashes] /\ job[s] \in Jobs
  BY DEF FinalInv, FinalTyped
<1>2. job[s].hash \in Hashes BY <1>1 DEF Jobs
<1>3. ledger' = [ledger EXCEPT ![s] = job[s].hash] /\ fin' = [fin EXCEPT ![f] = NoAnswer]
      /\ job' = [job EXCEPT ![s].status = "final", ![s].lease = NoPage]
  BY DEF FinishJob
<1>4. ledger' \in [Sources -> Hashes] /\ ledger'[s] = job[s].hash
      /\ \A r \in Sources \ {s} : ledger'[r] = ledger[r]
  BY <1>1, <1>2, <1>3
<1>5. /\ FinalInv' /\ \A r \in Sources \ {s} : job'[r] = job[r]
      /\ job'[s].status = "final"
  BY <1>3, <1>4, LettingGo
<1>6. job[s].status = "claimed" BY DEF Holds
<1>7. ASSUME NEW r \in Sources
      PROVE  /\ ledger'[r] # ledger[r] => Finishes(r) /\ Entered(r)
             /\ Finishes(r) => Respects(r)
  <2>1. CASE r = s BY <1>4, <1>5, <1>6, <2>1 DEF Finishes
  <2>2. CASE r # s BY <1>4, <1>5, <2>2 DEF Finishes
  <2> QED BY <2>1, <2>2
<1> QED BY <1>5, <1>7 DEF FinalStep

\* A page that is there already finishes the row.
LEMMA KeepCommitSame ==
    ASSUME FinalInv, NEW f \in Finalizers, CommitSame(f)
    PROVE  FinalInv' /\ FinalStep
<1> DEFINE s == fin[f].of
<1>1. fin[f].at = "same" /\ Holds(f) /\ Baseline(s) /\ Evidence(s) = fin[f].proof /\ FinishJob(f)
      /\ UNCHANGED <<raw, canon, markdown, worker>>
  BY DEF CommitSame
<1>2. canon \in [Pages -> PageOrNot] /\ markdown \in [Pages -> PageOrNot]
  BY DEF FinalInv, FinalTyped
<1>3. Evidence(s) # NoPage BY <1>1 DEF FinalInv, Composed
<1>4. raw[s] = job[s].hash /\ canon[s] # NoPage /\ canon[s].stamp = raw[s] BY <1>3 DEF Evidence
<1>5. ledger'[s] = job[s].hash => Entered(s) BY <1>1, <1>4 DEF Entered
<1>6. Respects(s) BY <1>1 DEF Respects
<1> QED BY <1>1, <1>2, <1>5, <1>6, FinishingIs

(* The pages of a commit are those that were composed, and they replace    *)
(* what they were composed from.                                           *)
LEMMA CommittedIs ==
    ASSUME FinalInv, NEW f \in Finalizers, fin[f].at = "checked", Holds(f), Conflicts(f) = {},
           NEW table \in [Pages -> PageOrNot],
           NEW merged, merged = [p \in Pages |-> IF p \in DOMAIN fin[f].write THEN fin[f].write[p] ELSE table[p]]
    PROVE  /\ merged \in [Pages -> PageOrNot]
           /\ merged[fin[f].of] # NoPage
           /\ merged[fin[f].of].stamp = job[fin[f].of].hash
           /\ Version(fin[f].of, canon[fin[f].of]) = job[fin[f].of].base
           /\ \A p \in Pages \ {fin[f].of} : p \in DOMAIN fin[f].write =>
                IF canon[p] = NoPage THEN merged[p].rels = {}
                ELSE /\ Version(p, canon[p]) = Version(p, job[fin[f].of].offers[p])
                     /\ merged[p].text = canon[p].text
                     /\ merged[p].rels = canon[p].rels \cup {fin[f].of}
                          /\ p \in merged[fin[f].of].rels
<1> DEFINE s == fin[f].of
           j == job[s]
           write == fin[f].write
           expect == fin[f].expect
<1>1. s \in Sources /\ j \in Jobs /\ canon \in [Pages -> PageOrNot] BY DEF FinalInv, FinalTyped
<1>2. ComposedFrom(s, write, expect, j) BY DEF FinalInv, Composed
<1>3. PICK targets \in SUBSET Targets, others \in SUBSET Targets :
        /\ targets \cap others = {} /\ \A t \in targets : j.offers[t] # NoPage
        /\ write = [p \in {s} \cup targets \cup others |->
                         CASE p = s -> [Page(0, j.hash) EXCEPT !.rels = targets]
                           [] p \in targets -> [j.offers[p] EXCEPT !.rels = @ \cup {s}]
                           [] OTHER -> Page(1, 0)]
        /\ expect = [p \in {s} \cup targets \cup others |->
                         CASE p = s -> j.base
                           [] p \in targets -> Version(p, j.offers[p])
                           [] OTHER -> NoPage]
  BY <1>2 DEF ComposedFrom
<1>4. s \notin Targets /\ s \in Pages /\ Targets \subseteq Pages
  BY <1>1, FinalAssumption DEF Pages
<1>5. j.hash \in Hashes /\ j.offers \in Offerings BY <1>1 DEF Jobs
<1>6. \A p \in {s} \cup targets \cup others : Version(p, canon[p]) = expect[p]
  <2>1. DOMAIN expect = {s} \cup targets \cup others BY <1>3
  <2> QED BY <2>1 DEF Conflicts
<1> HIDE DEF s, j, write, expect
<1>7. /\ write[s] = [Page(0, j.hash) EXCEPT !.rels = targets] /\ expect[s] = j.base
      /\ s \in DOMAIN write /\ DOMAIN write = {s} \cup targets \cup others
  <2>1. DOMAIN write = {s} \cup targets \cup others /\ s \in {s} \cup targets \cup others
    BY <1>3
  <2> DEFINE these == {s} \cup targets \cup others
             W(p) == CASE p = s -> [Page(0, j.hash) EXCEPT !.rels = targets]
                       [] p \in targets -> [j.offers[p] EXCEPT !.rels = @ \cup {s}]
                       [] OTHER -> Page(1, 0)
             E(p) == CASE p = s -> j.base [] p \in targets -> Version(p, j.offers[p]) [] OTHER -> NoPage
  <2>2. write[s] = W(s) /\ expect[s] = E(s)
    <3>1. write = [p \in these |-> W(p)] /\ expect = [p \in these |-> E(p)] BY <1>3
    <3>2. s \in these OBVIOUS
    <3> HIDE DEF these, W, E
    <3> QED BY <3>1, <3>2
  <2>3. s \notin targets BY <1>4
  <2>4. W(s) = [Page(0, j.hash) EXCEPT !.rels = targets] /\ E(s) = j.base BY <2>3
  <2> HIDE DEF these, W, E
  <2> QED BY <2>1, <2>2, <2>4
<1>8. /\ write[s] \in Writings /\ write[s].stamp = j.hash /\ write[s].rels = targets
  <2>1. [Page(0, j.hash) EXCEPT !.rels = targets] \in Writings BY <1>5, PageIs
  <2>2. [Page(0, j.hash) EXCEPT !.rels = targets].stamp = j.hash
        /\ [Page(0, j.hash) EXCEPT !.rels = targets].rels = targets
    BY DEF Page
  <2> QED BY <1>7, <2>1, <2>2
<1>9. ASSUME NEW p \in targets
      PROVE  /\ p # s /\ p \in Pages /\ j.offers[p] \in Writings
             /\ write[p] = [j.offers[p] EXCEPT !.rels = @ \cup {s}]
                  /\ expect[p] = Version(p, j.offers[p])
  <2>1. p # s /\ p \in Targets BY <1>3, <1>4
  <2>2. j.offers[p] \in Writings BY <1>3, <1>5, <2>1 DEF Offerings, PageOrNot
  <2> QED BY <1>3, <1>4, <2>1, <2>2
<1>10. ASSUME NEW p \in targets
       PROVE  write[p] \in Writings /\ write[p].text = j.offers[p].text
                /\ write[p].rels = j.offers[p].rels \cup {s}
  <2>1. j.offers[p] \in Writings /\ write[p] = [j.offers[p] EXCEPT !.rels = j.offers[p].rels \cup {s}]
    BY <1>9
  <2>2. j.offers[p].rels \cup {s} \in SUBSET Pages BY <1>4, <2>1 DEF Writings
  <2> QED BY <2>1, <2>2 DEF Writings
<1>11. ASSUME NEW p \in others
       PROVE  p # s /\ p \in Pages /\ write[p] = Page(1, 0) /\ expect[p] = NoPage
  <2>1. p # s /\ p \notin targets BY <1>3, <1>4
  <2> QED BY <1>3, <1>4, <2>1
<1>12. Page(1, 0) \in Writings /\ Page(1, 0).rels = {} BY PageIs DEF Page
<1>13. \A p \in DOMAIN write : write[p] \in Writings BY <1>7, <1>8, <1>10, <1>11, <1>12
<1>14. merged = [p \in Pages |-> IF p \in DOMAIN write THEN write[p] ELSE table[p]] BY DEF write
<1>15. merged \in [Pages -> PageOrNot] BY <1>13, <1>14 DEF PageOrNot
<1>16. \A p \in Pages : p \in DOMAIN write => merged[p] = write[p] BY <1>14
<1>17. merged[s] = write[s] BY <1>4, <1>7, <1>16
<1>18. merged[s] # NoPage /\ merged[s].stamp = j.hash BY <1>8, <1>17, NoPageIsNone
<1>19. Version(s, canon[s]) = j.base BY <1>6, <1>7
<1>20. ASSUME NEW p \in Pages \ {s}, p \in DOMAIN write
       PROVE  IF canon[p] = NoPage THEN merged[p].rels = {}
              ELSE /\ Version(p, canon[p]) = Version(p, j.offers[p])
                   /\ merged[p].text = canon[p].text
                   /\ merged[p].rels = canon[p].rels \cup {s} /\ p \in merged[s].rels
  <2>1. CASE p \in targets
    <3>1. Version(p, canon[p]) = Version(p, j.offers[p]) BY <1>6, <1>9, <2>1
    <3>2. Version(p, j.offers[p]) \in Writings /\ Version(p, j.offers[p]).text = j.offers[p].text
          /\ Version(p, j.offers[p]).rels = j.offers[p].rels
      BY <1>9, <2>1, VersionTells
    <3>3. canon[p] # NoPage
      <4>1. Version(p, NoPage) = NoPage BY DEF Version
      <4> QED BY <3>1, <3>2, <4>1, NoPageIsNone
    <3>4. canon[p] \in Writings BY <1>1, <3>3 DEF PageOrNot
    <3>5. Version(p, canon[p]).text = canon[p].text /\ Version(p, canon[p]).rels = canon[p].rels
      BY <3>4, VersionTells
    <3> QED BY <1>8, <1>10, <1>16, <1>17, <1>20, <2>1, <3>1, <3>2, <3>3, <3>5
  <2>2. CASE p \in others
    <3>1. Version(p, canon[p]) = NoPage BY <1>6, <1>11, <2>2
    <3>2. canon[p] = NoPage
      <4>1. canon[p] \in Writings => Version(p, canon[p]) # NoPage BY VersionTells, NoPageIsNone
      <4> QED BY <1>1, <1>20, <3>1, <4>1 DEF PageOrNot
    <3> QED BY <1>11, <1>12, <1>16, <1>20, <2>2, <3>2
  <2> QED BY <1>7, <1>20, <2>1, <2>2
<1> QED BY <1>15, <1>18, <1>19, <1>20 DEF s, j, write

\* Pages, ledger and row are committed together.
LEMMA KeepCommit ==
    ASSUME FinalInv, NEW f \in Finalizers, Commit(f)
    PROVE  FinalInv' /\ FinalStep
<1> DEFINE s == fin[f].of
           write == fin[f].write
<1>1. fin[f].at = "checked" /\ Holds(f) /\ Baseline(s) /\ Conflicts(f) = {} /\ FinishJob(f)
      /\ canon' = [p \in Pages |-> IF p \in DOMAIN write THEN write[p] ELSE canon[p]]
      /\ markdown' \in {markdown,
           [p \in Pages |-> IF p \in DOMAIN write THEN write[p] ELSE markdown[p]]}
      /\ UNCHANGED <<raw, worker>>
  BY DEF Commit
<1>2. canon \in [Pages -> PageOrNot] /\ markdown \in [Pages -> PageOrNot] /\ s \in Sources
        /\ job[s] \in Jobs
  BY <1>1 DEF FinalInv, FinalTyped
<1>3. /\ canon' \in [Pages -> PageOrNot] /\ canon'[s] # NoPage /\ canon'[s].stamp = job[s].hash
      /\ Version(s, canon[s]) = job[s].base
      /\ \A p \in Pages \ {s} : p \in DOMAIN write =>
           IF canon[p] = NoPage THEN canon'[p].rels = {}
           ELSE /\ Version(p, canon[p]) = Version(p, job[s].offers[p])
                /\ canon'[p].text = canon[p].text
                /\ canon'[p].rels = canon[p].rels \cup {s} /\ p \in canon'[s].rels
  BY <1>1, <1>2, CommittedIs
<1>4. markdown' \in [Pages -> PageOrNot]
  <2> DEFINE merged == [p \in Pages |-> IF p \in DOMAIN write THEN write[p] ELSE markdown[p]]
  <2>1. merged \in [Pages -> PageOrNot] BY <1>1, <1>2, CommittedIs
  <2> QED BY <1>1, <1>2, <2>1
<1>5. ledger'[s] = job[s].hash => Entered(s)
  BY <1>1, <1>3 DEF Entered, Baseline
<1>6. Respects(s)
  <2>1. \A p \in Pages : canon'[p] # canon[p] => p \in DOMAIN write BY <1>1
  <2> HIDE DEF write, s
  <2> QED BY <1>3, <2>1 DEF Respects
<1> QED BY <1>1, <1>3, <1>4, <1>5, <1>6, FinishingIs

\* Every step keeps the invariant and finishes only what it may.
LEMMA FinalSteps == FinalInv /\ [FinalNext]_finalVars => FinalInv' /\ FinalStep
<1> SUFFICES ASSUME FinalInv, [FinalNext]_finalVars PROVE FinalInv' /\ FinalStep OBVIOUS
<1>1. ASSUME NEW s \in Sources,
             \/ Find(s) \/ Enqueue(s) \/ Rebuild(s)
             \/ Look(s) \/ ReadText(s) \/ HandOff(s) \/ DispatchFails(s) \/ GivesUp(s) \/ Lapse(s)
      PROVE  FinalInv' /\ FinalStep
  BY <1>1, KeepFind, KeepQueueing, KeepDispatching, KeepHandOff, KeepLapse
<1>2. ASSUME NEW s \in Sources, NEW f \in Finalizers, Claim(f, s) PROVE FinalInv' /\ FinalStep
  BY <1>2, KeepClaim
<1>3. ASSUME NEW f \in Finalizers,
               Check(f) \/ Commit(f) \/ CheckSame(f) \/ CommitSame(f) \/ Refused(f)
      PROVE  FinalInv' /\ FinalStep
  BY <1>3, KeepCheck, KeepCommit, KeepCheckSame, KeepCommitSame, KeepRefused
<1>4. CASE UNCHANGED finalVars
  <2>1. UNCHANGED <<ledger, job, worker, fin, raw, canon, markdown>> BY <1>4 DEF finalVars
  <2>2. raw' \in [Sources -> Versions] /\ canon' \in [Pages -> PageOrNot]
          /\ markdown' \in [Pages -> PageOrNot]
    BY <2>1 DEF FinalInv, FinalTyped
  <2> QED BY <2>1, <2>2, FilesChange
<1> QED BY <1>1, <1>2, <1>3, <1>4, KeepFiles DEF FinalNext

\* The invariant of finalization always holds.
THEOREM FinalInductive == FinalSpec => []FinalInv
  BY FinalStarts, FinalSteps, PTL DEF FinalSpec

\* A dispatched packet is about one version of its file, unless its bytes changed and
\* changed back while it was read (PacketsAreTrue).
THEOREM PacketsAreAlwaysTrue == FinalSpec => []PacketsAreTrue
<1>1. FinalInv => PacketsAreTrue BY DEF FinalInv, TextIsKnown, PacketsAreTrue
<1> QED BY <1>1, FinalInductive, PTL

\* The ledger changes only when a job finishes, with its stamp on the canonical Source
\* page and its raw file, and a finish respects the versions it expected (FinalStep).
THEOREM FinishesHold == FinalSpec => [][FinalStep]_finalVars
  BY FinalInductive, FinalSteps, PTL DEF FinalSpec

-----------------------------------------------------------------------------
(* ControlledRecompile.                                                    *)
(* A request is bound to its frozen plan, and its jobs to the hashes of that *)
(* plan.  All requests draw on one budget of attempts for a content; an    *)
(* attempt is a request and a number, and the ones counted are finitely many. *)

\* What the variables hold: jobs, pages, plans, requests.
Recompilations == [status : {"none", "queued", "awaiting", "processing", "failed", "finalized"},
                   retries : Nat, hash : Nat, base : Nat]
SourcePages == [version : Nat, stamp : Nat, owner : {"proven", "unproven"}]
Plans == [raw : [Planned -> Nat], ledger : [Planned -> Nat]]
Requests == [scope : Scopes \cup {NoScope}, stands : BOOLEAN]

\* The types of the variables.
RecompileTyped ==
    /\ bytes \in [Planned -> Nat] /\ processed \in [Planned -> Nat]
    /\ page \in [Planned -> SourcePages] /\ plan \in [Scopes -> Plans]
    /\ request \in [RequestIds -> Requests]
    /\ deferred \in [RequestIds -> SUBSET Planned]
    /\ recompiles \in [RequestIds -> [Planned -> Recompilations]]

\* A request is bound to a plan that was frozen, and its jobs are about its hashes.
BoundToPlans ==
    \A i \in RequestIds :
        /\ request[i].scope # NoScope => plan[request[i].scope] # NoPlan
        /\ \A s \in Planned : recompiles[i][s].status # "none" =>
             request[i].scope # NoScope /\ recompiles[i][s].hash = Approved(i).raw[s]

\* A source has one unfinished recompilation.
Alone ==
    \A s \in Planned, i \in RequestIds, k \in RequestIds :
        recompiles[i][s].status \in Unfinished /\ recompiles[k][s].status \in Unfinished => i = k

\* A deferred source has none, nor a failed one.
SetAside ==
    \A i \in RequestIds : \A s \in deferred[i] :
        recompiles[i][s].status \notin Unfinished \cup {"failed"}

\* The inductive invariant.
RecompileInv == RecompileTyped /\ BoundToPlans /\ Alone /\ SetAside

\* Every approval names a request.
LEMMA RequestIdsAre == \A c \in Scopes : RequestId[c] \in RequestIds
  BY DEF RequestIds

\* The invariant holds at first.
LEMMA RecompileStarts == RecompileInit => RecompileInv
<1> SUFFICES ASSUME RecompileInit PROVE RecompileInv OBVIOUS
<1>1. NoPlan \in Plans BY DEF NoPlan, Plans
<1>2. NoRecompile \in Recompilations /\ NoRecompile.status = "none"
  BY DEF NoRecompile, Recompilations
<1>3. {FirstPage("proven"), FirstPage("unproven")} \subseteq SourcePages
  BY DEF FirstPage, SourcePages
<1>4. [scope |-> NoScope, stands |-> FALSE] \in Requests BY DEF Requests
<1>5. bytes = [s \in Planned |-> 1] /\ processed = [s \in Planned |-> 0]
      /\ page \in [Planned -> {FirstPage("proven"), FirstPage("unproven")}]
      /\ plan = [c \in Scopes |-> NoPlan]
      /\ request = [i \in RequestIds |-> [scope |-> NoScope, stands |-> FALSE]]
      /\ deferred = [i \in RequestIds |-> {}]
      /\ recompiles = [i \in RequestIds |-> [s \in Planned |-> NoRecompile]]
  BY DEF RecompileInit
<1>6. RecompileTyped
  <2>1. page \in [Planned -> SourcePages] BY <1>3, <1>5
  <2>2. [s \in Planned |-> NoRecompile] \in [Planned -> Recompilations] BY <1>2
  <2>3. recompiles \in [RequestIds -> [Planned -> Recompilations]] BY <1>5, <2>2
  <2> QED BY <1>1, <1>4, <1>5, <2>1, <2>3 DEF RecompileTyped
<1>7. \A i \in RequestIds, s \in Planned : recompiles[i][s].status = "none" BY <1>2, <1>5
<1>8. \A i \in RequestIds : request[i].scope = NoScope /\ deferred[i] = {} BY <1>5
<1> QED BY <1>6, <1>7, <1>8 DEF RecompileInv, BoundToPlans, Alone, SetAside, Unfinished

(* What a step asks of the jobs when it leaves them alone.                 *)
LEMMA NothingChanges ==
    ASSUME UNCHANGED recompiles
    PROVE  RecompileStep
  BY DEF RecompileStep

(* One job takes another state; what is approved stays.                    *)
LEMMA OneJobChanges ==
    ASSUME RecompileInv, NEW i \in RequestIds, NEW s \in Planned, NEW j \in Recompilations,
           recompiles' = [recompiles EXCEPT ![i][s] = j],
           UNCHANGED <<bytes, plan, request, deferred>>,
           processed' \in [Planned -> Nat], page' \in [Planned -> SourcePages],
           recompiles[i][s].status \in Unfinished,
           j.hash = recompiles[i][s].hash, j.base = recompiles[i][s].base,
           j.status \in Unfinished \cup {"failed", "finalized"},
           j.status = "finalized" => Completes(i, s)
    PROVE  RecompileInv' /\ RecompileStep
<1>1. RecompileTyped /\ BoundToPlans /\ Alone /\ SetAside
      /\ recompiles \in [RequestIds -> [Planned -> Recompilations]]
  BY DEF RecompileInv, RecompileTyped
<1>2. /\ recompiles'[i][s] = j
      /\ \A k \in RequestIds, r \in Planned : k # i \/ r # s => recompiles'[k][r] = recompiles[k][r]
      /\ recompiles' \in [RequestIds -> [Planned -> Recompilations]]
  BY <1>1
<1>3. RecompileTyped' BY <1>1, <1>2 DEF RecompileTyped
<1>4. BoundToPlans'
  <2>1. ASSUME NEW k \in RequestIds, NEW r \in Planned, recompiles'[k][r].status # "none"
        PROVE  request[k].scope # NoScope /\ recompiles'[k][r].hash = Approved(k).raw[r]
    <3>1. CASE k = i /\ r = s BY <1>1, <1>2, <3>1 DEF BoundToPlans, Unfinished
    <3>2. CASE k # i \/ r # s BY <1>1, <1>2, <2>1, <3>2 DEF BoundToPlans
    <3> QED BY <3>1, <3>2
  <2>2. \A k \in RequestIds : Approved(k)' = Approved(k) BY DEF Approved
  <2> QED BY <1>1, <2>1, <2>2 DEF BoundToPlans
<1>5. Alone'
  <2>1. \A k \in RequestIds, r \in Planned :
           recompiles'[k][r].status \in Unfinished => recompiles[k][r].status \in Unfinished
    BY <1>2
  <2> QED BY <1>1, <2>1 DEF Alone
<1>6. SetAside'
  <2>1. s \notin deferred[i] BY <1>1 DEF SetAside
  <2>2. \A k \in RequestIds : deferred[k] \subseteq Planned BY <1>1 DEF RecompileTyped
  <2> QED BY <1>1, <1>2, <2>1, <2>2 DEF SetAside
<1>7. RecompileStep
  <2>1. ASSUME NEW k \in RequestIds, NEW r \in Planned
        PROVE  /\ recompiles[k][r].status # "finalized" /\ recompiles'[k][r].status = "finalized"
                    => Completes(k, r)
               /\ recompiles[k][r].status # "none" => recompiles'[k][r].base = recompiles[k][r].base
    <3>1. CASE k = i /\ r = s BY <1>2, <3>1
    <3>2. CASE k # i \/ r # s BY <1>2, <3>2
    <3> QED BY <3>1, <3>2
  <2> QED BY <2>1 DEF RecompileStep
<1> QED BY <1>3, <1>4, <1>5, <1>6, <1>7 DEF RecompileInv

\* A job is taken, or ends without success.
LEMMA KeepTake ==
    ASSUME RecompileInv, NEW i \in RequestIds, NEW s \in Planned, Take(i, s) \/ EndJob(i, s)
    PROVE  RecompileInv' /\ RecompileStep
<1>1. recompiles \in [RequestIds -> [Planned -> Recompilations]]
      /\ processed' \in [Planned -> Nat] /\ page' \in [Planned -> SourcePages]
  BY DEF RecompileInv, RecompileTyped, Take, EndJob
<1>2. recompiles[i][s] \in Recompilations BY <1>1
<1>3. CASE Take(i, s)
  <2> DEFINE j == [recompiles[i][s] EXCEPT !.status = "processing"]
  <2>1. j \in Recompilations /\ j.status = "processing" /\ j.hash = recompiles[i][s].hash
        /\ j.base = recompiles[i][s].base
    BY <1>2 DEF Recompilations
  <2>2. recompiles' = [recompiles EXCEPT ![i][s] = j] /\ recompiles[i][s].status = "awaiting"
        /\ UNCHANGED <<bytes, plan, request, deferred>>
    BY <1>3 DEF Take
  <2> HIDE DEF j
  <2> QED BY <1>1, <2>1, <2>2, OneJobChanges DEF Unfinished
<1>4. CASE EndJob(i, s)
  <2> DEFINE j == [recompiles[i][s] EXCEPT !.status = "failed", !.retries = @ + 1]
  <2>1. j \in Recompilations /\ j.status = "failed" /\ j.hash = recompiles[i][s].hash
        /\ j.base = recompiles[i][s].base
    <3>1. recompiles[i][s].retries \in Nat BY <1>2 DEF Recompilations
    <3>2. recompiles[i][s].retries + 1 \in Nat BY <3>1
    <3>3. j = [recompiles[i][s] EXCEPT !.status = "failed", !.retries = recompiles[i][s].retries + 1]
      OBVIOUS
    <3> QED BY <1>2, <3>2, <3>3 DEF Recompilations
  <2>2. recompiles' = [recompiles EXCEPT ![i][s] = j]
    BY <1>1, <1>4 DEF EndJob
  <2>3. recompiles[i][s].status = "processing" /\ UNCHANGED <<bytes, plan, request, deferred>>
    BY <1>4 DEF EndJob
  <2> HIDE DEF j
  <2> QED BY <1>1, <2>1, <2>2, <2>3, OneJobChanges DEF Unfinished
<1> QED BY <1>3, <1>4

\* A result is committed after the marker was validated again.
LEMMA KeepComplete ==
    ASSUME RecompileInv, NEW i \in RequestIds, NEW s \in Planned, CompleteJob(i, s)
    PROVE  RecompileInv' /\ RecompileStep
<1>1. RecompileTyped /\ recompiles[i][s] \in Recompilations
  BY DEF RecompileInv, RecompileTyped
<1> DEFINE j == [recompiles[i][s] EXCEPT !.status = "finalized"]
<1>2. j \in Recompilations /\ j.status = "finalized" /\ j.hash = recompiles[i][s].hash
      /\ j.base = recompiles[i][s].base
  BY <1>1 DEF Recompilations
<1>3. /\ recompiles[i][s].status = "processing" /\ Valid(i, s, recompiles[i][s].base)
      /\ recompiles' = [recompiles EXCEPT ![i][s] = j]
      /\ page' = [page EXCEPT ![s] = Recompiled(s, recompiles[i][s].hash)]
      /\ processed' = [processed EXCEPT ![s] = recompiles[i][s].hash]
      /\ UNCHANGED <<bytes, plan, request, deferred>>
  BY DEF CompleteJob
<1> HIDE DEF j
<1>4. page[s] \in SourcePages /\ recompiles[i][s].hash \in Nat
  BY <1>1 DEF RecompileTyped, Recompilations
<1>5. Recompiled(s, recompiles[i][s].hash) \in SourcePages BY <1>4 DEF Recompiled, SourcePages
<1>6. processed' \in [Planned -> Nat] /\ page' \in [Planned -> SourcePages]
      /\ page'[s] = Recompiled(s, recompiles[i][s].hash) /\ processed'[s] = recompiles[i][s].hash
  BY <1>1, <1>3, <1>4, <1>5 DEF RecompileTyped
<1>7. recompiles[i][s].hash = bytes[s] BY <1>3 DEF RecompileInv, BoundToPlans, Valid
<1>8. page'[s].stamp = bytes'[s] /\ page'[s].owner = "proven" BY <1>3, <1>6, <1>7 DEF Recompiled
<1>9. Completes(i, s)
  <2>1. Proven(s)' BY <1>8 DEF Proven
  <2> QED BY <1>3, <1>6, <1>7, <2>1 DEF Completes, Valid, SameState, Approved
<1> QED BY <1>2, <1>3, <1>6, <1>9, OneJobChanges DEF Unfinished

(* A request that is made binds its identity to one plan for ever.         *)
LEMMA BindingIs ==
    ASSUME RecompileInv, NEW c \in Scopes, Binds(c)
    PROVE  /\ request' \in [RequestIds -> Requests]
           /\ request'[RequestId[c]].scope = c
           /\ plan[c] # NoPlan /\ c # NoScope
           /\ request[RequestId[c]].scope \in {NoScope, c}
           /\ \A k \in RequestIds \ {RequestId[c]} : request'[k] = request[k]
<1>1. RequestId[c] \in RequestIds BY RequestIdsAre
<1>2. request \in [RequestIds -> Requests] BY DEF RecompileInv, RecompileTyped
<1>3. [scope |-> c, stands |-> TRUE] \in Requests BY DEF Requests
<1>4. request' = [request EXCEPT ![RequestId[c]] = [scope |-> c, stands |-> TRUE]]
      /\ plan[c] # NoPlan /\ request[RequestId[c]].scope \in {NoScope, c}
  BY DEF Binds
<1> QED BY <1>1, <1>2, <1>3, <1>4, RecompileAssumption

\* Binding keeps the jobs that are there bound.
LEMMA BoundStays ==
    ASSUME RecompileInv, NEW c \in Scopes, Binds(c), UNCHANGED plan,
           NEW k \in RequestIds, NEW r \in Planned, recompiles[k][r].status # "none"
    PROVE  request'[k].scope # NoScope /\ recompiles[k][r].hash = Approved(k)'.raw[r]
<1>1. request[k].scope # NoScope /\ recompiles[k][r].hash = Approved(k).raw[r]
  BY DEF RecompileInv, BoundToPlans
<1>2. request'[k].scope = request[k].scope BY <1>1, BindingIs
<1> QED BY <1>1, <1>2 DEF Approved

\* A batch is handed out for sources without other work.
LEMMA KeepDispatch ==
    ASSUME RecompileInv, NEW c \in Scopes, NEW n, Dispatch(c, n)
    PROVE  RecompileInv' /\ RecompileStep
<1> DEFINE i == RequestId[c]
           p == plan[c]
           open == {s \in Planned : ~Skipped(i, s, p.raw[s])}
           batch == {s \in open : Cardinality({r \in open : r < s}) < n}
<1>1. i \in RequestIds BY RequestIdsAre
<1>2. /\ Binds(c)
      /\ \A s \in batch : ~OtherWork(i, s) /\ s \notin deferred[i]
      /\ recompiles' = [recompiles EXCEPT ![i] =
                           [s \in Planned |-> IF s \in batch THEN Handed(i, s, p) ELSE @[s]]]
      /\ UNCHANGED <<bytes, processed, page, plan, deferred>>
  BY DEF Dispatch
<1>3. batch \subseteq Planned OBVIOUS
<1> HIDE DEF batch
<1>4. RecompileTyped /\ BoundToPlans /\ Alone /\ SetAside
      /\ recompiles \in [RequestIds -> [Planned -> Recompilations]]
      /\ page \in [Planned -> SourcePages] /\ plan \in [Scopes -> Plans]
  BY DEF RecompileInv, RecompileTyped
<1>5. ASSUME NEW s \in Planned
      PROVE  /\ Handed(i, s, p) \in Recompilations /\ Handed(i, s, p).status = "awaiting"
             /\ Handed(i, s, p).hash = p.raw[s]
             /\ recompiles[i][s].status # "none" => Handed(i, s, p).base = recompiles[i][s].base
  <2>1. recompiles[i][s] \in Recompilations /\ page[s] \in SourcePages /\ p \in Plans
    BY <1>1, <1>4
  <2>2. p.raw[s] \in Nat BY <2>1 DEF Plans
  <2>3. Base(i, s) \in Nat BY <2>1 DEF Base, Recompilations, SourcePages
  <2>4. recompiles[i][s].status # "none" => Base(i, s) = recompiles[i][s].base BY DEF Base
  <2> QED BY <2>1, <2>2, <2>3, <2>4 DEF Handed, Recompilations
<1> DEFINE batchRow == [s \in Planned |-> IF s \in batch THEN Handed(i, s, p) ELSE recompiles[i][s]]
<1>6. batchRow \in [Planned -> Recompilations] BY <1>1, <1>4, <1>5
<1>7. recompiles' = [recompiles EXCEPT ![i] = batchRow] BY <1>1, <1>2, <1>4
<1>8. \A s \in Planned : batchRow[s] = IF s \in batch THEN Handed(i, s, p) ELSE recompiles[i][s] OBVIOUS
<1> HIDE DEF batchRow
<1>9. /\ recompiles' \in [RequestIds -> [Planned -> Recompilations]]
      /\ \A k \in RequestIds \ {i} : recompiles'[k] = recompiles[k]
      /\ recompiles'[i] = batchRow
  BY <1>1, <1>4, <1>6, <1>7
<1>10. \A k \in RequestIds, s \in Planned :
          k # i \/ s \notin batch => recompiles'[k][s] = recompiles[k][s]
  BY <1>8, <1>9
<1>11. \A s \in batch : recompiles'[i][s] = Handed(i, s, p) BY <1>3, <1>8, <1>9
<1>12. RecompileTyped' BY <1>2, <1>4, <1>9, BindingIs DEF RecompileTyped
<1>13. BoundToPlans'
  <2>1. ASSUME NEW k \in RequestIds, request'[k].scope # NoScope
        PROVE  plan[request'[k].scope] # NoPlan
    <3>1. CASE k = i BY <1>2, <3>1, BindingIs
    <3>2. CASE k # i BY <1>2, <1>4, <2>1, <3>2, BindingIs DEF BoundToPlans
    <3> QED BY <3>1, <3>2
  <2>2. ASSUME NEW k \in RequestIds, NEW r \in Planned, recompiles'[k][r].status # "none"
        PROVE  request'[k].scope # NoScope /\ recompiles'[k][r].hash = Approved(k)'.raw[r]
    <3>1. CASE k = i /\ r \in batch
      <4>1. request'[k].scope = c /\ c # NoScope BY <1>2, <3>1, BindingIs
      <4>2. Approved(k)' = p BY <1>2, <4>1 DEF Approved
      <4> QED BY <1>5, <1>11, <3>1, <4>1, <4>2
    <3>2. CASE k # i \/ r \notin batch BY <1>2, <1>10, <2>2, <3>2, BoundStays
    <3> QED BY <3>1, <3>2
  <2> QED BY <1>2, <2>1, <2>2 DEF BoundToPlans
<1>14. Alone'
  <2>1. ASSUME NEW s \in batch, NEW k \in RequestIds \ {i}
        PROVE  recompiles[k][s].status \notin Unfinished
    BY <1>2 DEF OtherWork, Active
  <2>2. ASSUME NEW s \in Planned, NEW k \in RequestIds, NEW l \in RequestIds,
               recompiles'[k][s].status \in Unfinished, recompiles'[l][s].status \in Unfinished
        PROVE  k = l
    <3>1. CASE s \in batch BY <1>10, <2>1, <2>2, <3>1
    <3>2. CASE s \notin batch BY <1>4, <1>10, <2>2, <3>2 DEF Alone
    <3> QED BY <3>1, <3>2
  <2> QED BY <2>2 DEF Alone
<1>15. SetAside'
  <2>1. \A k \in RequestIds : deferred[k] \subseteq Planned BY <1>4 DEF RecompileTyped
  <2> QED BY <1>2, <1>4, <1>10, <2>1 DEF SetAside
<1>16. RecompileStep
  <2>1. ASSUME NEW k \in RequestIds, NEW r \in Planned
        PROVE  /\ recompiles[k][r].status # "finalized" /\ recompiles'[k][r].status = "finalized"
                    => Completes(k, r)
               /\ recompiles[k][r].status # "none" => recompiles'[k][r].base = recompiles[k][r].base
    <3>1. CASE k = i /\ r \in batch BY <1>5, <1>11, <3>1
    <3>2. CASE k # i \/ r \notin batch BY <1>10, <3>2
    <3> QED BY <3>1, <3>2
  <2> QED BY <2>1 DEF RecompileStep
<1> QED BY <1>12, <1>13, <1>14, <1>15, <1>16 DEF RecompileInv

\* A source without work is set aside.
LEMMA KeepDefer ==
    ASSUME RecompileInv, NEW c \in Scopes, NEW s \in Planned, Defer(c, s)
    PROVE  RecompileInv' /\ RecompileStep
<1>1. /\ Binds(c) /\ Deferrable(s) /\ deferred' = [deferred EXCEPT ![RequestId[c]] = {s}]
      /\ UNCHANGED <<bytes, processed, page, plan, recompiles, native, recompileUpsets>>
  BY DEF Defer
<1>2. RequestId[c] \in RequestIds BY RequestIdsAre
<1>3. RecompileTyped /\ BoundToPlans /\ Alone /\ SetAside BY DEF RecompileInv
<1>4. deferred' \in [RequestIds -> SUBSET Planned] /\ deferred'[RequestId[c]] = {s}
      /\ \A k \in RequestIds \ {RequestId[c]} : deferred'[k] = deferred[k]
  BY <1>1, <1>2, <1>3 DEF RecompileTyped
<1>5. RecompileTyped' BY <1>1, <1>3, <1>4, BindingIs DEF RecompileTyped
<1>6. BoundToPlans'
  <2>1. ASSUME NEW k \in RequestIds, request'[k].scope # NoScope
        PROVE  plan[request'[k].scope] # NoPlan
    <3>1. CASE k = RequestId[c] BY <1>1, <3>1, BindingIs
    <3>2. CASE k # RequestId[c] BY <1>1, <1>3, <2>1, <3>2, BindingIs DEF BoundToPlans
    <3> QED BY <3>1, <3>2
  <2>2. \A k \in RequestIds, r \in Planned : recompiles[k][r].status # "none" =>
           request'[k].scope # NoScope /\ recompiles[k][r].hash = Approved(k)'.raw[r]
    BY <1>1, BoundStays
  <2> QED BY <1>1, <2>1, <2>2 DEF BoundToPlans
<1>7. Alone' BY <1>1, <1>3 DEF Alone
<1>8. SetAside' BY <1>1, <1>3, <1>4 DEF SetAside, Deferrable
<1> QED BY <1>1, <1>5, <1>6, <1>7, <1>8, NothingChanges DEF RecompileInv

\* A plan is frozen once.
LEMMA KeepFreeze ==
    ASSUME RecompileInv, NEW c \in Scopes, Freeze(c)
    PROVE  RecompileInv' /\ RecompileStep
<1>1. /\ plan[c] = NoPlan /\ plan' = [plan EXCEPT ![c] = [raw |-> bytes, ledger |-> processed]]
      /\ UNCHANGED <<bytes, processed, page, request, deferred, recompiles, native, recompileUpsets>>
  BY DEF Freeze
<1>2. RecompileTyped /\ BoundToPlans /\ Alone /\ SetAside BY DEF RecompileInv
<1>3. [raw |-> bytes, ledger |-> processed] \in Plans BY <1>2 DEF RecompileTyped, Plans
<1>4. plan' \in [Scopes -> Plans] /\ \A d \in Scopes \ {c} : plan'[d] = plan[d]
  BY <1>1, <1>2, <1>3 DEF RecompileTyped
<1>5. RecompileTyped' BY <1>1, <1>2, <1>4 DEF RecompileTyped
<1>6. ASSUME NEW k \in RequestIds, request[k].scope # NoScope
      PROVE  plan'[request[k].scope] = plan[request[k].scope] /\ plan[request[k].scope] # NoPlan
  <2>1. request[k].scope \in Scopes BY <1>2, <1>6 DEF RecompileTyped, Requests
  <2>2. request[k].scope # c BY <1>1, <1>2, <1>6 DEF BoundToPlans
  <2> QED BY <1>2, <1>4, <1>6, <2>1, <2>2 DEF BoundToPlans
<1>7. BoundToPlans' BY <1>1, <1>2, <1>6 DEF BoundToPlans, Approved
<1>8. Alone' /\ SetAside' BY <1>1, <1>2 DEF Alone, SetAside
<1> QED BY <1>1, <1>5, <1>7, <1>8, NothingChanges DEF RecompileInv

\* A revoked request stays bound.
LEMMA KeepRevoke ==
    ASSUME RecompileInv, NEW i \in RequestIds, Revoke(i)
    PROVE  RecompileInv' /\ RecompileStep
<1>1. /\ request' = [request EXCEPT ![i].stands = FALSE]
      /\ UNCHANGED <<bytes, processed, page, plan, deferred, recompiles, native>>
  BY DEF Revoke
<1>2. RecompileTyped /\ BoundToPlans /\ Alone /\ SetAside /\ request \in [RequestIds -> Requests]
  BY DEF RecompileInv, RecompileTyped
<1>3. \A k \in RequestIds : request[k] \in Requests BY <1>2
<1> DEFINE q == [request[i] EXCEPT !.stands = FALSE]
<1>4. q \in Requests /\ q.scope = request[i].scope BY <1>3 DEF Requests
<1>5. request' = [request EXCEPT ![i] = q] BY <1>1
<1> HIDE DEF q
<1>6. request' \in [RequestIds -> Requests]
        /\ \A k \in RequestIds : request'[k].scope = request[k].scope
  BY <1>2, <1>4, <1>5
<1>7. RecompileTyped' BY <1>1, <1>2, <1>6 DEF RecompileTyped
<1>8. BoundToPlans' BY <1>1, <1>2, <1>6 DEF BoundToPlans, Approved
<1>9. Alone' /\ SetAside' BY <1>1, <1>2 DEF Alone, SetAside
<1> QED BY <1>1, <1>7, <1>8, <1>9, NothingChanges DEF RecompileInv

\* What others do to files, pages and the ledger touches no job.
LEMMA KeepOthers ==
    ASSUME RecompileInv, UNCHANGED <<plan, request, deferred, recompiles>>,
           bytes' \in [Planned -> Nat], processed' \in [Planned -> Nat],
           page' \in [Planned -> SourcePages]
    PROVE  RecompileInv' /\ RecompileStep
<1>1. RecompileTyped' BY DEF RecompileInv, RecompileTyped
<1>2. BoundToPlans' /\ Alone' /\ SetAside'
  BY DEF RecompileInv, BoundToPlans, Alone, SetAside, Approved
<1> QED BY <1>1, <1>2, NothingChanges DEF RecompileInv

\* Ordinary ingest and edits.
LEMMA KeepNative ==
    ASSUME RecompileInv, NEW s \in Planned,
           NativeStart(s) \/ NativeEnd(s) \/ EditSource(s) \/ EditPage(s)
    PROVE  RecompileInv' /\ RecompileStep
<1>1. bytes \in [Planned -> Nat] /\ processed \in [Planned -> Nat]
        /\ page \in [Planned -> SourcePages]
  BY DEF RecompileInv, RecompileTyped
<1>2. page[s] \in SourcePages /\ bytes[s] \in Nat BY <1>1
<1>3. CASE NativeStart(s) BY <1>1, <1>3, KeepOthers DEF NativeStart
<1>4. CASE NativeEnd(s)
  <2>1. Recompiled(s, bytes[s]) \in SourcePages BY <1>2 DEF Recompiled, SourcePages
  <2>2. processed' \in [Planned -> Nat] /\ page' \in [Planned -> SourcePages]
    BY <1>1, <1>2, <1>4, <2>1 DEF NativeEnd
  <2> QED BY <1>1, <1>4, <2>2, KeepOthers DEF NativeEnd
<1>5. CASE EditSource(s)
  <2>1. PICK v \in RawVersions : bytes' = [bytes EXCEPT ![s] = v] BY <1>5 DEF EditSource
  <2>2. bytes' \in [Planned -> Nat] BY <1>1, <2>1, RecompileAssumption
  <2> QED BY <1>1, <1>5, <2>2, KeepOthers DEF EditSource
<1>6. CASE EditPage(s)
  <2>1. PICK owner \in {"proven", "unproven"} :
           page' = [page EXCEPT ![s] = [page[s] EXCEPT !.version = @ + 1, !.owner = owner]]
    BY <1>6 DEF EditPage
  <2> DEFINE c == [page[s] EXCEPT !.version = page[s].version + 1, !.owner = owner]
  <2>2. c \in SourcePages
    <3>1. page[s].version \in Nat BY <1>2 DEF SourcePages
    <3>2. page[s].version + 1 \in Nat BY <3>1
    <3> QED BY <1>2, <3>2 DEF SourcePages
  <2>3. page' = [page EXCEPT ![s] = c] BY <1>1, <2>1
  <2> HIDE DEF c
  <2>4. page' \in [Planned -> SourcePages] BY <1>1, <2>2, <2>3
  <2> QED BY <1>1, <1>6, <2>4, KeepOthers DEF EditPage
<1> QED BY <1>3, <1>4, <1>5, <1>6

\* Every step keeps the invariant and does what RecompileStep says.
LEMMA RecompileSteps == RecompileInv /\ [RecompileNext]_recompileVars => RecompileInv'
                          /\ RecompileStep
<1> SUFFICES ASSUME RecompileInv, [RecompileNext]_recompileVars
             PROVE  RecompileInv' /\ RecompileStep
  OBVIOUS
<1>1. ASSUME NEW c \in Scopes, Freeze(c) \/ \E n \in 1 .. Cardinality(Planned) : Dispatch(c, n)
      PROVE  RecompileInv' /\ RecompileStep
  BY <1>1, KeepFreeze, KeepDispatch
<1>2. ASSUME NEW c \in Scopes, NEW s \in Planned, Defer(c, s)
      PROVE  RecompileInv' /\ RecompileStep
  BY <1>2, KeepDefer
<1>3. ASSUME NEW i \in RequestIds, Revoke(i) PROVE RecompileInv' /\ RecompileStep
  BY <1>3, KeepRevoke
<1>4. ASSUME NEW i \in RequestIds, NEW s \in Planned, Take(i, s) \/ EndJob(i, s) \/ CompleteJob(i, s)
      PROVE  RecompileInv' /\ RecompileStep
  BY <1>4, KeepTake, KeepComplete
<1>5. ASSUME NEW s \in Planned, NativeStart(s) \/ NativeEnd(s) \/ EditSource(s) \/ EditPage(s)
      PROVE  RecompileInv' /\ RecompileStep
  BY <1>5, KeepNative
<1>6. CASE UNCHANGED recompileVars
  <2>1. UNCHANGED <<plan, request, deferred, recompiles, bytes, processed, page>>
    BY <1>6 DEF recompileVars
  <2>2. bytes' \in [Planned -> Nat] /\ processed' \in [Planned -> Nat]
          /\ page' \in [Planned -> SourcePages]
    BY <2>1 DEF RecompileInv, RecompileTyped
  <2> QED BY <2>1, <2>2, KeepOthers
<1> QED BY <1>1, <1>2, <1>3, <1>4, <1>5, <1>6 DEF RecompileNext

(* The attempts of a table of jobs, which the steps of the budget are about. *)
AttemptsOf(r, s, hash) ==
    UNION {{k} \X (1 .. r[k][s].retries) : k \in {i \in RequestIds : r[i][s].hash = hash}}

\* How many they are.
SpentOf(r, s, hash) == Cardinality(AttemptsOf(r, s, hash))

\* The tables of jobs.
Recompiling == [RequestIds -> [Planned -> Recompilations]]

\* Of a table of jobs: no content costs more than the budget, and an unfinished job
\* has an attempt left.
BudgetOf(r) ==
    /\ \A i \in RequestIds, s \in Planned :
         /\ r[i][s].retries <= MaxAttempts
         /\ r[i][s].status = "none" => r[i][s].retries = 0
         /\ r[i][s].status \in Unfinished =>
              r[i][s].retries < MaxAttempts /\ SpentOf(r, s, r[i][s].hash) < MaxAttempts
    /\ \A s \in Planned, hash \in Nat : SpentOf(r, s, hash) <= MaxAttempts

\* Of the table as it is.
Budgeted == BudgetOf(recompiles)

\* An attempt is one of a request at the content.
LEMMA AttemptIs ==
    ASSUME NEW r, NEW s, NEW hash, NEW x
    PROVE  x \in AttemptsOf(r, s, hash) <=>
             \E k \in RequestIds : \E n \in 1 .. r[k][s].retries :
                 r[k][s].hash = hash /\ x = <<k, n>>
<1>1. \A k, n : x \in {k} \X (1 .. n) <=> \E m \in 1 .. n : x = <<k, m>> OBVIOUS
<1> QED BY <1>1 DEF AttemptsOf

\* There are finitely many requests,
LEMMA FewRequests == IsFiniteSet(RequestIds)
<1> DEFINE f == [c \in Scopes |-> RequestId[c]]
<1>1. f \in Surjection(Scopes, RequestIds) BY DEF Surjection, RequestIds
<1> QED BY <1>1, FS_Surjection, RecompileAssumption

\* hence finitely many attempts.
LEMMA FewAttempts ==
    ASSUME NEW r \in Recompiling, BudgetOf(r), NEW s \in Planned, NEW hash
    PROVE  IsFiniteSet(AttemptsOf(r, s, hash)) /\ SpentOf(r, s, hash) \in Nat
<1>1. MaxAttempts \in Nat BY RecompileAssumption
<1>2. IsFiniteSet(RequestIds \X (1 .. MaxAttempts))
  <2>1. IsFiniteSet(1 .. MaxAttempts) BY <1>1, FS_Interval
  <2> QED BY <2>1, FewRequests, FS_Product
<1>3. ASSUME NEW x \in AttemptsOf(r, s, hash) PROVE x \in RequestIds \X (1 .. MaxAttempts)
  <2>1. PICK k \in RequestIds : \E n \in 1 .. r[k][s].retries : x = <<k, n>> BY <1>3, AttemptIs
  <2>2. r[k][s].retries \in Nat BY DEF Recompiling, Recompilations
  <2>3. r[k][s].retries <= MaxAttempts BY DEF BudgetOf
  <2>4. PICK n \in 1 .. r[k][s].retries : x = <<k, n>> BY <2>1
  <2>5. n \in 1 .. MaxAttempts BY <1>1, <2>2, <2>3
  <2> QED BY <2>4, <2>5
<1>4. IsFiniteSet(AttemptsOf(r, s, hash)) BY <1>2, <1>3, FS_Subset
<1> QED BY <1>4, FS_CardinalityType DEF SpentOf

\* What is spent is the same when every job keeps its attempts and their content.
LEMMA SameSpent ==
    ASSUME NEW r \in Recompiling, NEW q \in Recompiling, NEW s \in Planned,
           \A k \in RequestIds :
               /\ q[k][s].retries = r[k][s].retries
               /\ r[k][s].retries = 0 \/ q[k][s].hash = r[k][s].hash
    PROVE  \A hash : SpentOf(q, s, hash) = SpentOf(r, s, hash)
<1>1. ASSUME NEW hash, NEW x PROVE x \in AttemptsOf(q, s, hash) <=> x \in AttemptsOf(r, s, hash)
  <2>1. \A k \in RequestIds : \A n \in 1 .. r[k][s].retries : q[k][s].hash = r[k][s].hash
    OBVIOUS
  <2>2. \A k \in RequestIds : 1 .. r[k][s].retries = 1 .. q[k][s].retries OBVIOUS
  <2>3. x \in AttemptsOf(q, s, hash) <=> \E k \in RequestIds : \E n \in 1 .. r[k][s].retries :
           q[k][s].hash = hash /\ x = <<k, n>>
    BY <2>2, AttemptIs
  <2>4. x \in AttemptsOf(r, s, hash) <=> \E k \in RequestIds : \E n \in 1 .. r[k][s].retries :
           r[k][s].hash = hash /\ x = <<k, n>>
    BY AttemptIs
  <2> QED BY <2>1, <2>3, <2>4
<1>2. \A hash : AttemptsOf(q, s, hash) = AttemptsOf(r, s, hash) BY <1>1
<1> QED BY <1>2 DEF SpentOf

(* Nothing is spent; a job that becomes unfinished has attempts left.      *)
LEMMA BudgetStays ==
    ASSUME NEW r \in Recompiling, NEW q \in Recompiling, BudgetOf(r),
           \A k \in RequestIds, s \in Planned :
               /\ q[k][s].retries = r[k][s].retries
               /\ r[k][s].retries = 0 \/ q[k][s].hash = r[k][s].hash
               /\ q[k][s].status = "none" => r[k][s].status = "none"
               /\ q[k][s].status \in Unfinished =>
                    r[k][s].retries < MaxAttempts /\ SpentOf(r, s, q[k][s].hash) < MaxAttempts
    PROVE  BudgetOf(q)
<1>1. \A s \in Planned : \A hash : SpentOf(q, s, hash) = SpentOf(r, s, hash) BY SameSpent
<1> QED BY <1>1 DEF BudgetOf

(* One more attempt at one content, by the only unfinished job of its source. *)
LEMMA BudgetGrows ==
    ASSUME NEW r \in Recompiling, NEW q \in Recompiling, BudgetOf(r),
           NEW i \in RequestIds, NEW s \in Planned, r[i][s].status \in Unfinished,
           q[i][s].retries = r[i][s].retries + 1, q[i][s].hash = r[i][s].hash,
           q[i][s].status = "failed",
           \A k \in RequestIds, t \in Planned : k # i \/ t # s => q[k][t] = r[k][t],
           \A k \in RequestIds : r[k][s].status \in Unfinished => k = i
    PROVE  BudgetOf(q)
<1>1. MaxAttempts \in Nat BY RecompileAssumption
<1>2. ASSUME NEW t \in Planned, t # s PROVE \A hash : SpentOf(q, t, hash) = SpentOf(r, t, hash)
  BY <1>2, SameSpent
<1> DEFINE h == r[i][s].hash
           n == r[i][s].retries
<1>3. n \in Nat /\ h \in Nat BY DEF Recompiling, Recompilations
<1>4. n < MaxAttempts /\ SpentOf(r, s, h) < MaxAttempts BY DEF BudgetOf
<1>5. ASSUME NEW hash, NEW x
      PROVE  x \in AttemptsOf(q, s, hash) <=>
               x \in AttemptsOf(r, s, hash) \/ (hash = h /\ x = <<i, n + 1>>)
  <2>1. q[i][s].retries = n + 1 /\ q[i][s].hash = h OBVIOUS
  <2>2. \A m : m \in 1 .. n + 1 <=> m \in 1 .. n \/ m = n + 1 BY <1>3
  <2>3. \A k \in RequestIds \ {i} : q[k][s] = r[k][s] OBVIOUS
  <2> DEFINE In(u, k) == \E m \in 1 .. u[k][s].retries : u[k][s].hash = hash /\ x = <<k, m>>
  <2>4. x \in AttemptsOf(q, s, hash) <=> \E k \in RequestIds : In(q, k) BY AttemptIs
  <2>5. x \in AttemptsOf(r, s, hash) <=> \E k \in RequestIds : In(r, k) BY AttemptIs
  <2>6. \A k \in RequestIds \ {i} : In(q, k) <=> In(r, k) BY <2>3
  <2>7. In(q, i) <=> In(r, i) \/ (hash = h /\ x = <<i, n + 1>>) BY <2>1, <2>2
  <2> HIDE DEF In
  <2> QED BY <2>4, <2>5, <2>6, <2>7
<1> HIDE DEF h, n
<1>6. ASSUME NEW hash, hash # h PROVE AttemptsOf(q, s, hash) = AttemptsOf(r, s, hash)
  <2>1. \A x : x \in AttemptsOf(q, s, hash) <=> x \in AttemptsOf(r, s, hash) BY <1>5, <1>6
  <2> QED BY <2>1
<1>7. AttemptsOf(q, s, h) = AttemptsOf(r, s, h) \cup {<<i, n + 1>>} BY <1>5
<1>8. IsFiniteSet(AttemptsOf(r, s, h)) /\ SpentOf(r, s, h) \in Nat BY FewAttempts
<1>9. SpentOf(q, s, h) <= SpentOf(r, s, h) + 1
  <2>1. Cardinality(AttemptsOf(r, s, h) \cup {<<i, n + 1>>}) =
          IF <<i, n + 1>> \in AttemptsOf(r, s, h) THEN Cardinality(AttemptsOf(r, s, h))
          ELSE Cardinality(AttemptsOf(r, s, h)) + 1
    BY <1>8, FS_AddElement
  <2> QED BY <1>7, <1>8, <2>1 DEF SpentOf
<1>10. SpentOf(q, s, h) <= MaxAttempts
  <2>1. IsFiniteSet(AttemptsOf(q, s, h)) BY <1>7, <1>8, FS_AddElement
  <2>2. SpentOf(q, s, h) \in Nat BY <2>1, FS_CardinalityType DEF SpentOf
  <2> QED BY <1>1, <1>4, <1>8, <1>9, <2>2
<1>11. ASSUME NEW t \in Planned, NEW hash \in Nat PROVE SpentOf(q, t, hash) <= MaxAttempts
  <2>1. CASE t # s BY <1>2, <2>1 DEF BudgetOf
  <2>2. CASE t = s /\ hash # h BY <1>6, <2>2 DEF BudgetOf, SpentOf
  <2>3. CASE t = s /\ hash = h BY <1>10, <2>3
  <2> QED BY <2>1, <2>2, <2>3
<1>12. ASSUME NEW k \in RequestIds, NEW t \in Planned
       PROVE  /\ q[k][t].retries <= MaxAttempts
              /\ q[k][t].status = "none" => q[k][t].retries = 0
              /\ q[k][t].status \in Unfinished =>
                   q[k][t].retries < MaxAttempts /\ SpentOf(q, t, q[k][t].hash) < MaxAttempts
  <2>1. CASE k = i /\ t = s BY <1>1, <1>3, <1>4, <2>1 DEF Unfinished, n
  <2>2. CASE k # i /\ t = s BY <2>2 DEF BudgetOf
  <2>3. CASE t # s BY <1>2, <2>3 DEF BudgetOf
  <2> QED BY <2>1, <2>2, <2>3
<1> QED BY <1>11, <1>12 DEF BudgetOf

\* At first nothing is spent.
LEMMA BudgetStarts == RecompileInit => Budgeted
<1> SUFFICES ASSUME RecompileInit PROVE Budgeted OBVIOUS
<1>1. MaxAttempts \in Nat BY RecompileAssumption
<1>2. \A i \in RequestIds, s \in Planned :
         recompiles[i][s].status = "none" /\ recompiles[i][s].retries = 0
  BY DEF RecompileInit, NoRecompile
<1>3. ASSUME NEW s \in Planned, NEW hash PROVE SpentOf(recompiles, s, hash) = 0
  <2>1. \A x : x \notin AttemptsOf(recompiles, s, hash) BY <1>2, AttemptIs
  <2>2. AttemptsOf(recompiles, s, hash) = {} BY <2>1
  <2> QED BY <2>2, FS_EmptySet DEF SpentOf
<1> QED BY <1>1, <1>2, <1>3 DEF Budgeted, BudgetOf, Unfinished

\* The jobs are such a table.
LEMMA BudgetTables == RecompileInv => recompiles \in Recompiling
  BY DEF RecompileInv, RecompileTyped, Recompiling

\* Only a job that ends spends an attempt, and it had one left.
LEMMA BudgetJobs ==
    ASSUME RecompileInv, RecompileInv', Budgeted, NEW i \in RequestIds, NEW s \in Planned,
           Take(i, s) \/ EndJob(i, s) \/ CompleteJob(i, s)
    PROVE  Budgeted'
<1>1. recompiles \in Recompiling /\ recompiles' \in Recompiling
  BY BudgetTables DEF RecompileInv, RecompileTyped, Recompiling
<1>2. recompiles[i][s].status \in Unfinished
      /\ \A k \in RequestIds, t \in Planned : k # i \/ t # s => recompiles'[k][t] = recompiles[k][t]
  BY <1>1 DEF Take, EndJob, CompleteJob, Unfinished, Recompiling
<1>3. BudgetOf(recompiles) BY DEF Budgeted
<1>4. recompiles[i] \in [Planned -> Recompilations] /\ recompiles[i][s] \in Recompilations
  BY <1>1 DEF Recompiling
<1>5. CASE Take(i, s) \/ CompleteJob(i, s)
  <2>1. recompiles'[i][s].retries = recompiles[i][s].retries
        /\ recompiles'[i][s].hash = recompiles[i][s].hash /\ recompiles'[i][s].status # "none"
    BY <1>1, <1>4, <1>5 DEF Take, CompleteJob, Recompiling, Recompilations
  <2>2. ASSUME NEW k \in RequestIds, NEW t \in Planned
        PROVE  /\ recompiles'[k][t].retries = recompiles[k][t].retries
               /\ recompiles'[k][t].hash = recompiles[k][t].hash
               /\ recompiles'[k][t].status = "none" => recompiles[k][t].status = "none"
               /\ recompiles'[k][t].status \in Unfinished => recompiles[k][t].status \in Unfinished
    <3>1. CASE k = i /\ t = s BY <1>2, <2>1, <3>1
    <3>2. CASE k # i \/ t # s BY <1>2, <3>2
    <3> QED BY <3>1, <3>2
  <2>3. \A k \in RequestIds, t \in Planned : recompiles'[k][t].status \in Unfinished =>
           recompiles[k][t].retries < MaxAttempts
           /\ SpentOf(recompiles, t, recompiles'[k][t].hash) < MaxAttempts
    BY <1>3, <2>2 DEF BudgetOf
  <2>4. BudgetOf(recompiles') BY <1>1, <1>3, <2>2, <2>3, BudgetStays
  <2> QED BY <2>4 DEF Budgeted
<1>6. CASE EndJob(i, s)
  <2>1. recompiles'[i][s].retries = recompiles[i][s].retries + 1
        /\ recompiles'[i][s].hash = recompiles[i][s].hash /\ recompiles'[i][s].status = "failed"
    BY <1>1, <1>4, <1>6 DEF EndJob, Recompiling, Recompilations
  <2>2. \A k \in RequestIds : recompiles[k][s].status \in Unfinished => k = i
    BY <1>2 DEF RecompileInv, Alone
  <2>3. BudgetOf(recompiles') BY <1>1, <1>2, <1>3, <2>1, <2>2, BudgetGrows
  <2> QED BY <2>3 DEF Budgeted
<1> QED BY <1>5, <1>6

\* A job that is handed out again keeps its attempts and its content.
LEMMA BudgetDispatch ==
    ASSUME RecompileInv, RecompileInv', Budgeted, NEW c \in Scopes, NEW n, Dispatch(c, n)
    PROVE  Budgeted'
<1> DEFINE i == RequestId[c]
           p == plan[c]
           open == {s \in Planned : ~Skipped(i, s, p.raw[s])}
           batch == {s \in open : Cardinality({r \in open : r < s}) < n}
<1>1. i \in RequestIds BY RequestIdsAre
<1>2. /\ Binds(c)
      /\ \A s \in batch : ~OtherWork(i, s)
      /\ recompiles' = [recompiles EXCEPT ![i] =
                           [s \in Planned |-> IF s \in batch THEN Handed(i, s, p) ELSE @[s]]]
  BY DEF Dispatch
<1>3. \A s \in batch : s \in Planned /\ ~Skipped(i, s, p.raw[s]) OBVIOUS
<1> HIDE DEF batch
<1>4. recompiles \in Recompiling /\ recompiles' \in Recompiling
  BY BudgetTables DEF RecompileInv, RecompileTyped, Recompiling
<1>5. \A k \in RequestIds, s \in Planned :
         recompiles'[k][s] = IF k = i /\ s \in batch THEN Handed(i, s, p) ELSE recompiles[k][s]
  BY <1>1, <1>2, <1>4 DEF Recompiling
<1>6. BudgetOf(recompiles) BY DEF Budgeted
<1>7. MaxAttempts \in Nat BY RecompileAssumption
<1>8. ASSUME NEW s \in batch
      PROVE  /\ Handed(i, s, p).retries = recompiles[i][s].retries
             /\ recompiles[i][s].retries = 0 \/ Handed(i, s, p).hash = recompiles[i][s].hash
             /\ Handed(i, s, p).status = "awaiting"
             /\ recompiles[i][s].retries < MaxAttempts
             /\ SpentOf(recompiles, s, Handed(i, s, p).hash) < MaxAttempts
  <2>1. s \in Planned /\ recompiles[i][s] \in Recompilations BY <1>1, <1>3, <1>4 DEF Recompiling
  <2>2. Handed(i, s, p).retries = recompiles[i][s].retries /\ Handed(i, s, p).status = "awaiting"
        /\ Handed(i, s, p).hash = p.raw[s]
    BY <2>1 DEF Handed, Recompilations
  <2>3. recompiles[i][s].status # "none" => recompiles[i][s].hash = p.raw[s]
    <3>1. request[i].scope \in {NoScope, c} BY <1>2, BindingIs
    <3> QED BY <1>1, <2>1, <3>1 DEF RecompileInv, BoundToPlans, Approved
  <2>4. recompiles[i][s].status = "none" => recompiles[i][s].retries = 0
    BY <1>1, <1>6, <2>1 DEF BudgetOf
  <2>5. ~(recompiles[i][s].retries >= MaxAttempts) /\ ~(Spent(s, p.raw[s]) >= MaxAttempts)
    BY <1>2, <1>3 DEF Skipped
  <2>6. Spent(s, p.raw[s]) = SpentOf(recompiles, s, p.raw[s])
    BY DEF Spent, SpentOf, Attempts, AttemptsOf
  <2>7. SpentOf(recompiles, s, p.raw[s]) \in Nat BY <1>4, <1>6, <2>1, FewAttempts
  <2>8. recompiles[i][s].retries \in Nat BY <2>1 DEF Recompilations
  <2> QED BY <1>7, <2>2, <2>3, <2>4, <2>5, <2>6, <2>7, <2>8
<1>9. ASSUME NEW k \in RequestIds, NEW s \in Planned
      PROVE  /\ recompiles'[k][s].retries = recompiles[k][s].retries
             /\ recompiles[k][s].retries = 0 \/ recompiles'[k][s].hash = recompiles[k][s].hash
             /\ recompiles'[k][s].status = "none" => recompiles[k][s].status = "none"
             /\ recompiles'[k][s].status \in Unfinished =>
                  recompiles[k][s].retries < MaxAttempts
                  /\ SpentOf(recompiles, s, recompiles'[k][s].hash) < MaxAttempts
  <2>1. CASE k = i /\ s \in batch BY <1>5, <1>8, <2>1
  <2>2. CASE ~(k = i /\ s \in batch)
    <3>1. recompiles'[k][s] = recompiles[k][s] BY <1>5, <2>2
    <3> QED BY <1>6, <3>1 DEF BudgetOf
  <2> QED BY <2>1, <2>2
<1>10. BudgetOf(recompiles') BY <1>4, <1>6, <1>9, BudgetStays
<1> QED BY <1>10 DEF Budgeted

\* Every step keeps the budget.
LEMMA BudgetSteps ==
    RecompileInv /\ RecompileInv' /\ Budgeted /\ [RecompileNext]_recompileVars => Budgeted'
<1> SUFFICES ASSUME RecompileInv, RecompileInv', Budgeted, [RecompileNext]_recompileVars
             PROVE  Budgeted'
  OBVIOUS
<1>1. ASSUME UNCHANGED recompiles PROVE Budgeted' BY <1>1 DEF Budgeted
<1>2. ASSUME NEW c \in Scopes, NEW n, Dispatch(c, n) PROVE Budgeted' BY <1>2, BudgetDispatch
<1>3. ASSUME NEW i \in RequestIds, NEW s \in Planned, Take(i, s) \/ EndJob(i, s) \/ CompleteJob(i, s)
      PROVE  Budgeted'
  BY <1>3, BudgetJobs
<1>4. ASSUME NEW c \in Scopes, NEW s \in Planned, Freeze(c) \/ Defer(c, s) PROVE Budgeted'
  BY <1>1, <1>4 DEF Freeze, Defer
<1>5. ASSUME NEW c \in Scopes, Freeze(c) PROVE Budgeted' BY <1>1, <1>5 DEF Freeze
<1>6. ASSUME NEW i \in RequestIds, Revoke(i) PROVE Budgeted' BY <1>1, <1>6 DEF Revoke
<1>7. ASSUME NEW s \in Planned, NativeStart(s) \/ NativeEnd(s) \/ EditSource(s) \/ EditPage(s)
      PROVE  Budgeted'
  BY <1>1, <1>7 DEF NativeStart, NativeEnd, EditSource, EditPage
<1>8. CASE UNCHANGED recompileVars BY <1>1, <1>8 DEF recompileVars
<1> QED BY <1>2, <1>3, <1>4, <1>5, <1>6, <1>7, <1>8 DEF RecompileNext

\* The invariant of the recompilations always holds.
THEOREM RecompileInductive == RecompileSpec => []RecompileInv
  BY RecompileStarts, RecompileSteps, PTL DEF RecompileSpec

\* A source has at most one unfinished recompilation, and none when deferred.
THEOREM OneRecompileAtATime == RecompileSpec => []OneAtATime
<1>1. RecompileInv => OneAtATime
  <2> SUFFICES ASSUME RecompileInv PROVE OneAtATime OBVIOUS
  <2>1. ASSUME NEW s \in Planned
        PROVE  Cardinality({i \in RequestIds : recompiles[i][s].status \in Unfinished}) <= 1
    <3> DEFINE S == {i \in RequestIds : recompiles[i][s].status \in Unfinished}
    <3>1. \A x, y \in S : x = y BY DEF RecompileInv, Alone
    <3> HIDE DEF S
    <3>2. Cardinality(S) <= 1 BY <3>1, AtMostOne
    <3> QED BY <3>2 DEF S
  <2>2. \A i \in RequestIds, s \in Planned :
           s \in deferred[i] => recompiles[i][s].status \notin Unfinished \cup {"failed"}
    BY DEF RecompileInv, SetAside
  <2> QED BY <2>1, <2>2 DEF OneAtATime
<1> QED BY <1>1, RecompileInductive, PTL

\* All requests together spend at most the attempts of a content: BudgetIsShared, for
\* every number of sources, approvals and attempts.
THEOREM BudgetIsAlwaysShared == RecompileSpec => []BudgetIsShared
<1>1. RecompileSpec => []Budgeted
  <2> DEFINE Both == RecompileInv /\ Budgeted
  <2>1. RecompileInit => Both BY RecompileStarts, BudgetStarts
  <2>2. Both /\ [RecompileNext]_recompileVars => Both' BY RecompileSteps, BudgetSteps
  <2>3. Both => Budgeted OBVIOUS
  <2> QED BY <2>1, <2>2, <2>3, PTL DEF RecompileSpec
<1>2. Budgeted => BudgetIsShared
  BY RecompileAssumption
     DEF Budgeted, BudgetOf, BudgetIsShared, Spent, SpentOf, Attempts, AttemptsOf
<1> QED BY <1>1, <1>2, PTL

\* What is completed is what was approved, of the bytes and the ledger entry of the
\* plan, and no approval gets a newer page to replace (RecompileStep).
THEOREM RecompilesHold == RecompileSpec => [][RecompileStep]_recompileVars
  BY RecompileInductive, RecompileSteps, PTL DEF RecompileSpec

-----------------------------------------------------------------------------
(* TimelineProjection.                                                     *)
(* The projection is that of the claims unless a pass over them was overtaken *)
(* by a rewrite; a rewrite replaces the rows of its claim whatever it finds. *)

\* The types of the variables.
TimelineShape ==
    /\ wording \in [TimelineClaims -> Wordings \cup {NoClaim}]
    /\ rowid = [c \in TimelineClaims |-> rowid[c]]
    /\ event \in [Events -> {"none", "legacy", "full"}]
    /\ task = [x \in Searchers \cup Keepers |-> task[x]]
    /\ rewrites \in Nat

\* The inductive invariant.
TimelineInv == TimelineShape /\ TimelineFollows

\* Events are claims with a wording.
LEMMA EventsAre == Events = TimelineClaims \X Wordings /\ Actual \subseteq Events
                     /\ Claimed = {<<c, wording[c]>> : c \in Live}
  BY DEF Events, Actual, Claimed

\* What clearing a claim leaves of the table.
LEMMA WithoutIs ==
    ASSUME TimelineShape, NEW c \in TimelineClaims
    PROVE  /\ Cleared(c) \in [Events -> {"none", "legacy", "full"}]
           /\ \A e \in Events : e[1] # c => Cleared(c)[e] = event[e]
           /\ \A e \in Events : c \in Live /\ e[1] = c /\ (event[e] = "full" \/ e[2] = wording[c])
                 => Cleared(c)[e] = "none"
           /\ \A e \in Events : Cleared(c)[e] \in {"none", event[e]}
  BY DEF Cleared, Ours, TimelineShape

\* What a rewrite leaves of the tables: the claim's row, new and complete.
LEMMA RewriteIs ==
    ASSUME TimelineShape, NEW c \in TimelineClaims, RewriteClaim(c)
    PROVE  /\ \A d \in TimelineClaims \ {c} : wording'[d] = wording[d] /\ rowid'[d] = rowid[d]
           /\ event' \in [Events -> {"none", "legacy", "full"}]
           /\ \A e \in Events : event'[e] = IF e[1] = c /\ e[2] = wording'[c] THEN "full"
                                            ELSE Cleared(c)[e]
           /\ wording' \in [TimelineClaims -> Wordings \cup {NoClaim}]
           /\ rowid' = [d \in TimelineClaims |-> rowid'[d]]
           /\ UNCHANGED <<task, overtaken>> /\ rewrites' \in Nat
<1>1. wording \in [TimelineClaims -> Wordings \cup {NoClaim}] /\ rewrites \in Nat
      /\ rowid = [d \in TimelineClaims |-> rowid[d]]
  BY DEF TimelineShape
<1>2. UNCHANGED <<task, overtaken>> /\ rewrites' \in Nat BY <1>1 DEF RewriteClaim
<1>3. ASSUME NEW w \in Wordings, wording' = [wording EXCEPT ![c] = w], event' = Synced(c, w),
             rowid' = [rowid EXCEPT ![c] = Highest(Live \ {c}) + 1]
      PROVE  /\ \A d \in TimelineClaims \ {c} : wording'[d] = wording[d] /\ rowid'[d] = rowid[d]
             /\ event' \in [Events -> {"none", "legacy", "full"}]
             /\ \A e \in Events : event'[e] = IF e[1] = c /\ e[2] = wording'[c] THEN "full"
                                              ELSE Cleared(c)[e]
             /\ wording' \in [TimelineClaims -> Wordings \cup {NoClaim}]
             /\ rowid' = [d \in TimelineClaims |-> rowid'[d]]
  <2>1. wording'[c] = w /\ \A d \in TimelineClaims \ {c} : wording'[d] = wording[d]
          /\ rowid'[d] = rowid[d]
    BY <1>1, <1>3
  <2>2. <<c, w>> \in Events /\ Events = TimelineClaims \X Wordings BY DEF Events
  <2>3. event' \in [Events -> {"none", "legacy", "full"}] BY <1>3, <2>2, WithoutIs DEF Synced
  <2>4. \A e \in Events : event'[e] = IF e = <<c, w>> THEN "full" ELSE Cleared(c)[e]
    BY <1>3, <2>2, WithoutIs DEF Synced
  <2>5. \A e \in Events : e = <<c, w>> <=> e[1] = c /\ e[2] = w BY <2>2
  <2>6. rowid' = [d \in TimelineClaims |-> rowid'[d]] BY <1>1, <1>3
  <2>7. wording' \in [TimelineClaims -> Wordings \cup {NoClaim}] BY <1>1, <1>3
  <2> QED BY <2>1, <2>3, <2>4, <2>5, <2>6, <2>7
<1>4. ASSUME wording' = [wording EXCEPT ![c] = NoClaim], event' = Cleared(c), UNCHANGED rowid
      PROVE  /\ \A d \in TimelineClaims \ {c} : wording'[d] = wording[d] /\ rowid'[d] = rowid[d]
             /\ event' \in [Events -> {"none", "legacy", "full"}]
             /\ \A e \in Events : event'[e] = IF e[1] = c /\ e[2] = wording'[c] THEN "full"
                                              ELSE Cleared(c)[e]
             /\ wording' \in [TimelineClaims -> Wordings \cup {NoClaim}]
             /\ rowid' = [d \in TimelineClaims |-> rowid'[d]]
  <2>1. wording'[c] = NoClaim /\ \A d \in TimelineClaims \ {c} : wording'[d] = wording[d]
    BY <1>1, <1>4
  <2>2. \A e \in Events : e[2] # NoClaim BY TimelineAssumption DEF Events
  <2> QED BY <1>1, <1>4, <2>1, <2>2, WithoutIs
<1> QED BY <1>2, <1>3, <1>4 DEF RewriteClaim

\* The table agrees with the claims when it has their wordings and no others.
LEMMA Agreement ==
    ASSUME wording \in [TimelineClaims -> Wordings \cup {NoClaim}]
    PROVE  Actual = Claimed <=> \A e \in Events : event[e] # "none" <=> wording[e[1]] = e[2]
<1>1. \A c \in TimelineClaims : wording[c] # NoClaim => <<c, wording[c]>> \in Events
  BY DEF Events
<1>2. \A e \in Events : e[1] \in TimelineClaims /\ e[2] # NoClaim /\ e = <<e[1], e[2]>>
  BY TimelineAssumption DEF Events
<1>3. \A e \in Events : e \in Claimed <=> wording[e[1]] = e[2]
  BY <1>2 DEF Claimed, Live
<1>4. Claimed \subseteq Events BY <1>1 DEF Claimed, Live
<1> QED BY <1>3, <1>4 DEF Actual

\* The tables agree when each event is that of its claim.
LEMMA AgreementNext ==
    ASSUME wording' \in [TimelineClaims -> Wordings \cup {NoClaim}]
    PROVE  Actual' = Claimed' <=> \A e \in Events : event'[e] # "none" <=> wording'[e[1]] = e[2]
<1>1. \A c \in TimelineClaims : wording'[c] # NoClaim => <<c, wording'[c]>> \in Events
  BY DEF Events
<1>2. \A e \in Events : e[1] \in TimelineClaims /\ e[2] # NoClaim /\ e = <<e[1], e[2]>>
  BY TimelineAssumption DEF Events
<1>3. \A e \in Events : e \in Claimed' <=> wording'[e[1]] = e[2]
  BY <1>2 DEF Claimed, Live
<1>4. Claimed' \subseteq Events BY <1>1 DEF Claimed, Live
<1> QED BY <1>3, <1>4 DEF Actual, Events

\* A rewrite that clears what its claim left behind keeps the agreement.
LEMMA KeepRewrite ==
    ASSUME TimelineInv, NEW c \in TimelineClaims, RewriteClaim(c) PROVE TimelineInv'
<1>1. TimelineShape BY DEF TimelineInv
<1>2. TimelineShape' BY <1>1, RewriteIs DEF TimelineShape, Events
<1>3. ASSUME ~overtaken PROVE Actual' = Claimed'
  <2>1. \A e \in Events : event[e] # "none" <=> wording[e[1]] = e[2]
    BY <1>1, <1>3, Agreement DEF TimelineInv, TimelineFollows, TimelineShape
  <2>2. ASSUME NEW e \in Events PROVE event'[e] # "none" <=> wording'[e[1]] = e[2]
    <3>1. e[1] \in TimelineClaims BY DEF Events
    <3>2. CASE e[1] # c BY <1>1, <2>1, <3>1, <3>2, RewriteIs, WithoutIs
    <3>3. CASE e[1] = c
      <4>1. Cleared(c)[e] = "none"
        <5>1. CASE event[e] = "none" BY <1>1, <5>1, WithoutIs
        <5>2. CASE event[e] # "none"
          <6>1. wording[c] = e[2] /\ e[2] # NoClaim
            BY <2>1, <3>3, <5>2, TimelineAssumption DEF Events
          <6>2. c \in Live BY <6>1 DEF Live
          <6> QED BY <1>1, <3>3, <6>1, <6>2, WithoutIs
        <5> QED BY <5>1, <5>2
      <4> QED BY <1>1, <3>3, <4>1, RewriteIs
    <3> QED BY <3>2, <3>3
  <2> QED BY <1>2, <2>2, AgreementNext DEF TimelineShape
<1>4. overtaken' = overtaken BY <1>1, RewriteIs
<1> QED BY <1>2, <1>3, <1>4 DEF TimelineInv, TimelineFollows

\* What a rebuild or a repair leaves of the tables.
LEMMA PassIs ==
    ASSUME TimelineShape, NEW k \in Keepers, PassWrites(k)
    PROVE  /\ TimelineShape' /\ wording' = wording
           /\ task[k].at = "rebuild" => Actual' = Events \cap task[k].rows
<1>1. event' \in [Events -> {"none", "legacy", "full"}]
  BY DEF PassWrites, Repaired, Rebuilt, TimelineShape
<1>2. wording' = wording /\ rowid' = rowid /\ rewrites' = rewrites
      /\ task' = [task EXCEPT ![k] = Rest]
  BY DEF PassWrites
<1>3. task' = [x \in Searchers \cup Keepers |-> task'[x]] BY <1>2 DEF TimelineShape
<1>4. TimelineShape' BY <1>1, <1>2, <1>3 DEF TimelineShape, Events
<1>5. task[k].at = "rebuild" => Actual' = Events \cap task[k].rows
  BY DEF PassWrites, Rebuilt, Actual, Events
<1> QED BY <1>2, <1>4, <1>5

\* A pass over claims that were not rewritten since brings agreement.
LEMMA KeepPass ==
    ASSUME TimelineInv, NEW k \in Keepers, PassWrites(k) PROVE TimelineInv'
<1>1. TimelineShape /\ TimelineFollows BY DEF TimelineInv
<1>2. TimelineShape' /\ wording' = wording BY <1>1, PassIs
<1>3. Claimed' = Claimed BY <1>2 DEF Claimed, Live
<1>4. ASSUME ~overtaken' PROVE Actual' = Claimed
  <2>1. ~overtaken /\ task[k].rows = Claimed BY <1>4 DEF PassWrites
  <2>2. Actual = Claimed BY <1>1, <2>1 DEF TimelineFollows
  <2>3. Actual \subseteq Events BY DEF Actual
  <2>4. CASE task[k].at = "rebuild" BY <1>1, <2>1, <2>2, <2>3, <2>4, PassIs
  <2>5. CASE task[k].at = "repair"
    <3>1. event' = Repaired(k) BY <2>5 DEF PassWrites
    <3>2. \A e \in Events : event'[e] # "none" <=> e \in Claimed
      BY <2>1, <2>2, <3>1 DEF Repaired, Actual
    <3> QED BY <2>2, <2>3, <3>2 DEF Actual, Events
  <2> QED BY <2>4, <2>5 DEF PassWrites
<1> QED BY <1>2, <1>3, <1>4 DEF TimelineInv, TimelineFollows

\* Steps that write no table.
LEMMA KeepTimelineRest ==
    ASSUME TimelineInv, UNCHANGED <<wording, rowid, event, overtaken, rewrites>>,
           task' = [x \in Searchers \cup Keepers |-> task'[x]]
    PROVE  TimelineInv'
  BY DEF TimelineInv, TimelineShape, TimelineFollows, Actual, Claimed, Live, Events

\* All others are such steps.
LEMMA OtherTimelineSteps ==
    ASSUME TimelineInv,
           \/ \E k \in Keepers : PassReads(k) \/ PassStops(k)
           \/ \E p \in Searchers : \/ ReadClaimsPrint(p) \/ ReadEventsPrint(p) \/ Lookup(p)
                                   \/ Compare(p) \/ Answer(p)
           \/ UNCHANGED timelineVars
    PROVE  /\ UNCHANGED <<wording, rowid, event, overtaken, rewrites>>
           /\ task' = [x \in Searchers \cup Keepers |-> task'[x]]
<1>1. task = [x \in Searchers \cup Keepers |-> task[x]] BY DEF TimelineInv, TimelineShape
<1>2. CASE \E k \in Keepers : PassReads(k) \/ PassStops(k)
  BY <1>1, <1>2 DEF PassReads, PassStops
<1>3. ASSUME NEW p \in Searchers, ReadClaimsPrint(p) \/ ReadEventsPrint(p) \/ Answer(p)
      PROVE  /\ UNCHANGED <<wording, rowid, event, overtaken, rewrites>>
             /\ task' = [x \in Searchers \cup Keepers |-> task'[x]]
  BY <1>1, <1>3 DEF ReadClaimsPrint, ReadEventsPrint, Answer
<1>4. ASSUME NEW p \in Searchers, Lookup(p) \/ Compare(p)
      PROVE  /\ UNCHANGED <<wording, rowid, event, overtaken, rewrites>>
             /\ task' = [x \in Searchers \cup Keepers |-> task'[x]]
  BY <1>1, <1>4 DEF Lookup, Compare, Heads
<1>5. CASE UNCHANGED timelineVars BY <1>1, <1>5 DEF timelineVars
<1> QED BY <1>2, <1>3, <1>4, <1>5

\* The tables agree at first.
LEMMA TimelineStart ==
    ASSUME TimelineInit PROVE TimelineInv
<1> USE DEF TimelineInit
<1>1. PICK old \in SUBSET Claimed :
         event = [e \in Events |-> IF e \in old THEN "legacy"
                                   ELSE IF e \in Claimed THEN "full" ELSE "none"]
  OBVIOUS
<1>2. TimelineShape BY <1>1 DEF TimelineShape
<1>3. \A e \in Events : event[e] # "none" <=> e \in Claimed BY <1>1
<1>4. Claimed \subseteq Events BY <1>2 DEF Claimed, Live, Events, TimelineShape
<1> QED BY <1>2, <1>3, <1>4 DEF TimelineInv, TimelineFollows, Actual

\* Every step keeps the invariant.
LEMMA TimelineKeeps ==
    ASSUME TimelineInv, [TimelineNext]_timelineVars PROVE TimelineInv'
  BY KeepRewrite, KeepPass, OtherTimelineSteps, KeepTimelineRest DEF TimelineNext

\* The timeline is that of the claims unless a pass overtook a rewrite:
\* TimelineFollows, for all claims, wordings and processes.
THEOREM TimelineAlwaysFollows == TimelineSpec => []TimelineFollows
<1>1. TimelineInit => TimelineInv BY TimelineStart
<1>2. TimelineInv /\ [TimelineNext]_timelineVars => TimelineInv' BY TimelineKeeps
<1>3. TimelineInv => TimelineFollows BY DEF TimelineInv
<1> QED BY <1>1, <1>2, <1>3, PTL DEF TimelineSpec

\* Every step does what TimelineStep says.
LEMMA TimelineSteps ==
    ASSUME TimelineInv, [TimelineNext]_timelineVars PROVE TimelineStep
<1>1. TimelineShape BY DEF TimelineInv
<1>2. CASE UNCHANGED <<wording, rowid, event, overtaken, rewrites>>
  BY <1>2 DEF TimelineStep
<1>3. ASSUME NEW c \in TimelineClaims, RewriteClaim(c) PROVE TimelineStep
  <2>1. task' = task BY <1>1, <1>3, RewriteIs
  <2>2. ASSUME NEW w \in Wordings, wording[c] # NoClaim, event'[<<c, w>>] = "full"
        PROVE  wording'[c] = w
    <3>1. <<c, w>> \in Events BY DEF Events
    <3>2. event'[<<c, w>>] = IF w = wording'[c] THEN "full" ELSE Cleared(c)[<<c, w>>]
      BY <1>1, <1>3, <3>1, RewriteIs
    <3>3. c \in Live BY <2>2 DEF Live
    <3>4. Cleared(c)[<<c, w>>] # "full" BY <1>1, <3>1, <3>3, WithoutIs
    <3> QED BY <2>2, <3>2, <3>4
  <2>3. \A d \in TimelineClaims \ {c} : <<wording[d], rowid[d]>> = <<wording'[d], rowid'[d]>>
    BY <1>1, <1>3, RewriteIs
  <2> QED BY <2>1, <2>2, <2>3 DEF TimelineStep
<1>4. ASSUME NEW k \in Keepers, PassWrites(k) PROVE TimelineStep
  <2>1. rewrites' = rewrites /\ task' = [task EXCEPT ![k] = Rest] BY <1>4 DEF PassWrites
  <2>2. \A j \in Keepers \ {k} : task'[j] = task[j] BY <1>1, <2>1 DEF TimelineShape
  <2>3. Claimed \subseteq Events BY <1>1 DEF Claimed, Live, Events, TimelineShape
  <2>4. task[k].at = "rebuild" /\ task[k].rows = Claimed => Actual' = Claimed
    BY <1>1, <1>4, <2>3, PassIs
  <2> QED BY <2>1, <2>2, <2>4 DEF TimelineStep
<1> QED BY <1>2, <1>3, <1>4, OtherTimelineSteps DEF TimelineNext

\* A rewrite of a claim that was in the table heals its rows whatever a pass left of
\* them, and a rebuild that nobody overtook heals the table (TimelineStep).
THEOREM TimelineStepsHold == TimelineSpec => [][TimelineStep]_timelineVars
<1>1. TimelineInit => TimelineInv BY TimelineStart
<1>2. TimelineInv /\ [TimelineNext]_timelineVars => TimelineInv' BY TimelineKeeps
<1>3. TimelineInv /\ [TimelineNext]_timelineVars => [TimelineStep]_timelineVars BY TimelineSteps
<1> QED BY <1>1, <1>2, <1>3, PTL DEF TimelineSpec

-----------------------------------------------------------------------------
(* MemoryArchive.                                                          *)
(* Who is about to apply or restore has seen a whole archive, and rowids of *)
(* live and of archived memories are apart.                                *)

\* Rows and tables of them.
MemoryRows == [text : Texts \cup {0}, rowid : Nat]
Tables == [Memories -> MemoryRows \cup {NoRow}]

\* The types of the variables.
ArchiveTyped ==
    /\ memoryRow \in Tables /\ lookup \in Tables /\ removed \in Tables
    /\ archive \in [at : {"none", "backup", "records", "manifest"}, rows : Tables]
    /\ operator \in [Operators -> Modes \cup {"idle"}]
    /\ archiveUpsets \in Nat

\* No two rows of a table share a rowid, and none is above what was given out.
Apart(table) ==
    /\ \A m, n \in Memories : table[m] # NoRow /\ table[n] # NoRow /\ m # n
                                => table[m].rowid # table[n].rowid
    /\ \A m \in Memories : table[m] # NoRow => table[m].rowid <= Cardinality(Memories) + archiveUpsets

\* Who has prepared a mode has seen a whole archive.
Readied == \A p \in Operators : operator[p] # "idle" => archive.at = "manifest"

\* The inductive invariant: the rowids of live and of archived rows are apart.
ArchiveInv ==
    ArchiveTyped /\ Apart(memoryRow) /\ Apart(archive.rows) /\ Readied /\ ArchiveIsSound

\* There are finitely many memories.
LEMMA MemoryCount == Cardinality(Memories) \in Nat
  BY ArchiveAssumption, FS_CardinalityType

\* A new rowid is one that no row has.
LEMMA NextRowidIsNew ==
    ASSUME ArchiveInv, NEW used \in SUBSET Stored
    PROVE  /\ NextRowid(used) \in Nat
           /\ NextRowid(used) <= Cardinality(Memories) + archiveUpsets + 1
           /\ \A m \in used : memoryRow[m].rowid # NextRowid(used)
<1>1. memoryRow \in Tables /\ archiveUpsets \in Nat /\ Apart(memoryRow)
  BY DEF ArchiveInv, ArchiveTyped
<1> DEFINE S == {memoryRow[m].rowid : m \in used}
<1>2. Cardinality(Memories) + archiveUpsets \in Nat BY <1>1, MemoryCount
<1>3. \A m \in used : memoryRow[m].rowid \in Nat
        /\ memoryRow[m].rowid <= Cardinality(Memories) + archiveUpsets
  BY <1>1 DEF Stored, Tables, MemoryRows, Apart
<1>4. S \in SUBSET Nat /\ \A x \in S : x <= Cardinality(Memories) + archiveUpsets BY <1>3
<1>5. \A m \in used : memoryRow[m].rowid \in S OBVIOUS
<1>6. NextRowid(used) = IF used = {} THEN 1 ELSE Max(S) + 1 BY DEF NextRowid
<1>7. CASE used = {} BY <1>2, <1>6, <1>7, MemoryCount, <1>1
<1>8. CASE used # {}
  <2>1. S # {} BY <1>8
  <2> HIDE DEF S
  <2>2. Max(S) \in S /\ \A x \in S : x <= Max(S) BY <1>2, <1>4, <2>1, GreatestExists
  <2>3. Max(S) \in Nat /\ Max(S) <= Cardinality(Memories) + archiveUpsets BY <1>4, <2>2
  <2>4. NextRowid(used) = Max(S) + 1 BY <1>6, <1>8
  <2>5. \A m \in used : memoryRow[m].rowid \in Nat /\ memoryRow[m].rowid <= Max(S)
    BY <1>3, <1>5, <2>2
  <2> QED BY <1>1, <2>3, <2>4, <2>5, MemoryCount
<1> QED BY <1>7, <1>8

\* The invariant holds at first.
LEMMA ArchiveStarts == ArchiveInit => ArchiveInv
<1> SUFFICES ASSUME ArchiveInit PROVE ArchiveInv OBVIOUS
<1>1. PICK t \in Texts, here \in SUBSET Memories :
         memoryRow = [m \in Memories |-> IF m \in here THEN [text |-> t, rowid |-> m] ELSE NoRow]
  BY DEF ArchiveInit
<1>2. \A m \in Memories : m \in Nat /\ m <= Cardinality(Memories)
  BY ArchiveAssumption, MemoryCount
<1>3. memoryRow \in Tables BY <1>1, <1>2 DEF Tables, MemoryRows
<1>4. \A m \in Memories : memoryRow[m] # NoRow => memoryRow[m].rowid = m BY <1>1
<1>5. NoRows \in Tables BY DEF NoRows, Tables
<1>6. lookup = memoryRow /\ removed = NoRows /\ archive = [at |-> "none", rows |-> NoRows]
      /\ operator = [p \in Operators |-> "idle"] /\ archiveUpsets = 0
  BY DEF ArchiveInit
<1>7. ArchiveTyped BY <1>3, <1>5, <1>6 DEF ArchiveTyped
<1>8. Apart(memoryRow) BY <1>2, <1>4, <1>6, MemoryCount DEF Apart
<1>9. Apart(archive.rows) BY <1>6 DEF Apart, NoRows
<1>10. Readied /\ ArchiveIsSound BY <1>6 DEF Readied, ArchiveIsSound, NoRows
<1> QED BY <1>7, <1>8, <1>9, <1>10 DEF ArchiveInv

\* A row is not none.
LEMMA RowsAreNot == \A mrow \in MemoryRows : mrow # NoRow
  BY ArchiveAssumption DEF MemoryRows

\* The lookup of a row is a row.
LEMMA IndexedIsARow ==
    ASSUME NEW mrow \in MemoryRows
    PROVE  Indexed(mrow) \in MemoryRows /\ Indexed(mrow) # NoRow
<1>1. Indexed(mrow) \in MemoryRows BY DEF Indexed, MemoryRows
<1> QED BY <1>1, RowsAreNot

\* What the steps of freeze and of the operators that change no row keep.
LEMMA KeepQuiet ==
    ASSUME ArchiveInv, UNCHANGED <<memoryRow, lookup, removed, archiveUpsets>>,
           \/ /\ archive.at = "none" /\ UNCHANGED operator /\ archive'.at = "backup"
              /\ archive' = [at |-> "backup",
                   rows |-> [m \in Memories |-> IF m \in Orphaned THEN memoryRow[m] ELSE NoRow]]
           \/ /\ archive.at \in {"backup", "records"} /\ UNCHANGED operator
              /\ archive'.at \in {"records", "manifest"}
                   /\ archive' = [archive EXCEPT !.at = archive'.at]
           \/ /\ archive.at \in {"backup", "records"} /\ UNCHANGED operator
              /\ archive' = [at |-> "none", rows |-> NoRows]
           \/ /\ UNCHANGED archive /\ operator' \in [Operators -> Modes \cup {"idle"}]
              /\ \A p \in Operators : operator'[p] \in {operator[p], "idle"} \/ archive.at = "manifest"
    PROVE  ArchiveInv'
<1> USE DEF ArchiveInv
<1>1. memoryRow \in Tables
        /\ archive \in [at : {"none", "backup", "records", "manifest"}, rows : Tables]
      /\ operator \in [Operators -> Modes \cup {"idle"}]
  BY DEF ArchiveTyped
<1>2. NoRows \in Tables BY DEF NoRows, Tables
<1>3. [m \in Memories |-> IF m \in Orphaned THEN memoryRow[m] ELSE NoRow] \in Tables
  BY <1>1 DEF Tables
<1>4. archive' \in [at : {"none", "backup", "records", "manifest"}, rows : Tables]
      /\ operator' \in [Operators -> Modes \cup {"idle"}]
  BY <1>1, <1>2, <1>3
<1>5. ArchiveTyped' BY <1>4 DEF ArchiveTyped
<1>6. Apart(memoryRow)' BY DEF Apart
<1>7. Apart(archive.rows)'
  <2>1. CASE archive' = [at |-> "backup",
                   rows |-> [m \in Memories |-> IF m \in Orphaned THEN memoryRow[m] ELSE NoRow]]
    <3>1. \A m \in Memories : archive'.rows[m] # NoRow => archive'.rows[m] = memoryRow[m]
            /\ memoryRow[m] # NoRow
      BY <2>1
    <3> QED BY <3>1 DEF Apart
  <2>2. CASE archive'.rows = archive.rows BY <2>2 DEF Apart
  <2>3. CASE archive' = [at |-> "none", rows |-> NoRows] BY <2>3 DEF Apart, NoRows
  <2> QED BY <1>1, <2>1, <2>2, <2>3
<1>8. Readied' BY <1>1 DEF Readied
<1>9. ArchiveIsSound'
  <2>1. ASSUME NEW m \in Memories, removed[m] # NoRow
        PROVE  archive'.at = "manifest" /\ archive'.rows[m] = removed[m]
    <3>1. archive.at = "manifest" /\ archive.rows[m] = removed[m] BY <2>1 DEF ArchiveIsSound
    <3> QED BY <3>1
  <2> QED BY <2>1 DEF ArchiveIsSound
<1> QED BY <1>5, <1>6, <1>7, <1>8, <1>9

\* Freezing reads the orphans and writes the archive, or fails.
LEMMA FreezeKeeps == ArchiveInv /\ (TakeSnapshot \/ WriteArchive \/ FreezeFails) => ArchiveInv'
<1>1. ASSUME ArchiveInv, TakeSnapshot PROVE ArchiveInv'
  BY <1>1, KeepQuiet DEF TakeSnapshot
<1>2. ASSUME ArchiveInv, WriteArchive PROVE ArchiveInv'
  <2>1. archive \in [at : {"none", "backup", "records", "manifest"}, rows : Tables]
    BY <1>2 DEF ArchiveInv, ArchiveTyped
  <2>2. PICK k \in 1 .. 2 : archive.at = Stages[k] /\ archive' = [archive EXCEPT !.at = Stages[k + 1]]
    BY <1>2 DEF WriteArchive
  <2>3. archive.at \in {"backup", "records"} /\ Stages[k + 1] \in {"records", "manifest"}
    <3>1. k = 1 \/ k = 2 OBVIOUS
    <3> QED BY <2>2, <3>1 DEF Stages
  <2>4. archive'.at = Stages[k + 1] BY <2>1, <2>2
  <2> QED BY <1>2, <2>2, <2>3, <2>4, KeepQuiet DEF WriteArchive
<1>3. ASSUME ArchiveInv, FreezeFails PROVE ArchiveInv'
  BY <1>3, KeepQuiet DEF FreezeFails
<1> QED BY <1>1, <1>2, <1>3

\* Preparing a mode, refreshing the triggers, and failing.
LEMMA OperatorsKeep ==
    ASSUME ArchiveInv, NEW p \in Operators,
           (\E mode \in Modes : Prepare(p, mode)) \/ RefreshTriggers(p) \/ MaintainFails(p)
    PROVE  ArchiveInv'
<1>1. operator \in [Operators -> Modes \cup {"idle"}] BY DEF ArchiveInv, ArchiveTyped
<1>2. ASSUME NEW mode \in Modes, Prepare(p, mode) PROVE ArchiveInv'
  BY <1>1, <1>2, KeepQuiet DEF Prepare
<1>3. ASSUME RefreshTriggers(p) PROVE ArchiveInv'
  BY <1>1, <1>3, KeepQuiet DEF RefreshTriggers, Concluded
<1>4. ASSUME MaintainFails(p) PROVE ArchiveInv'
  BY <1>1, <1>4, KeepQuiet DEF MaintainFails, Concluded
<1> QED BY <1>2, <1>3, <1>4

\* When the scope is still that of the archive its rows are stored as archived.
LEMMA FrozenAsStored ==
    ASSUME ArchiveInv, SameScope, SameRowids
    PROVE  \A m \in Scope : m \in Stored /\ m \notin live /\ memoryRow[m] = archive.rows[m]
<1>1. memoryRow \in Tables /\ archive.rows \in Tables BY DEF ArchiveInv, ArchiveTyped
<1>2. ASSUME NEW m \in Scope
      PROVE  m \in Stored /\ m \notin live /\ memoryRow[m] = archive.rows[m]
  <2>1. m \in Memories /\ m \in Stored /\ m \notin live /\ archive.rows[m] # NoRow
    BY DEF SameScope, Scope, Orphaned, Stored
  <2>2. memoryRow[m] \in MemoryRows /\ archive.rows[m] \in MemoryRows
    BY <1>1, <2>1 DEF Stored, Tables
  <2>3. memoryRow[m].text = archive.rows[m].text /\ memoryRow[m].rowid = archive.rows[m].rowid
    BY DEF SameScope, SameRowids
  <2> QED BY <2>1, <2>2, <2>3 DEF MemoryRows
<1> QED BY <1>2

\* Deletion of the archived rows.
LEMMA KeepApply ==
    ASSUME ArchiveInv, NEW p \in Operators, Apply(p)
    PROVE  ArchiveInv'
<1> USE DEF ArchiveInv
<1>1. ArchiveTyped /\ UNCHANGED <<archive, archiveUpsets>> BY DEF Apply
<1>2. \A m \in Scope : m \in Stored /\ m \notin live /\ memoryRow[m] = archive.rows[m]
  BY FrozenAsStored DEF Apply
<1>3. memoryRow' = [m \in Memories |-> IF m \in Scope THEN NoRow ELSE memoryRow[m]]
      /\ lookup' = [m \in Memories |-> IF m \in Scope THEN NoRow ELSE lookup[m]]
      /\ removed' = [m \in Memories |-> IF m \in Scope THEN memoryRow[m] ELSE removed[m]]
      /\ operator' = [operator EXCEPT ![p] = "idle"] /\ operator[p] = "apply"
  BY DEF Apply, Concluded
<1>4. memoryRow' \in Tables /\ lookup' \in Tables /\ removed' \in Tables
  BY <1>1, <1>3 DEF ArchiveTyped, Tables
<1>5. operator' \in [Operators -> Modes \cup {"idle"}] BY <1>1, <1>3 DEF ArchiveTyped
<1>6. ArchiveTyped' BY <1>1, <1>4, <1>5 DEF ArchiveTyped
<1>7. Apart(memoryRow)'
  <2>1. \A m \in Memories : memoryRow'[m] # NoRow => memoryRow'[m] = memoryRow[m] BY <1>3
  <2> QED BY <1>1, <2>1 DEF Apart
<1>8. Apart(archive.rows)' BY <1>1 DEF Apart
<1>9. archive.at = "manifest" BY <1>3 DEF Readied
<1>10. Readied' BY <1>1, <1>9 DEF Readied
<1>11. ArchiveIsSound'
  <2>1. ASSUME NEW m \in Memories, removed'[m] # NoRow PROVE archive.rows[m] = removed'[m]
    BY <1>2, <1>3, <2>1 DEF ArchiveIsSound
  <2>2. \A m \in Memories : (lookup'[m] = NoRow) = (memoryRow'[m] = NoRow)
    BY <1>3 DEF ArchiveIsSound
  <2> QED BY <1>1, <1>9, <2>1, <2>2 DEF ArchiveIsSound
<1> QED BY <1>6, <1>7, <1>8, <1>10, <1>11

\* Restoration puts back what is archived, where no row is in the way.
LEMMA KeepRestore ==
    ASSUME ArchiveInv, NEW p \in Operators, Restore(p)
    PROVE  ArchiveInv'
<1> USE DEF ArchiveInv
<1>1. ArchiveTyped /\ UNCHANGED <<archive, archiveUpsets, removed>> BY DEF Restore
<1>2. memoryRow' = [m \in Memories |-> IF m \in Scope THEN archive.rows[m] ELSE memoryRow[m]]
      /\ lookup' = [m \in Memories |-> IF m \in Scope THEN Indexed(archive.rows[m]) ELSE lookup[m]]
      /\ operator' = [operator EXCEPT ![p] = "idle"] /\ operator[p] = "restore"
      /\ Scope \cap Stored = {}
      /\ \A m \in Scope, other \in Stored : memoryRow[other].rowid # archive.rows[m].rowid
  BY DEF Restore, Concluded, Free
<1>3. \A m \in Scope : m \in Memories /\ archive.rows[m] \in MemoryRows /\ archive.rows[m] # NoRow
  BY <1>1 DEF Scope, ArchiveTyped, Tables
<1>4. \A m \in Scope : Indexed(archive.rows[m]) \in MemoryRows /\ Indexed(archive.rows[m]) # NoRow
  BY <1>3, IndexedIsARow
<1>5. memoryRow' \in Tables /\ lookup' \in Tables
  BY <1>1, <1>2, <1>3, <1>4 DEF ArchiveTyped, Tables
<1>6. operator' \in [Operators -> Modes \cup {"idle"}] BY <1>1, <1>2 DEF ArchiveTyped
<1>7. ArchiveTyped' BY <1>1, <1>5, <1>6 DEF ArchiveTyped
<1>8. Apart(memoryRow)'
  <2>1. \A m \in Memories : m \in Scope => memoryRow'[m] = archive.rows[m] /\ archive.rows[m] # NoRow
    BY <1>2, <1>3
  <2>2. \A m \in Memories : m \notin Scope => memoryRow'[m] = memoryRow[m] BY <1>2
  <2>3. \A m \in Memories : m \notin Scope /\ memoryRow'[m] # NoRow => m \in Stored
    BY <2>2 DEF Stored
  <2>4. \A m \in Scope, other \in Stored : memoryRow[other].rowid # archive.rows[m].rowid
    BY <1>2
  <2>5. ASSUME NEW m \in Memories, NEW n \in Memories, memoryRow'[m] # NoRow,
                 memoryRow'[n] # NoRow, m # n
        PROVE  memoryRow'[m].rowid # memoryRow'[n].rowid
    <3>1. CASE m \in Scope /\ n \in Scope BY <2>1, <2>5, <3>1 DEF Apart
    <3>2. CASE m \in Scope /\ n \notin Scope BY <2>1, <2>2, <2>3, <2>4, <2>5, <3>2
    <3>3. CASE m \notin Scope /\ n \in Scope BY <2>1, <2>2, <2>3, <2>4, <2>5, <3>3
    <3>4. CASE m \notin Scope /\ n \notin Scope BY <2>2, <2>5, <3>4 DEF Apart
    <3> QED BY <3>1, <3>2, <3>3, <3>4
  <2>6. ASSUME NEW m \in Memories, memoryRow'[m] # NoRow
        PROVE  memoryRow'[m].rowid <= Cardinality(Memories) + archiveUpsets
    <3>1. CASE m \in Scope BY <2>1, <3>1 DEF Apart
    <3>2. CASE m \notin Scope BY <2>2, <2>6, <3>2 DEF Apart
    <3> QED BY <3>1, <3>2
  <2> QED BY <1>1, <2>5, <2>6 DEF Apart
<1>9. Apart(archive.rows)' BY <1>1 DEF Apart
<1>10. Readied' BY <1>1, <1>2 DEF Readied, ArchiveTyped
<1>11. ArchiveIsSound'
  <2>1. \A m \in Memories : (lookup'[m] = NoRow) = (memoryRow'[m] = NoRow)
    BY <1>2, <1>3, <1>4 DEF ArchiveIsSound
  <2> QED BY <1>1, <2>1 DEF ArchiveIsSound
<1> QED BY <1>7, <1>8, <1>9, <1>10, <1>11

\* A page is written again, with a new rowid.
LEMMA KeepRemember ==
    ASSUME ArchiveInv, NEW m \in Memories, NEW t \in Texts, Remember(m, t)
    PROVE  ArchiveInv'
<1> USE DEF ArchiveInv
<1>1. ArchiveTyped /\ UNCHANGED <<archive, operator, removed>> /\ archiveUpsets' = archiveUpsets + 1
      /\ archiveUpsets \in Nat /\ memoryRow \in Tables /\ lookup \in Tables
  BY DEF Remember, ArchiveUpset, ArchiveTyped
<1> DEFINE mrow == [text |-> t, rowid |-> NextRowid(Stored \ {m})]
<1>2. memoryRow' = [memoryRow EXCEPT ![m] = mrow] /\ lookup' = [lookup EXCEPT ![m] = Indexed(mrow)]
  BY DEF Remember
<1>3. Cardinality(Memories) + archiveUpsets \in Nat BY <1>1, MemoryCount
<1>4. /\ NextRowid(Stored \ {m}) \in Nat
      /\ NextRowid(Stored \ {m}) <= Cardinality(Memories) + archiveUpsets + 1
      /\ \A n \in Stored \ {m} : memoryRow[n].rowid # NextRowid(Stored \ {m})
  BY NextRowidIsNew
<1>6. mrow \in MemoryRows BY <1>4 DEF MemoryRows
<1>7. mrow # NoRow /\ Indexed(mrow) \in MemoryRows /\ Indexed(mrow) # NoRow
  BY <1>6, RowsAreNot, IndexedIsARow
<1>8. mrow.rowid <= Cardinality(Memories) + archiveUpsets + 1 BY <1>4
<1>9. \A n \in Memories \ {m} : memoryRow[n] # NoRow => memoryRow[n].rowid # mrow.rowid
  BY <1>4 DEF Stored
<1> HIDE DEF mrow
<1>10. memoryRow' \in Tables /\ lookup' \in Tables BY <1>1, <1>2, <1>6, <1>7 DEF Tables
<1>11. ArchiveTyped' BY <1>1, <1>10 DEF ArchiveTyped
<1>12. memoryRow'[m] = mrow /\ lookup'[m] = Indexed(mrow)
       /\ \A n \in Memories \ {m} : memoryRow'[n] = memoryRow[n] /\ lookup'[n] = lookup[n]
  BY <1>1, <1>2 DEF Tables
<1>13. Apart(memoryRow)'
  <2>1. ASSUME NEW n \in Memories, NEW o \in Memories, memoryRow'[n] # NoRow,
                 memoryRow'[o] # NoRow, n # o
        PROVE  memoryRow'[n].rowid # memoryRow'[o].rowid
    <3>1. CASE n = m BY <1>9, <1>12, <2>1, <3>1
    <3>2. CASE o = m BY <1>9, <1>12, <2>1, <3>2
    <3>3. CASE n # m /\ o # m BY <1>12, <2>1, <3>3 DEF Apart
    <3> QED BY <3>1, <3>2, <3>3
  <2>2. ASSUME NEW n \in Memories, memoryRow'[n] # NoRow
        PROVE  memoryRow'[n].rowid <= Cardinality(Memories) + archiveUpsets'
    <3>1. CASE n = m BY <1>1, <1>8, <1>12, <3>1, MemoryCount
    <3>2. CASE n # m
      <4>1. memoryRow'[n] = memoryRow[n]
              /\ memoryRow[n].rowid <= Cardinality(Memories) + archiveUpsets
            /\ memoryRow[n].rowid \in Nat
        BY <1>1, <1>12, <2>2, <3>2 DEF Apart, Tables, MemoryRows
      <4> QED BY <1>1, <4>1, MemoryCount
    <3> QED BY <3>1, <3>2
  <2> QED BY <2>1, <2>2 DEF Apart
<1>14. Apart(archive.rows)'
  <2>1. \A n \in Memories : archive.rows[n] # NoRow
            => archive.rows[n].rowid \in Nat
                 /\ archive.rows[n].rowid <= Cardinality(Memories) + archiveUpsets
    BY <1>1 DEF Apart, ArchiveTyped, Tables, MemoryRows
  <2>2. \A n \in Memories : archive.rows[n] # NoRow
            => archive.rows[n].rowid <= Cardinality(Memories) + archiveUpsets'
    BY <1>1, <2>1, MemoryCount
  <2> QED BY <1>1, <2>2 DEF Apart
<1>15. Readied' BY <1>1 DEF Readied
<1>16. ArchiveIsSound'
  <2>1. \A n \in Memories : (lookup'[n] = NoRow) = (memoryRow'[n] = NoRow)
    BY <1>7, <1>12 DEF ArchiveIsSound
  <2> QED BY <1>1, <2>1 DEF ArchiveIsSound
<1> QED BY <1>11, <1>13, <1>14, <1>15, <1>16

\* A bound on rowids that holds before an upset holds after it.
LEMMA BoundGrows ==
    ASSUME NEW table \in Tables, Apart(table), archiveUpsets \in Nat,
           archiveUpsets' = archiveUpsets + 1
    PROVE  \A m \in Memories : table[m] # NoRow
             => table[m].rowid <= Cardinality(Memories) + archiveUpsets'
<1>1. \A m \in Memories : table[m] # NoRow
          => table[m].rowid \in Nat /\ table[m].rowid <= Cardinality(Memories) + archiveUpsets
  BY DEF Apart, Tables, MemoryRows
<1> QED BY <1>1, MemoryCount

\* A page goes with its memories.
LEMMA KeepDeleteNode ==
    ASSUME ArchiveInv, NEW m \in Memories, DeleteNode(m)
    PROVE  ArchiveInv'
<1> USE DEF ArchiveInv
<1>1. ArchiveTyped /\ UNCHANGED <<archive, operator, removed>> /\ archiveUpsets' = archiveUpsets + 1
      /\ archiveUpsets \in Nat /\ memoryRow \in Tables /\ lookup \in Tables
      /\ archive.rows \in Tables
      /\ memoryRow' = [memoryRow EXCEPT ![m] = NoRow] /\ lookup' = [lookup EXCEPT ![m] = NoRow]
  BY DEF DeleteNode, ArchiveUpset, ArchiveTyped
<1>2. memoryRow' \in Tables /\ lookup' \in Tables BY <1>1 DEF Tables
<1>3. memoryRow'[m] = NoRow /\ lookup'[m] = NoRow
      /\ \A n \in Memories \ {m} : memoryRow'[n] = memoryRow[n] /\ lookup'[n] = lookup[n]
  BY <1>1 DEF Tables
<1>4. ArchiveTyped' BY <1>1, <1>2 DEF ArchiveTyped
<1>5. Apart(memoryRow)'
  <2>1. \A n \in Memories : memoryRow[n] # NoRow
          => memoryRow[n].rowid <= Cardinality(Memories) + archiveUpsets'
    BY <1>1, BoundGrows
  <2>2. \A n \in Memories : memoryRow'[n] # NoRow => memoryRow[n] = memoryRow'[n]
    BY <1>3
  <2> QED BY <2>1, <2>2 DEF Apart
<1>6. Apart(archive.rows)'
  <2>1. \A n \in Memories : archive.rows[n] # NoRow
          => archive.rows[n].rowid <= Cardinality(Memories) + archiveUpsets'
    BY <1>1, BoundGrows
  <2> QED BY <1>1, <2>1 DEF Apart
<1>7. Readied' BY <1>1 DEF Readied
<1>8. ArchiveIsSound'
  <2>1. \A n \in Memories : (lookup'[n] = NoRow) = (memoryRow'[n] = NoRow)
    BY <1>3 DEF ArchiveIsSound
  <2> QED BY <1>1, <2>1 DEF ArchiveIsSound
<1> QED BY <1>4, <1>5, <1>6, <1>7, <1>8

\* What pages do besides.
LEMMA KeepUpset ==
    ASSUME ArchiveInv, UNCHANGED <<memoryRow, lookup, archive, operator, removed>>,
             archiveUpsets' = archiveUpsets + 1
    PROVE  ArchiveInv'
<1> USE DEF ArchiveInv
<1>1. ArchiveTyped /\ archiveUpsets \in Nat /\ archiveUpsets' \in Nat BY DEF ArchiveTyped
<1>2. ArchiveTyped' BY <1>1 DEF ArchiveTyped
<1>3. ASSUME NEW table \in Tables, Apart(table)
      PROVE  \A m \in Memories : table[m] # NoRow
               => table[m].rowid <= Cardinality(Memories) + archiveUpsets'
  <2>1. \A n \in Memories : table[n] # NoRow
            => table[n].rowid \in Nat /\ table[n].rowid <= Cardinality(Memories) + archiveUpsets
    BY <1>3 DEF Apart, Tables, MemoryRows
  <2> QED BY <1>1, <2>1, MemoryCount
<1>4. Apart(memoryRow)'
  <2>1. \A m \in Memories : memoryRow[m] # NoRow
          => memoryRow[m].rowid <= Cardinality(Memories) + archiveUpsets'
    BY <1>1, <1>3 DEF ArchiveTyped
  <2> QED BY <2>1 DEF Apart
<1>5. Apart(archive.rows)'
  <2>1. archive.rows \in Tables BY DEF ArchiveTyped
  <2>2. \A m \in Memories : archive.rows[m] # NoRow
          => archive.rows[m].rowid <= Cardinality(Memories) + archiveUpsets'
    BY <1>3, <2>1
  <2> QED BY <2>2 DEF Apart
<1>6. Readied' /\ ArchiveIsSound' BY DEF Readied, ArchiveIsSound
<1> QED BY <1>2, <1>4, <1>5, <1>6

\* Every step keeps the invariant.
LEMMA ArchiveSteps == ArchiveInv /\ [ArchiveNext]_archiveVars => ArchiveInv'
<1> SUFFICES ASSUME ArchiveInv, [ArchiveNext]_archiveVars PROVE ArchiveInv' OBVIOUS
<1>1. CASE TakeSnapshot \/ WriteArchive \/ FreezeFails BY <1>1, FreezeKeeps
<1>2. ASSUME NEW p \in Operators,
             (\E mode \in Modes : Prepare(p, mode)) \/ RefreshTriggers(p) \/ MaintainFails(p)
      PROVE  ArchiveInv'
  BY <1>2, OperatorsKeep
<1>3. ASSUME NEW p \in Operators, Apply(p) PROVE ArchiveInv' BY <1>3, KeepApply
<1>4. ASSUME NEW p \in Operators, Restore(p) PROVE ArchiveInv' BY <1>4, KeepRestore
<1>5. ASSUME NEW m \in Memories, Orphan(m) PROVE ArchiveInv'
  BY <1>5, KeepUpset DEF Orphan, ArchiveUpset
<1>6. ASSUME NEW m \in Memories, NEW t \in Texts, Remember(m, t) PROVE ArchiveInv'
  BY <1>6, KeepRemember
<1>9. ASSUME NEW m \in Memories, DeleteNode(m) PROVE ArchiveInv'
  BY <1>9, KeepDeleteNode
<1>7. CASE Outbox BY <1>7, KeepUpset DEF Outbox, ArchiveUpset
<1>8. CASE UNCHANGED archiveVars
  BY <1>8 DEF archiveVars, ArchiveInv, ArchiveTyped, Apart, Readied, ArchiveIsSound
<1> QED BY <1>1, <1>2, <1>3, <1>4, <1>5, <1>6, <1>7, <1>8, <1>9 DEF ArchiveNext

\* The invariant of the archive always holds.
THEOREM ArchiveInductive == ArchiveSpec => []ArchiveInv
<1> QED BY ArchiveStarts, ArchiveSteps, PTL DEF ArchiveSpec

\* What is deleted is in the archive as it was, and the lookup has the rows of the
\* table: ArchiveIsSound, for all memories, texts and operators.
THEOREM ArchiveAlwaysSound == ArchiveSpec => []ArchiveIsSound
<1>1. ArchiveInv => ArchiveIsSound BY DEF ArchiveInv
<1> QED BY <1>1, ArchiveInductive, PTL

\* Only deletion and restoration conclude with other rows.
LEMMA OnlyOperatorsEnd ==
    ASSUME ArchiveInv, ArchiveNext, NEW p \in Operators, Concludes(p), memoryRow' # memoryRow
    PROVE  \E q \in Operators : Apply(q) \/ Restore(q)
  BY
     DEF ArchiveNext, Concludes, TakeSnapshot, WriteArchive, FreezeFails, Prepare, RefreshTriggers,
         MaintainFails, Remember, DeleteNode, Orphan, Outbox

\* Every step does what ArchiveStep says.
LEMMA StepsAreArchived == ArchiveInv /\ [ArchiveNext]_archiveVars => ArchiveStep
<1> SUFFICES ASSUME ArchiveInv, [ArchiveNext]_archiveVars PROVE ArchiveStep OBVIOUS
<1>1. ArchiveInv' BY ArchiveSteps
<1>2. \A m, n \in Memories : memoryRow'[m] # NoRow /\ memoryRow'[n] # NoRow /\ m # n
                                => memoryRow'[m].rowid # memoryRow'[n].rowid
  BY <1>1 DEF ArchiveInv, Apart
<1>3. ASSUME NEW m \in Memories, memoryRow'[m] # memoryRow[m], NEW p \in Operators, Concludes(p)
      PROVE  IF memoryRow[m] = NoRow THEN memoryRow'[m] = archive.rows[m]
             ELSE memoryRow'[m] = NoRow /\ m \notin live /\ memoryRow[m] = archive.rows[m]
  <2>1. ArchiveNext BY <1>3 DEF archiveVars
  <2>2. PICK q \in Operators : Apply(q) \/ Restore(q) BY <1>3, <2>1, OnlyOperatorsEnd
  <2>3. CASE Apply(q)
    <3>1. \A n \in Scope : n \in Stored /\ n \notin live /\ memoryRow[n] = archive.rows[n]
      BY <2>3, FrozenAsStored DEF Apply
    <3>2. m \in Scope /\ memoryRow'[m] = NoRow BY <1>3, <2>3 DEF Apply
    <3> QED BY <3>1, <3>2 DEF Stored
  <2>4. CASE Restore(q)
    <3>1. m \in Scope /\ memoryRow'[m] = archive.rows[m] BY <1>3, <2>4 DEF Restore
    <3>2. memoryRow[m] = NoRow BY <2>4, <3>1 DEF Restore, Free, Stored, Scope
    <3> QED BY <3>1, <3>2
  <2> QED BY <2>2, <2>3, <2>4
<1> QED BY <1>2, <1>3 DEF ArchiveStep

\* An operator deletes only archived memories without a page, never changes one that
\* is there, and no two memories share a rowid (ArchiveStep).
THEOREM ArchiveStepsHold == ArchiveSpec => [][ArchiveStep]_archiveVars
<1> QED BY ArchiveInductive, StepsAreArchived, PTL DEF ArchiveSpec

-----------------------------------------------------------------------------
(* PageRemoval.                                                            *)
(* What a tool has read, and copied, is what is there, for every page that *)
(* nobody wrote since it began.                                            *)

\* Contents, tables of them, and what a tool has in hand.
PageContents == [no : Nat, links : SUBSET {OldPage, NewPage}, refs : Refs]
PageTables == [Names -> PageContents \cup {NoText}]
Tools == [kind : {"none", "delete", "rename", "gc"},
          at : {"rest", "read", "copy", "raw", "forget", "done"},
          read : SUBSET Names, seen : PageTables, doomed : SUBSET Names]

\* The types of the variables.
RemovalTyped ==
    text \in PageTables /\ copies \in PageTables /\ tool \in Tools /\ writes \in Nat

\* The tools that rewrite references.
Working == {"delete", "rename"}

\* What a tool has read and nobody wrote since is as it was read, pages apart that a
\* deletion could not read.
AsRead ==
    /\ tool.at \in {"read", "copy"} =>
         /\ tool.kind # "none"
         /\ tool.kind = "rename" => \A n \in tool.read \ late : text[n] = tool.seen[n]
         /\ tool.kind = "delete" =>
              \A n \in tool.read \ late : tool.seen[n] # NoText => text[n] = tool.seen[n]
         /\ tool.kind = "delete" => \A n \in Names \ tool.read : tool.seen[n] = NoText
         /\ tool.kind = "rename" => OldPage \in tool.read /\ tool.seen[OldPage] # NoText
    /\ tool.at = "copy" /\ tool.kind \in Working => tool.read = Names /\ tool.doomed = Doomed

\* What it has copied and nobody wrote since is what is there.
AsCopied ==
    /\ tool.at = "read" => \A n \in Names : copies[n] = NoText
    /\ tool.at = "copy" => \A n \in tool.doomed \ late : copies[n] # NoText => copies[n] = text[n]

\* After the batch no page but those written late refers to what is gone.
AfterTheBatch ==
    /\ tool.at \in {"raw", "forget"} => tool.kind = "delete"
    /\ \A n \in Present(text) \ late :
         /\ tool.kind = "delete" /\ tool.at \in {"raw", "forget", "done"}
                /\ tool.seen[n] # NoText => text[n].refs = "no"
         /\ tool.kind = "rename" /\ tool.at = "done" => OldPage \notin text[n].links

\* The inductive invariant.
RemovalInv == RemovalTyped /\ AsRead /\ AsCopied /\ AfterTheBatch

\* The names of a rename are two, and a page is not none.
LEMMA NamesDiffer ==
    /\ OldPage \in Names /\ NewPage \in Names /\ SourcePage \in Names /\ OldPage # NewPage
         /\ SourcePage # OldPage /\ SourcePage # NewPage
    /\ \A c \in PageContents : c # NoText
  BY RemovalAssumption DEF Names, PageContents, Refs

\* A table without pages.
LEMMA EmptyTable == [n \in Names |-> NoText] \in PageTables
  BY DEF PageTables

\* The tool at rest has its type.
LEMMA NoToolIs ==
    /\ NoTool \in Tools /\ NoTool.kind = "none" /\ NoTool.at = "rest" /\ NoTool.read = {}
    /\ NoTool.seen = [n \in Names |-> NoText] /\ NoTool.doomed = {}
  BY EmptyTable DEF NoTool, Tools

\* A tool at rest promises nothing.
LEMMA AtRest ==
    ASSUME RemovalTyped', tool' = NoTool
    PROVE  RemovalInv'
  BY NoToolIs DEF RemovalInv, AsRead, AsCopied, AfterTheBatch

\* The invariant holds at first.
LEMMA RemovalStarts == RemovalInit => RemovalInv
<1> SUFFICES ASSUME RemovalInit PROVE RemovalInv OBVIOUS
<1>1. PICK other \in [OtherPages -> {NoText} \cup [no : {0}, links : {{}, {OldPage}}, refs : Refs]] :
         text = [n \in Names |-> CASE n = OldPage -> Text(0, {}, "no") [] n = NewPage -> NoText
                                    [] n = SourcePage -> Text(0, {}, "only") [] OTHER -> other[n]]
  BY DEF RemovalInit
<1>2. Text(0, {}, "no") \in PageContents /\ Text(0, {}, "only") \in PageContents
  BY DEF Text, PageContents, Refs
<1>3. [no : {0}, links : {{}, {OldPage}}, refs : Refs] \subseteq PageContents
  BY DEF PageContents
<1>4. ASSUME NEW n \in Names PROVE text[n] \in PageContents \cup {NoText}
  <2>1. CASE n = OldPage BY <1>1, <1>2, <2>1
  <2>2. CASE n = NewPage
    <3>1. n # OldPage /\ n # SourcePage BY <2>2, NamesDiffer
    <3> QED BY <1>1, <2>2, <3>1
  <2>3. CASE n = SourcePage
    <3>1. n # OldPage /\ n # NewPage BY <2>3, NamesDiffer
    <3> QED BY <1>1, <1>2, <2>3, <3>1
  <2>4. CASE n \notin {OldPage, NewPage, SourcePage}
    <3>1. n \in OtherPages BY <2>4 DEF Names
    <3>2. text[n] = other[n] BY <1>1, <2>4
    <3> QED BY <1>3, <3>1, <3>2
  <2> QED BY <2>1, <2>2, <2>3, <2>4
<1>5. text = [n \in Names |-> text[n]] BY <1>1
<1>6. text \in PageTables BY <1>4, <1>5 DEF PageTables
<1>7. copies = [n \in Names |-> NoText] /\ tool = NoTool /\ writes = 0 BY DEF RemovalInit
<1>8. RemovalTyped BY <1>6, <1>7, EmptyTable, NoToolIs DEF RemovalTyped
<1> QED BY <1>7, <1>8, NoToolIs DEF RemovalInv, AsRead, AsCopied, AfterTheBatch

\* A tool begins with nothing read and nobody late.
LEMMA KeepStart ==
    ASSUME RemovalInv, NEW kind \in {"delete", "rename", "gc"}, StartTool(kind)
    PROVE  RemovalInv'
<1>1. RemovalTyped /\ UNCHANGED <<text, writes>> /\ copies' = [n \in Names |-> NoText] /\ late' = {}
      /\ text \in PageTables /\ writes \in Nat
  BY DEF RemovalInv, RemovalTyped, StartTool
<1>2. tool' = [NoTool EXCEPT !.kind = kind, !.at = "read",
                              !.read = IF kind = "rename" THEN {OldPage} ELSE {},
                              !.seen[OldPage] = IF kind = "rename" THEN text[OldPage] ELSE @]
      /\ (kind = "rename" => text[OldPage] # NoText)
  BY DEF StartTool
<1>3. NoTool.seen = [n \in Names |-> NoText] /\ OldPage \in Names BY NoToolIs, NamesDiffer
<1>4. text[OldPage] \in PageContents \cup {NoText} BY <1>1, <1>3 DEF PageTables
<1> DEFINE seen == [NoTool.seen EXCEPT ![OldPage] = IF kind = "rename" THEN text[OldPage] ELSE @]
<1>5. seen \in PageTables BY <1>3, <1>4 DEF PageTables
<1>6. tool'.seen = seen /\ tool'.kind = kind /\ tool'.at = "read" /\ tool'.doomed = {}
      /\ tool'.read = (IF kind = "rename" THEN {OldPage} ELSE {})
  BY <1>2 DEF NoTool
<1>7. kind = "rename" => seen[OldPage] = text[OldPage] BY <1>3
<1> HIDE DEF seen
<1>8. tool' = [kind |-> kind, at |-> "read", read |-> IF kind = "rename" THEN {OldPage} ELSE {},
               seen |-> tool'.seen, doomed |-> {}]
  BY <1>2 DEF NoTool
<1>9. tool' \in Tools BY <1>3, <1>5, <1>6, <1>8 DEF Tools
<1>10. RemovalTyped' BY <1>1, <1>9, EmptyTable DEF RemovalTyped
<1>11. AsRead'
  <2>1. kind = "rename" => text[OldPage] = tool'.seen[OldPage] /\ text[OldPage] # NoText
    BY <1>2, <1>6, <1>7
  <2>2. \A n \in tool'.read : kind = "rename" /\ n = OldPage BY <1>6
  <2>3. kind = "rename" => OldPage \in tool'.read BY <1>6
  <2>4. tool'.at = "read" /\ tool'.kind = kind /\ kind # "none" /\ UNCHANGED text BY <1>1, <1>6
  <2>5. kind = "delete" => \A n \in Names : tool'.seen[n] = NoText
    BY <1>3, <1>6 DEF seen
  <2> QED BY <2>1, <2>2, <2>3, <2>4, <2>5 DEF AsRead
<1>12. AsCopied' BY <1>1, <1>6 DEF AsCopied
<1>13. AfterTheBatch' BY <1>6 DEF AfterTheBatch
<1> QED BY <1>10, <1>11, <1>12, <1>13 DEF RemovalInv

\* A page is read.
LEMMA KeepReadPage ==
    ASSUME RemovalInv, ReadPage
    PROVE  RemovalInv'
<1> DEFINE some == IF tool.kind = "gc" THEN Names ELSE {CHOOSE n \in Names : n \notin tool.read}
<1>0. PICK lost \in IF tool.kind = "delete" THEN SUBSET some ELSE {{}} :
         tool' = [tool EXCEPT !.read = @ \cup some,
                              !.seen = [n \in Names |-> IF n \in some \ lost THEN text[n] ELSE @[n]]]
  BY DEF ReadPage
<1> DEFINE seen == [n \in Names |-> IF n \in some \ lost THEN text[n] ELSE tool.seen[n]]
<1>1. RemovalTyped /\ AsRead /\ AsCopied /\ UNCHANGED <<text, copies, late, writes>>
      /\ tool \in Tools /\ tool.at = "read"
      /\ tool.read # Names
  BY DEF RemovalInv, RemovalTyped, ReadPage
<1>2. tool' = [tool EXCEPT !.read = @ \cup some, !.seen = seen]
      /\ (tool.kind # "delete" => lost = {})
  BY <1>0
<1>3. some \in SUBSET Names
  <2>1. \E n \in Names : n \notin tool.read BY <1>1 DEF Tools
  <2> QED BY <2>1
<1>4. tool.kind # "gc" => some \cap tool.read = {}
  <2>1. \E n \in Names : n \notin tool.read BY <1>1 DEF Tools
  <2> QED BY <2>1
<1>5. seen \in PageTables /\ \A n \in Names : seen[n] = IF n \in some \ lost THEN text[n] ELSE tool.seen[n]
  BY <1>1 DEF PageTables, Tools, RemovalTyped
<1> HIDE DEF some, seen
<1>6. tool'.read = tool.read \cup some /\ tool'.seen = seen /\ tool'.at = "read"
      /\ tool'.kind = tool.kind /\ tool' \in Tools
  BY <1>1, <1>2, <1>3, <1>5 DEF Tools
<1>7. RemovalTyped' BY <1>1, <1>6 DEF RemovalTyped
<1>8. AsRead'
  <2>1. tool.kind = "rename" => \A n \in tool'.read \ late : text[n] = tool'.seen[n]
    <3>1. ASSUME tool.kind = "rename", NEW n \in tool'.read \ late
          PROVE  text[n] = tool'.seen[n]
      <4>1. n \in Names BY <1>6, <3>1 DEF Tools
      <4>2. CASE n \in some BY <1>2, <1>5, <1>6, <3>1, <4>1, <4>2
      <4>3. CASE n \notin some
        <5>1. n \in tool.read \ late /\ tool'.seen[n] = tool.seen[n] BY <1>5, <1>6, <4>1, <4>3
        <5> QED BY <1>1, <3>1, <5>1 DEF AsRead
      <4> QED BY <4>2, <4>3
    <3> QED BY <3>1
  <2>3. tool.kind = "delete" =>
           \A n \in tool'.read \ late : tool'.seen[n] # NoText => text[n] = tool'.seen[n]
    <3>1. ASSUME tool.kind = "delete", NEW n \in tool'.read \ late, tool'.seen[n] # NoText
          PROVE  text[n] = tool'.seen[n]
      <4>1. n \in Names BY <1>6, <3>1 DEF Tools
      <4>2. CASE n \in some \ lost BY <1>5, <1>6, <4>1, <4>2
      <4>3. CASE n \in tool.read
        <5>1. n \notin some /\ tool'.seen[n] = tool.seen[n] BY <1>4, <1>5, <1>6, <3>1, <4>1, <4>3
        <5> QED BY <1>1, <3>1, <4>3, <5>1 DEF AsRead
      <4>4. CASE n \notin tool.read /\ n \in lost
        <5>1. tool'.seen[n] = tool.seen[n] BY <1>5, <1>6, <4>1, <4>4
        <5>2. tool.seen[n] = NoText BY <1>1, <3>1, <4>1, <4>4 DEF AsRead
        <5> QED BY <3>1, <5>1, <5>2
      <4> QED BY <1>6, <3>1, <4>2, <4>3, <4>4
    <3> QED BY <3>1
  <2>2. tool.kind = "rename" => OldPage \in tool'.read /\ tool'.seen[OldPage] # NoText
    <3>1. ASSUME tool.kind = "rename"
          PROVE  OldPage \in tool'.read /\ tool'.seen[OldPage] # NoText
      <4>1. OldPage \in tool.read /\ tool.seen[OldPage] # NoText /\ OldPage \in Names
        BY <1>1, <3>1, NamesDiffer DEF AsRead
      <4>2. OldPage \notin some BY <1>4, <3>1, <4>1
      <4> QED BY <1>5, <1>6, <4>1, <4>2
    <3> QED BY <3>1
  <2>4. tool.kind = "delete" => \A n \in Names \ tool'.read : tool'.seen[n] = NoText
    BY <1>1, <1>5, <1>6 DEF AsRead
  <2> QED BY <1>1, <1>6, <2>1, <2>2, <2>3, <2>4 DEF AsRead
<1>9. AsCopied' BY <1>1, <1>6 DEF AsCopied
<1>10. AfterTheBatch' BY <1>6 DEF AfterTheBatch
<1> QED BY <1>7, <1>8, <1>9, <1>10 DEF RemovalInv

\* What is doomed are pages.
LEMMA DoomedAreNames ==
    ASSUME tool \in Tools, tool.kind # "none"
    PROVE  Doomed \in SUBSET Names
<1>1. OldPage \in Names /\ OtherPages \subseteq Names BY DEF Names
<1>2. CASE tool.kind = "delete" BY <1>2 DEF Doomed, Present
<1>3. CASE tool.kind = "rename" BY <1>1, <1>3 DEF Doomed
<1>4. CASE tool.kind = "gc" BY <1>4 DEF Doomed, Present
<1> QED BY <1>2, <1>3, <1>4 DEF Tools

\* What is doomed depends on what was read alone.
LEMMA DoomedStays ==
    ASSUME tool \in Tools, tool' \in Tools, tool'.kind = tool.kind, tool'.seen = tool.seen,
           tool.kind \in Working
    PROVE  Doomed' = Doomed
<1>1. CASE tool.kind = "delete" BY <1>1 DEF Doomed, Present
<1>2. CASE tool.kind = "rename" BY <1>2 DEF Doomed
<1> QED BY <1>1, <1>2 DEF Working

\* The decision is made when every page is read.
LEMMA KeepDecide ==
    ASSUME RemovalInv, Decide
    PROVE  RemovalInv'
<1>1. RemovalTyped /\ AsRead /\ AsCopied /\ UNCHANGED <<text, copies, late, writes>>
      /\ tool \in Tools /\ tool.at = "read" /\ tool.read = Names /\ tool.kind # "none"
      /\ tool' = [tool EXCEPT !.doomed = Doomed, !.at = "copy"]
  BY DEF RemovalInv, RemovalTyped, AsRead, Decide
<1>2. Doomed \in SUBSET Names BY <1>1, DoomedAreNames
<1>3. tool' \in Tools /\ tool'.at = "copy" /\ tool'.kind = tool.kind /\ tool'.read = tool.read
      /\ tool'.seen = tool.seen /\ tool'.doomed = Doomed
  BY <1>1, <1>2 DEF Tools
<1>4. RemovalTyped' BY <1>1, <1>3 DEF RemovalTyped
<1>5. tool.kind \in Working => Doomed' = Doomed BY <1>1, <1>3, DoomedStays
<1>6. AsRead' BY <1>1, <1>3, <1>5 DEF AsRead
<1>7. AsCopied' BY <1>1, <1>2, <1>3 DEF AsCopied
<1>8. AfterTheBatch' BY <1>3 DEF AfterTheBatch
<1> QED BY <1>4, <1>6, <1>7, <1>8 DEF RemovalInv

\* A doomed page is copied.
LEMMA KeepCopy ==
    ASSUME RemovalInv, NEW n \in Names, Copy(n)
    PROVE  RemovalInv'
<1>1. RemovalTyped /\ AsRead /\ AsCopied /\ AfterTheBatch /\ UNCHANGED <<text, tool, late, writes>>
      /\ tool \in Tools /\ tool.at = "copy" /\ text \in PageTables /\ copies \in PageTables
      /\ copies' = [copies EXCEPT ![n] = text[n]]
  BY DEF RemovalInv, RemovalTyped, Copy
<1>2. copies' \in PageTables /\ \A m \in Names : copies'[m] = IF m = n THEN text[n] ELSE copies[m]
  BY <1>1 DEF PageTables
<1>3. RemovalTyped' BY <1>1, <1>2 DEF RemovalTyped
<1>4. tool.kind \in Working => Doomed' = Doomed BY <1>1, DoomedStays
<1>5. AsRead' BY <1>1, <1>4 DEF AsRead
<1>6. AsCopied' BY <1>1, <1>2 DEF AsCopied, Tools
<1>7. AfterTheBatch' BY <1>1 DEF AfterTheBatch, Present
<1> QED BY <1>3, <1>5, <1>6, <1>7 DEF RemovalInv

\* A relinked page no longer links to the old name.
LEMMA RelinkedIs ==
    ASSUME NEW c \in PageContents
    PROVE  Relinked(c) \in PageContents /\ OldPage \notin Relinked(c).links
<1>1. OldPage # NewPage BY NamesDiffer
<1>2. CASE OldPage \in c.links
  <2>1. Relinked(c) = [c EXCEPT !.links = (c.links \ {OldPage}) \cup {NewPage}]
    BY <1>2 DEF Relinked
  <2>2. (c.links \ {OldPage}) \cup {NewPage} \in SUBSET {OldPage, NewPage} BY DEF PageContents
  <2> QED BY <1>1, <2>1, <2>2 DEF PageContents
<1>3. CASE OldPage \notin c.links BY <1>3 DEF Relinked
<1> QED BY <1>2, <1>3

(* Of a deletion: what the batch writes, and what it leaves.               *)
LEMMA DeletionWrites ==
    ASSUME RemovalInv, tool.kind = "delete", tool.at = "copy"
    PROVE  /\ \A n \in DOMAIN Written : n \in Names /\ Written[n] \in PageContents
                /\ Written[n].refs = "no"
           /\ \A n \in Names \ (tool.doomed \cup DOMAIN Written \cup late) :
                 text[n] # NoText /\ tool.seen[n] # NoText => text[n].refs = "no"
<1>1. tool \in Tools /\ text \in PageTables /\ tool.doomed = Doomed
      /\ \A n \in Names \ late : tool.seen[n] # NoText => text[n] = tool.seen[n]
  BY DEF RemovalInv, RemovalTyped, AsRead, Working
<1>2. Doomed = {n \in Present(tool.seen) : n = SourcePage \/ tool.seen[n].refs = "only"}
  BY DEF Doomed
<1> DEFINE those == {m \in Present(tool.seen) \ tool.doomed : tool.seen[m].refs = "among"}
<1>3. Written = [n \in those |-> [tool.seen[n] EXCEPT !.refs = "no"]] BY DEF Written
<1>4. DOMAIN Written = those BY <1>3
<1>5. ASSUME NEW n \in DOMAIN Written
      PROVE  n \in Names /\ Written[n] \in PageContents /\ Written[n].refs = "no"
  <2>1. n \in Names /\ tool.seen[n] # NoText BY <1>4 DEF Present
  <2>2. tool.seen[n] \in PageContents BY <1>1, <2>1 DEF Tools, PageTables
  <2>3. Written[n] = [tool.seen[n] EXCEPT !.refs = "no"] BY <1>3, <1>4
  <2> QED BY <2>1, <2>2, <2>3 DEF PageContents, Refs
<1>6. ASSUME NEW n \in Names \ (tool.doomed \cup DOMAIN Written \cup late), text[n] # NoText,
             tool.seen[n] # NoText
      PROVE  text[n].refs = "no"
  <2>1. text[n] = tool.seen[n] /\ n \in Present(tool.seen) BY <1>1, <1>6 DEF Present
  <2>2. text[n].refs # "only" /\ text[n].refs # "among"
    BY <1>1, <1>2, <1>4, <1>6, <2>1
  <2>3. text[n] \in PageContents BY <1>1, <1>6 DEF PageTables
  <2> QED BY <2>2, <2>3 DEF PageContents, Refs
<1> QED BY <1>5, <1>6

(* Of a rename.                                                            *)
LEMMA RenameWrites ==
    ASSUME RemovalInv, tool.kind = "rename", tool.at = "copy"
    PROVE  /\ \A n \in DOMAIN Written : n \in Names /\ Written[n] \in PageContents
                /\ OldPage \notin Written[n].links
           /\ \A n \in Names \ (tool.doomed \cup DOMAIN Written \cup late) :
                 text[n] # NoText => OldPage \notin text[n].links
<1>1. tool \in Tools /\ text \in PageTables /\ tool.doomed = Doomed
      /\ tool.seen[OldPage] # NoText
      /\ \A n \in Names \ late : text[n] = tool.seen[n]
  BY DEF RemovalInv, RemovalTyped, AsRead, Working
<1>2. Doomed = {OldPage} BY DEF Doomed
<1> DEFINE those == {NewPage} \cup {m \in Present(tool.seen) \ {OldPage, NewPage} : OldPage \in tool.seen[m].links}
<1>3. Written = [n \in those |-> Relinked(tool.seen[IF n = NewPage THEN OldPage ELSE n])]
  BY DEF Written
<1>4. DOMAIN Written = those BY <1>3
<1>5. ASSUME NEW n \in DOMAIN Written
      PROVE  n \in Names /\ Written[n] \in PageContents /\ OldPage \notin Written[n].links
  <2>1. CASE n = NewPage
    <3>1. n \in Names /\ tool.seen[OldPage] \in PageContents
      BY <1>1, <2>1, NamesDiffer DEF Tools, PageTables
    <3>2. Written[n] = Relinked(tool.seen[OldPage]) BY <1>3, <1>4, <2>1
    <3> QED BY <3>1, <3>2, RelinkedIs
  <2>2. CASE n # NewPage
    <3>1. n \in Names /\ tool.seen[n] # NoText BY <1>4, <2>2 DEF Present
    <3>2. tool.seen[n] \in PageContents BY <1>1, <3>1 DEF Tools, PageTables
    <3>3. Written[n] = Relinked(tool.seen[n]) BY <1>3, <1>4, <2>2
    <3> QED BY <3>1, <3>2, <3>3, RelinkedIs
  <2> QED BY <2>1, <2>2
<1>6. ASSUME NEW n \in Names \ (tool.doomed \cup DOMAIN Written \cup late), text[n] # NoText
      PROVE  OldPage \notin text[n].links
  <2>1. text[n] = tool.seen[n] /\ n \in Present(tool.seen) BY <1>1, <1>6 DEF Present
  <2>2. n # OldPage /\ n # NewPage BY <1>1, <1>2, <1>4, <1>6
  <2> QED BY <1>4, <1>6, <2>1, <2>2
<1> QED BY <1>5, <1>6

\* What the batch leaves of the pages.
LEMMA BatchIs ==
    ASSUME RemovalInv, CommitBatch
    PROVE  /\ tool.at = "copy" /\ tool.kind \in Working /\ text' \in PageTables
           /\ \A n \in Names : text'[n] = IF n \in tool.doomed THEN NoText
                                 ELSE IF n \in DOMAIN Written THEN Written[n] ELSE text[n]
           /\ \A n \in DOMAIN Written : Written[n] \in PageContents
           /\ tool' \in Tools /\ tool'.kind = tool.kind /\ tool'.seen = tool.seen
           /\ tool'.at = IF tool.kind = "delete" THEN "raw" ELSE "done"
           /\ UNCHANGED <<copies, late, writes>>
<1>1. tool.at = "copy" /\ tool.kind # "gc" /\ tool \in Tools /\ tool.kind # "none"
        /\ text \in PageTables
      /\ UNCHANGED <<copies, late, writes>>
  BY DEF RemovalInv, RemovalTyped, AsRead, CommitBatch
<1>2. tool.kind \in Working BY <1>1 DEF Tools, Working
<1>3. \A n \in DOMAIN Written : Written[n] \in PageContents
  BY <1>1, <1>2, DeletionWrites, RenameWrites DEF Working
<1>4. text' = [n \in Names |-> IF n \in tool.doomed THEN NoText
                                 ELSE IF n \in DOMAIN Written THEN Written[n] ELSE text[n]]
  BY DEF CommitBatch
<1>5. text' \in PageTables BY <1>1, <1>3, <1>4 DEF PageTables
<1>6. tool' = [tool EXCEPT !.at = IF tool.kind = "delete" THEN "raw" ELSE "done"]
  BY <1>1 DEF CommitBatch
<1>7. tool' \in Tools /\ tool'.kind = tool.kind /\ tool'.seen = tool.seen
      /\ tool'.at = (IF tool.kind = "delete" THEN "raw" ELSE "done")
  BY <1>1, <1>6 DEF Tools
<1> QED BY <1>1, <1>2, <1>3, <1>4, <1>5, <1>7

\* The batch is committed.
LEMMA KeepCommitBatch ==
    ASSUME RemovalInv, CommitBatch
    PROVE  RemovalInv'
<1>1. RemovalTyped' BY BatchIs DEF RemovalTyped, RemovalInv
<1>2. AsRead' /\ AsCopied' BY BatchIs DEF AsRead, AsCopied
<1>3. AfterTheBatch'
  <2>1. CASE tool.kind = "delete"
    <3>1. ASSUME NEW n \in Names, n \notin late, text'[n] # NoText, tool.seen[n] # NoText
          PROVE  text'[n].refs = "no"
      BY <2>1, <3>1, BatchIs, DeletionWrites
    <3> QED BY <2>1, <3>1, BatchIs DEF AfterTheBatch, Present
  <2>2. CASE tool.kind = "rename"
    <3>1. ASSUME NEW n \in Names, n \notin late, text'[n] # NoText
          PROVE  OldPage \notin text'[n].links
      BY <2>2, <3>1, BatchIs, RenameWrites
    <3> QED BY <2>2, <3>1, BatchIs DEF AfterTheBatch, Present
  <2> QED BY <2>1, <2>2, BatchIs DEF Working
<1> QED BY <1>1, <1>2, <1>3 DEF RemovalInv

\* An orphan is collected.
LEMMA KeepCollect ==
    ASSUME RemovalInv, NEW n \in Names, Collect(n)
    PROVE  RemovalInv'
<1>1. RemovalTyped /\ AsRead /\ AsCopied /\ AfterTheBatch /\ UNCHANGED <<copies, late, writes>>
      /\ tool \in Tools /\ tool.at = "copy" /\ tool.kind = "gc" /\ text \in PageTables
      /\ (text' = [text EXCEPT ![n] = NoText] \/ UNCHANGED text)
      /\ tool' = [tool EXCEPT !.doomed = @ \ {n}]
  BY DEF RemovalInv, RemovalTyped, Collect
<1>2. text' \in PageTables /\ \A m \in Names \ {n} : text'[m] = text[m]
  BY <1>1 DEF PageTables
<1>3. tool' \in Tools /\ tool'.at = "copy" /\ tool'.kind = "gc" /\ tool'.doomed = tool.doomed \ {n}
  BY <1>1 DEF Tools
<1>4. RemovalTyped' BY <1>1, <1>2, <1>3 DEF RemovalTyped
<1>5. AsRead' /\ AfterTheBatch' BY <1>3 DEF AsRead, AfterTheBatch, Working
<1>6. AsCopied' BY <1>1, <1>2, <1>3 DEF AsCopied, Tools
<1> QED BY <1>4, <1>5, <1>6 DEF RemovalInv

\* The raw file and its row are removed.
LEMMA KeepEnd ==
    ASSUME RemovalInv, RemoveRaw \/ Forget
    PROVE  RemovalInv'
<1>1. RemovalTyped /\ AfterTheBatch /\ UNCHANGED <<text, copies, late, writes>> /\ tool \in Tools
  BY DEF RemovalInv, RemovalTyped, RemoveRaw, Forget
<1>2. tool.kind = "delete" /\ tool.at \in {"raw", "forget"} /\ tool'.at \in {"forget", "done"}
      /\ tool'.kind = "delete" /\ tool'.seen = tool.seen /\ tool' \in Tools
  <2>1. CASE RemoveRaw
    <3>1. tool.kind = "delete" /\ tool.at = "raw" /\ tool' = [tool EXCEPT !.at = "forget"]
      BY <2>1 DEF RemoveRaw, CommitFirst
    <3> QED BY <1>1, <3>1 DEF Tools
  <2>2. CASE Forget
    <3>1. tool.kind = "delete" /\ tool.at = "forget" /\ tool' = [tool EXCEPT !.at = "done"]
      BY <1>1, <2>2 DEF Forget, AfterTheBatch
    <3> QED BY <1>1, <3>1 DEF Tools
  <2> QED BY <2>1, <2>2
<1>3. RemovalTyped' /\ AsRead' /\ AsCopied' BY <1>1, <1>2 DEF RemovalTyped, AsRead, AsCopied
<1>4. AfterTheBatch' BY <1>1, <1>2 DEF AfterTheBatch, Present
<1> QED BY <1>3, <1>4 DEF RemovalInv

\* Another writes a page: it is late.
LEMMA KeepOtherWrite ==
    ASSUME RemovalInv, NEW n \in Names, WriteAnew(n)
    PROVE  RemovalInv'
<1>1. RemovalTyped /\ AsRead /\ AsCopied /\ AfterTheBatch /\ UNCHANGED <<copies, tool>>
      /\ tool \in Tools /\ text \in PageTables /\ writes' = writes + 1 /\ writes \in Nat
      /\ late' = IF tool.at = "rest" THEN late ELSE late \cup {n}
  BY DEF RemovalInv, RemovalTyped, WriteAnew
<1>2. text' \in PageTables /\ \A m \in Names \ {n} : text'[m] = text[m]
  <2>1. ASSUME NEW links \in {{}, {OldPage}}, NEW refs \in Refs,
               text' = [text EXCEPT ![n] = Text(writes', links, refs)]
        PROVE  text' \in PageTables /\ \A m \in Names \ {n} : text'[m] = text[m]
    <3>1. Text(writes', links, refs) \in PageContents BY <1>1 DEF Text, PageContents
    <3> QED BY <1>1, <2>1, <3>1 DEF PageTables
  <2>2. CASE text' = [text EXCEPT ![n] = NoText] BY <1>1, <2>2 DEF PageTables
  <2> QED BY <2>1, <2>2 DEF WriteAnew
<1>3. RemovalTyped' BY <1>1, <1>2 DEF RemovalTyped
<1>4. CASE tool.at = "rest"
  BY <1>1, <1>3, <1>4 DEF RemovalInv, AsRead, AsCopied, AfterTheBatch
<1>5. CASE tool.at # "rest"
  <2>1. late' = late \cup {n} BY <1>1, <1>5
  <2>2. tool.kind \in Working => Doomed' = Doomed BY <1>1, DoomedStays
  <2>3. AsRead' BY <1>1, <1>2, <2>1, <2>2 DEF AsRead, Tools
  <2>4. AsCopied' BY <1>1, <1>2, <2>1 DEF AsCopied, Tools
  <2>5. AfterTheBatch' BY <1>1, <1>2, <2>1 DEF AfterTheBatch, Present
  <2> QED BY <1>3, <2>3, <2>4, <2>5 DEF RemovalInv
<1> QED BY <1>4, <1>5

\* Steps that leave pages and tool.
LEMMA KeepQuietTool ==
    ASSUME RemovalInv, UNCHANGED <<text, copies, tool, late>>, writes' \in Nat
    PROVE  RemovalInv'
<1>1. RemovalTyped /\ AsRead /\ AsCopied /\ AfterTheBatch /\ tool \in Tools
  BY DEF RemovalInv, RemovalTyped
<1>2. tool.kind \in Working => Doomed' = Doomed BY <1>1, DoomedStays
<1>3. RemovalTyped' /\ AsCopied' /\ AfterTheBatch'
  BY <1>1 DEF RemovalTyped, AsCopied, AfterTheBatch, Present
<1>4. AsRead' BY <1>1, <1>2 DEF AsRead
<1> QED BY <1>3, <1>4 DEF RemovalInv

\* Every step keeps the invariant.
LEMMA RemovalSteps == RemovalInv /\ [RemovalNext]_removalVars => RemovalInv'
<1> SUFFICES ASSUME RemovalInv, [RemovalNext]_removalVars PROVE RemovalInv' OBVIOUS
<1>1. ASSUME NEW kind \in {"delete", "rename", "gc"}, StartTool(kind) PROVE RemovalInv'
  BY <1>1, KeepStart
<1>2. CASE ReadPage BY <1>2, KeepReadPage
<1>3. CASE Decide BY <1>3, KeepDecide
<1>4. CASE CommitBatch BY <1>4, KeepCommitBatch
<1>5. CASE RemoveRaw \/ Forget BY <1>5, KeepEnd
<1>6. CASE StopTool
  <2>1. RemovalTyped' BY <1>6, NoToolIs DEF StopTool, RemovalInv, RemovalTyped
  <2> QED BY <1>6, <2>1, AtRest DEF StopTool
<1>7. CASE AddRaw BY <1>7, KeepQuietTool DEF AddRaw, RemovalInv, RemovalTyped
<1>8. ASSUME NEW n \in Names, Copy(n) PROVE RemovalInv' BY <1>8, KeepCopy
<1>9. ASSUME NEW n \in Names, Collect(n) PROVE RemovalInv' BY <1>9, KeepCollect
<1>10. ASSUME NEW n \in Names, WriteAnew(n) PROVE RemovalInv' BY <1>10, KeepOtherWrite
<1>11. CASE UNCHANGED removalVars
  BY <1>11, KeepQuietTool DEF removalVars, RemovalInv, RemovalTyped
<1> QED BY <1>1, <1>2, <1>3, <1>4, <1>5, <1>6, <1>7, <1>8, <1>9, <1>10, <1>11 DEF RemovalNext

\* The invariant of the tools always holds.
THEOREM RemovalInductive == RemovalSpec => []RemovalInv
<1> QED BY RemovalStarts, RemovalSteps, PTL DEF RemovalSpec

\* Of the pages nobody else wrote, none that could be read cites a source whose raw file
\* is deleted and none links to a name that is gone: ReferencesFollow, for all pages.
THEOREM ReferencesAlwaysFollow == RemovalSpec => []ReferencesFollow
<1>1. RemovalInv => ReferencesFollow BY DEF RemovalInv, AfterTheBatch, ReferencesFollow
<1> QED BY <1>1, RemovalInductive, PTL

\* Every step does what RemovalStep says.
LEMMA RemovedAreCopied == RemovalInv /\ [RemovalNext]_removalVars => RemovalStep
<1> SUFFICES ASSUME RemovalInv, [RemovalNext]_removalVars, NEW n \in Names,
                    text[n] # NoText, text'[n] = NoText, writes' = writes, tool.kind # "rename"
             PROVE  copies[n] # NoText /\ (n \notin late => copies[n] = text[n])
  BY DEF RemovalStep
<1>1. tool \in Tools /\ AsCopied /\ writes \in Nat /\ text \in PageTables
  BY DEF RemovalInv, RemovalTyped
<1>2. CommitBatch \/ \E m \in Names : Collect(m)
  <2>1. ReadPage => UNCHANGED text BY DEF ReadPage
  <2> QED BY <1>1, <2>1
         DEF RemovalNext, removalVars, StartTool, Decide, RemoveRaw, Forget, StopTool, AddRaw,
             Copy, WriteAnew
<1>3. CASE CommitBatch
  <2>1. tool.at = "copy" /\ Uncopied = {} BY <1>3 DEF CommitBatch
  <2>2. n \in tool.doomed
    <3>1. \A m \in DOMAIN Written : Written[m] # NoText BY <1>3, BatchIs, NamesDiffer
    <3> QED BY <1>3, <3>1, BatchIs
  <2>3. copies[n] # NoText BY <2>1, <2>2 DEF Uncopied
  <2> QED BY <1>1, <2>1, <2>2, <2>3 DEF AsCopied
<1>4. ASSUME NEW m \in Names, Collect(m)
      PROVE  copies[n] # NoText /\ (n \notin late => copies[n] = text[n])
  <2>1. n = m BY <1>1, <1>4 DEF Collect, PageTables
  <2>2. tool.at = "copy" /\ n \in tool.doomed /\ tool.kind = "gc" /\ n \notin Uncopied
    BY <1>4, <2>1 DEF Collect
  <2>3. copies[n] # NoText BY <2>2 DEF Uncopied
  <2> QED BY <1>1, <2>2, <2>3 DEF AsCopied
<1> QED BY <1>2, <1>3, <1>4

\* Every page that a tool removes, a rename apart, has a copy: of the text it had,
\* unless somebody wrote it since (RemovalStep).
THEOREM RemovalStepsHold == RemovalSpec => [][RemovalStep]_removalVars
<1> QED BY RemovalInductive, RemovedAreCopied, PTL DEF RemovalSpec

-----------------------------------------------------------------------------
(* Together.                                                               *)
(* What the parts of the canonical store have in common.                   *)

\* The records that are kept, whoever suggests, decides, merges, writes and rebuilds.
THEOREM RecordsAreAlwaysSound == QueueSpec /\ MemorySpec => []RecordsAreSound
  BY QueueIsAlwaysSound, MemoryIsAlwaysSound, PTL DEF RecordsAreSound

\* The rounds of a source, through dispatch, finalization and recompilation.
THEOREM SourcesAreAlwaysSound == FinalSpec /\ RecompileSpec => []SourcesAreSound
  BY PacketsAreAlwaysTrue, OneRecompileAtATime, BudgetIsAlwaysShared, PTL
     DEF SourcesAreSound, RecompileIsSound

\* What was made from a page follows it, or is in the archive.
THEOREM PagesAreAlwaysSound ==
    TimelineSpec /\ ArchiveSpec /\ RemovalSpec => []PagesAreSound
  BY TimelineAlwaysFollows, ArchiveAlwaysSound, ReferencesAlwaysFollow, PTL
     DEF PagesAreSound

\* No step of any part does what its action property excludes.
THEOREM StoreStepsHold ==
    /\ SchemaSpec /\ BackupSpec /\ QueueSpec /\ MemorySpec /\ FinalSpec
    /\ RecompileSpec /\ TimelineSpec /\ ArchiveSpec /\ RemovalSpec
    => StoreStep
  BY UpgradesKeep, OnlyVerifiedGoes, RecordsStand, LosersAreNamed, FinishesHold,
     RecompilesHold, TimelineStepsHold, ArchiveStepsHold, RemovalStepsHold
     DEF StoreStep, LosersHaveWinners
=============================================================================
