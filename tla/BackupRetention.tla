-------------------------- MODULE BackupRetention --------------------------
(* Backups of vector_lake: how db_store.backup_database and                  *)
(* tool_projection.create_maintenance_backup publish a unit, and how         *)
(* backup_retention removes old ones. All of them hold the lock of the       *)
(* backup directory; a process that ends lets it go wherever it is.          *)
EXTENDS FiniteSets, Naturals

CONSTANTS Backers,    \* processes that write or prune backups
          Units,      \* numbered in the order of their time stamps
          KeepCount,  \* copies that retention keeps at most
          MaxBad,     \* units whose content changes on the disk
          NoBacker

ASSUME UnitsAssumption == IsFiniteSet(Units) /\ Units = 1 .. Cardinality(Units)
ASSUME BackersAssumption == NoBacker \notin Backers
ASSUME KeepAssumption == KeepCount \in Nat \ {0} /\ MaxBad \in Nat

VARIABLES unit,    \* [Units -> what there is of each]
          bad,     \* units whose content is not that of their receipt
          holder,  \* the process that holds the directory's lock
          backer   \* [Backers -> what the process does]

backupVars == <<unit, bad, holder, backer>>

(* "partial": the staging file or directory; "bare": published without a     *)
(* receipt; "ready": a staging directory with its manifest; "sealed":        *)
(* published and with its receipt; "torn": some of its files are deleted.    *)
States == {"none", "partial", "bare", "ready", "sealed", "torn"}
Kinds == {"database", "directory"}
Done == [at |-> "done", of |-> 0, blind |-> {}, keep |-> {}, remove |-> {}]

BackupTypeOK ==
    /\ unit \in [Units -> States]
    /\ bad \subseteq Units
    /\ holder \in Backers \cup {NoBacker}
    /\ backer \in [Backers -> [at : Kinds \cup {"done", "plan", "unlink"}, of : {0} \cup Units,
                               blind : SUBSET Units, keep : SUBSET Units, remove : SUBSET Units]]

\* Backups of earlier releases have no receipt.
BackupInit ==
    /\ unit \in [Units -> {"none", "bare", "sealed"}]
    /\ \A u \in Units : unit[u] = "none" => \A v \in Units : v > u => unit[v] = "none"
    /\ bad = {} /\ holder = NoBacker
    /\ backer = [b \in Backers |-> Done]

\* scan_backups and _verified_members: what is published and matches its receipt.
Verified_Published == {u \in Units : unit[u] \in {"sealed", "bare"}} \ bad

Verified == {u \in Units : unit[u] = "sealed" /\ u \notin bad}

Lock(b) == holder = NoBacker /\ holder' = b
Unlock(b) == holder' = IF holder = b THEN NoBacker ELSE holder
Ends(b) == backer' = [backer EXCEPT ![b] = Done] /\ Unlock(b)
----------------------------------------------------------------------------
Oldest(free) == CHOOSE u \in free : \A v \in free : u <= v

\* A unit has a name of its own, newer than all there are.
StartBackup(b, kind) ==
    LET free == {u \in Units : \A v \in Units : v >= u => unit[v] = "none"}
    IN /\ backer[b].at = "done" /\ free # {}
       /\ Lock(b)
       /\ unit' = [unit EXCEPT ![Oldest(free)] = "partial"]
       /\ backer' = [backer EXCEPT ![b] = [Done EXCEPT !.at = kind, !.of = Oldest(free)]]
       /\ UNCHANGED bad

\* The snapshot is checked before it gets its name. A database file is
\* published first and sealed then, a directory the other way round.
Advance(b) ==
    LET u == backer[b].of
    IN /\ \/ /\ backer[b].at = "database" /\ unit[u] \in {"partial", "bare"}
             /\ unit' = [unit EXCEPT ![u] = IF @ = "partial" THEN "bare" ELSE "sealed"]
          \/ /\ backer[b].at = "directory" /\ unit[u] \in {"partial", "ready"}
             /\ unit' = [unit EXCEPT ![u] = IF @ = "partial" THEN "ready" ELSE "sealed"]
       /\ UNCHANGED <<bad, holder, backer>>

EndBackup(b) ==
    /\ backer[b].at \in Kinds /\ unit[backer[b].of] = "sealed"
    /\ Ends(b)
    /\ UNCHANGED <<unit, bad>>

\* An error: the staging file is removed, a staging directory stays.
BackupFails(b) ==
    /\ backer[b].at \in Kinds /\ unit[backer[b].of] # "sealed"
    /\ unit' = IF backer[b].at = "database" /\ unit[backer[b].of] = "partial"
               THEN [unit EXCEPT ![backer[b].of] = "none"] ELSE unit
    /\ Ends(b)
    /\ UNCHANGED bad
----------------------------------------------------------------------------
Newest(n, set) == {u \in set : Cardinality({v \in set : v > u}) < n}

\* _plan: the newest copies are kept, fewer when they are too large together,
\* never none. Verification has a budget: what it does not reach is protected.
StartPrune(b) ==
    /\ backer[b].at = "done" /\ Lock(b)
    /\ \E seen \in SUBSET Verified, n \in 1 .. KeepCount :
         backer' = [backer EXCEPT ![b] =
             [at |-> "plan", of |-> 0, blind |-> {}, keep |-> Newest(n, seen),
              remove |-> seen \ Newest(n, seen)]]
    /\ UNCHANGED <<unit, bad>>

(* As if the retained copies were verified before the first removal only.   *)
Retained_Once(b) ==
    backer[b].keep \cap Verified # {} \/ backer[b].of # 0

\* A retained copy still matches its receipt.
Retained(b) == backer[b].keep \cap Verified # {}

\* Before each removal a retained copy is verified again, then the candidate;
\* one that changed is left alone.
Choose(b) ==
    /\ backer[b].at = "plan" /\ Retained(b)
    /\ \E u \in backer[b].remove :
         backer' = [backer EXCEPT ![b].of = u, ![b].remove = @ \ {u},
                                  ![b].at = IF u \in Verified THEN "unlink" ELSE "plan"]
    /\ UNCHANGED <<unit, bad, holder>>

\* File by file, the receipt last. (History: "blind" are the units that a
\* pass began to delete when none of the copies it retains was good.)
Unlink(b) ==
    LET u == backer[b].of
    IN /\ backer[b].at = "unlink"
       /\ unit' = [unit EXCEPT ![u] = IF @ = "sealed" THEN "torn" ELSE "none"]
       /\ backer' = [backer EXCEPT ![b].at = IF unit[u] = "torn" THEN "plan" ELSE @,
              ![b].blind = IF unit[u] = "sealed" /\ backer[b].keep \cap Verified = {} THEN @ \cup {u} ELSE @]
       /\ UNCHANGED <<bad, holder>>

\* A file that cannot be deleted: the rest of the unit stays.
UnlinkFails(b) ==
    /\ backer[b].at = "unlink"
    /\ backer' = [backer EXCEPT ![b].at = "plan"]
    /\ UNCHANGED <<unit, bad, holder>>

\* Nothing is left to remove, or no retained copy could be verified in time.
EndPrune(b) ==
    /\ backer[b].at = "plan"
    /\ Ends(b)
    /\ UNCHANGED <<unit, bad>>
----------------------------------------------------------------------------
BackerStops(b) ==
    /\ backer[b].at # "done"
    /\ Ends(b)
    /\ UNCHANGED <<unit, bad>>

\* The content of a published unit changes on the disk.
GoesBad(u) ==
    /\ unit[u] = "sealed" /\ u \notin bad /\ Cardinality(bad) < MaxBad
    /\ bad' = bad \cup {u}
    /\ UNCHANGED <<unit, holder, backer>>

BackupNext ==
    \/ \E b \in Backers :
         \/ \E kind \in Kinds : StartBackup(b, kind)
         \/ Advance(b) \/ EndBackup(b) \/ BackupFails(b)
         \/ StartPrune(b) \/ Choose(b) \/ Unlink(b) \/ UnlinkFails(b) \/ EndPrune(b)
         \/ BackerStops(b)
    \/ \E u \in Units : GoesBad(u)

BackupSpec == BackupInit /\ [][BackupNext]_backupVars
----------------------------------------------------------------------------
(* A pass whose retained copies all go bad while it works takes at most the  *)
(* one copy it had in hand: the other candidates are left to restore from.   *)
ACopyIsLeft == \A b \in Backers : Cardinality(backer[b].blind) <= 1

(* One process at a time changes the directory.                              *)
OneBacker == \A b \in Backers : backer[b].at # "done" => holder = b

BackupsAreSafe == ACopyIsLeft /\ OneBacker

(* Retention removes what it has verified: legacy, incomplete and changed    *)
(* backups stay.                                                             *)
BackupStep ==
    \A u \in Units : unit'[u] \in {"torn", "none"} /\ unit[u] \notin {"torn", "none", "partial"}
        => unit[u] = "sealed" /\ \E b \in Backers : backer[b].at = "unlink" /\ backer[b].of = u
=============================================================================
