---------------------------- MODULE Finalization ----------------------------
(***************************************************************************)
(* How an ingest job of vector_lake becomes pages: the packet that the     *)
(* dispatch worker builds from what it reads (tool_ingest.                 *)
(* refresh_ingest_dispatch_payload, requeue_legacy_ingest_jobs), and       *)
(* finalize_ingest, which checks the answer of the agent against that      *)
(* packet, composes the pages outside of any lock, and commits them with   *)
(* the ledger and the job in one transaction.  Raw files, pages and        *)
(* Markdown files are changed by others all the time.                      *)
(*                                                                         *)
(* The queue and the leases are those of IngestJobs; here a claimed row    *)
(* names the finalizer whose lease is current.                             *)
(***************************************************************************)
EXTENDS Naturals, FiniteSets

CONSTANTS
    Sources,         \* raw files; the canonical Source page of each has its name
    Targets,         \* pages of other types, which may get relations to a source
    Versions,        \* what a raw file may hold
    Finalizers,      \* agents' answers that are being finalized
    MaxFinalUpsets,  \* bound: edits of files and pages, lapses
    NoPage

VARIABLES
    raw,       \* source -> what the file holds
    canon,     \* page -> its canonical content, the newest payload of the outbox
    markdown,  \* page -> its Markdown file
    ledger,    \* source -> processed_files
    job,       \* source -> its job and the payload of it; torn is history: the
               \* text was queued for a hash that was no longer the file's
    worker,    \* source -> what a dispatch has read so far
    fin,       \* finalizer -> what it does
    finalUpsets

finalVars == <<raw, canon, markdown, ledger, job, worker, fin, finalUpsets>>

Pages == Sources \cup Targets
Page(text, stamp) == [text |-> text, extra |-> 0, stamp |-> stamp, rels |-> {}]

\* No page has the name of a source but its own; 0 is the hash of nothing.
ASSUME FinalAssumption ==
    /\ 1 \in Versions /\ Versions \subseteq Nat \ {0}
    /\ Sources \cap Targets = {}
    /\ NoPage \notin [text : {0, 1}, extra : {0, 1}, stamp : Versions \cup {0}, rels : SUBSET Pages]

\* The version of a page covers its text and links; of the frontmatter, all of
\* a stamped Source page, but only known keys of another page.
Version(p, c) == IF c = NoPage \/ c.stamp # 0 THEN c ELSE [c EXCEPT !.extra = 0]

NoOffers == [t \in Targets |-> NoPage]
NoPacket == [at |-> "none", base |-> NoPage, offers |-> NoOffers, projection |-> 0]
NoJob == [status |-> "none", hash |-> 0, current |-> TRUE, lease |-> NoPage,
          base |-> NoPage, offers |-> NoOffers, projection |-> 0, torn |-> FALSE]
NoAnswer == [at |-> "idle", of |-> CHOOSE s \in Sources : TRUE,
             write |-> <<>>, expect |-> <<>>, proof |-> NoPage]

\* Pages may exist, stamped or not; jobs of an earlier release may wait.
FinalInit ==
    /\ raw = [s \in Sources |-> 1]
    /\ canon \in [Pages -> {NoPage, Page(0, 0), Page(0, 1)}]
    /\ \A t \in Targets : canon[t] # Page(0, 1)
    /\ markdown = canon
    /\ ledger = [s \in Sources |-> 0]
    /\ job \in [Sources -> {NoJob, [NoJob EXCEPT !.status = "queued", !.hash = 1, !.current = FALSE],
                            [NoJob EXCEPT !.status = "ready", !.hash = 1, !.current = FALSE]}]
    /\ worker = [s \in Sources |-> NoPacket]
    /\ fin = [f \in Finalizers |-> NoAnswer]
    /\ finalUpsets = 0

FinalUpset == finalUpsets < MaxFinalUpsets /\ finalUpsets' = finalUpsets + 1
-----------------------------------------------------------------------------
(* The packet.                                                             *)

\* A scan hashes the file, and reads it again when it writes the payload.
Find(s) ==
    /\ job[s].status \in {"none", "final"} /\ raw[s] # ledger[s]
    /\ job' = [job EXCEPT ![s] = [NoJob EXCEPT !.status = "found", !.hash = raw[s]]]
    /\ UNCHANGED <<raw, canon, markdown, ledger, worker, fin, finalUpsets>>

Enqueue(s) ==
    /\ job[s].status = "found"
    /\ job' = [job EXCEPT ![s].status = "queued", ![s].projection = raw[s],
                          ![s].torn = (raw[s] # job[s].hash)]
    /\ UNCHANGED <<raw, canon, markdown, ledger, worker, fin, finalUpsets>>

\* requeue_legacy_ingest_jobs: an old packet is rebuilt with the text of now.
Rebuild(s) ==
    /\ job[s].status \in {"queued", "ready"} /\ ~job[s].current
    /\ job' = [job EXCEPT ![s].status = "queued", ![s].current = TRUE, ![s].projection = raw[s],
                          ![s].torn = (raw[s] # job[s].hash)]
    /\ UNCHANGED <<raw, canon, markdown, ledger, worker, fin, finalUpsets>>

\* _read_canonical_target_content: the file, if it says what the canonical
\* tables say, or the payload of the outbox that does.
Snapshot(t) ==
    IF markdown[t] # NoPage /\ Version(t, markdown[t]) = Version(t, canon[t])
    THEN markdown[t] ELSE canon[t]

Offered(t) == IF canon[t] = NoPage \/ markdown[t] = NoPage THEN NoPage ELSE Snapshot(t)

\* refresh_ingest_dispatch_payload: the hash, the candidates, the text, and
\* the hash again.
Look(s) ==
    /\ job[s].status = "queued" /\ job[s].current
    /\ worker[s].at = "none" /\ raw[s] = job[s].hash
    /\ worker' = [worker EXCEPT ![s] = [NoPacket EXCEPT !.at = "looked",
                     !.base = Version(s, canon[s]), !.offers = [t \in Targets |-> Offered(t)]]]
    /\ UNCHANGED <<raw, canon, markdown, ledger, job, fin, finalUpsets>>

ReadText(s) ==
    /\ worker[s].at = "looked"
    /\ worker' = [worker EXCEPT ![s].at = "read", ![s].projection = raw[s]]
    /\ UNCHANGED <<raw, canon, markdown, ledger, job, fin, finalUpsets>>

(* As if the hash were enough.                                             *)
SameText_Hash(s) == raw[s] = job[s].hash

\* Both hash checks agree with the job, and the text with the queued one.
SameText(s) == raw[s] = job[s].hash /\ worker[s].projection = job[s].projection

HandOff(s) ==
    /\ worker[s].at = "read" /\ SameText(s)
    /\ job' = [job EXCEPT ![s].status = "ready", ![s].base = worker[s].base,
                          ![s].offers = worker[s].offers, ![s].projection = worker[s].projection]
    /\ worker' = [worker EXCEPT ![s] = NoPacket]
    /\ UNCHANGED <<raw, canon, markdown, ledger, fin, finalUpsets>>

\* The dispatch is refused, or its process stops: the row stays as it was.
DispatchFails(s) ==
    /\ worker[s].at # "none"
    /\ worker' = [worker EXCEPT ![s] = NoPacket]
    /\ UNCHANGED <<raw, canon, markdown, ledger, job, fin, finalUpsets>>

\* Its attempts are spent, and a scan may find the file again.
GivesUp(s) ==
    /\ job[s].status \in {"queued", "ready"} /\ worker[s].at = "none"
    /\ job' = [job EXCEPT ![s] = NoJob]
    /\ UNCHANGED <<raw, canon, markdown, ledger, worker, fin, finalUpsets>>
-----------------------------------------------------------------------------
(* finalize_ingest                                                         *)

Claim(f, s) ==
    /\ fin[f].at = "idle" /\ job[s].status = "ready"
    /\ job' = [job EXCEPT ![s].status = "claimed", ![s].lease = f]
    /\ fin' = [fin EXCEPT ![f] = [NoAnswer EXCEPT !.at = "claimed", !.of = s]]
    /\ UNCHANGED <<raw, canon, markdown, ledger, worker, finalUpsets>>

\* validate_ingest_job_finalization
Holds(f) == job[fin[f].of].status = "claimed" /\ job[fin[f].of].lease = f

\* _verify_source_projection; a packet without a baseline is tolerated.
Baseline(s) == job[s].current => raw[s] = job[s].hash /\ raw[s] = job[s].projection

(* As if a target had only to be one of the packet's candidates.           *)
Relatable_Offered(s, t) == job[s].offers[t] # NoPage /\ canon[t] # NoPage /\ markdown[t] # NoPage

\* A relation names a candidate of the packet that still is what was offered.
Relatable(s, t) ==
    /\ job[s].offers[t] # NoPage /\ markdown[t] # NoPage
    /\ Version(t, canon[t]) = Version(t, job[s].offers[t])
    /\ Snapshot(t) = job[s].offers[t]

Related(s, t) == [Snapshot(t) EXCEPT !.rels = @ \cup {s}]
Compiled(s, targets) == [Page(0, job[s].hash) EXCEPT !.rels = targets]

(* As if a submitted version were believed.                                *)
Required_Asked(s, p, targets) == IF p = s THEN job[s].base ELSE Version(p, canon[p])

\* The Source page replaces the one of the dispatch, a target what was offered,
\* and any other page has to be new.
Required(s, p, targets) ==
    CASE p = s -> job[s].base
      [] p \in targets -> Version(p, job[s].offers[p])
      [] OTHER -> NoPage

\* _apply_integration_disposition, "standalone" or "integrated". The agent may
\* submit another page.
Check(f) ==
    LET s == fin[f].of
    IN /\ fin[f].at = "claimed" /\ Holds(f) /\ Baseline(s)
       /\ \E targets \in SUBSET Targets, others \in SUBSET Targets :
            /\ Cardinality(others) <= 1 /\ targets \cap others = {}
            /\ job[s].current \/ targets = {}
            /\ \A t \in targets : Relatable(s, t)
            /\ LET pages == {s} \cup targets \cup others
               IN fin' = [fin EXCEPT ![f].at = "checked",
                     ![f].write = [p \in pages |-> CASE p = s -> Compiled(s, targets)
                                                     [] p \in targets -> Related(s, p)
                                                     [] OTHER -> Page(1, 0)],
                     ![f].expect = [p \in pages |-> Required(s, p, targets)]]
       /\ UNCHANGED <<raw, canon, markdown, ledger, job, worker, finalUpsets>>

FinishJob(f) ==
    /\ job' = [job EXCEPT ![fin[f].of].status = "final", ![fin[f].of].lease = NoPage]
    /\ ledger' = [ledger EXCEPT ![fin[f].of] = job[fin[f].of].hash]
    /\ fin' = [fin EXCEPT ![f] = NoAnswer]

Conflicts(f) == {p \in DOMAIN fin[f].expect : Version(p, canon[p]) # fin[f].expect[p]}

\* execute_mutation_batch: everything is checked again in the transaction; each
\* Markdown file follows at once, or later.
Commit(f) ==
    LET write == fin[f].write
    IN /\ fin[f].at = "checked" /\ Holds(f) /\ Baseline(fin[f].of)
       /\ Conflicts(f) = {}
       /\ canon' = [p \in Pages |-> IF p \in DOMAIN write THEN write[p] ELSE canon[p]]
       /\ markdown' \in {markdown,
                        [p \in Pages |-> IF p \in DOMAIN write THEN write[p] ELSE markdown[p]]}
       /\ FinishJob(f)
       /\ UNCHANGED <<raw, worker, finalUpsets>>

(* As if the stamp of the page were the hash of what the file holds.       *)
Evidence_NoBytes(s) ==
    IF canon[s] # NoPage /\ markdown[s] = canon[s] /\ canon[s].stamp # 0 THEN markdown[s] ELSE NoPage

\* current_source_publication_evidence: the bytes of the raw file, the stamp in
\* the canonical tables and the Markdown file agree.
Evidence(s) ==
    IF /\ raw[s] = job[s].hash /\ canon[s] # NoPage /\ markdown[s] # NoPage
       /\ Version(s, markdown[s]) = Version(s, canon[s]) /\ canon[s].stamp = raw[s]
    THEN markdown[s] ELSE NoPage

\* The disposition "duplicate" writes no page. The evidence is taken twice.
CheckSame(f) ==
    LET s == fin[f].of
    IN /\ fin[f].at = "claimed" /\ Holds(f) /\ Baseline(s)
       /\ Evidence(s) # NoPage
       /\ fin' = [fin EXCEPT ![f].at = "same", ![f].proof = Evidence(s)]
       /\ UNCHANGED <<raw, canon, markdown, ledger, job, worker, finalUpsets>>

CommitSame(f) ==
    /\ fin[f].at = "same" /\ Holds(f) /\ Baseline(fin[f].of)
    /\ Evidence(fin[f].of) = fin[f].proof
    /\ FinishJob(f)
    /\ UNCHANGED <<raw, canon, markdown, worker, finalUpsets>>

\* Refused, or the process stops: the row is retried.
Refused(f) ==
    /\ fin[f].at # "idle"
    /\ fin' = [fin EXCEPT ![f] = NoAnswer]
    /\ job' = IF Holds(f) THEN [job EXCEPT ![fin[f].of].status = "queued", ![fin[f].of].lease = NoPage]
                          ELSE job
    /\ UNCHANGED <<raw, canon, markdown, ledger, worker, finalUpsets>>
-----------------------------------------------------------------------------
(* Everybody else.                                                         *)

\* A lease runs out and another finalizer may claim the row.
Lapse(s) ==
    /\ FinalUpset /\ job[s].status = "claimed"
    /\ job' = [job EXCEPT ![s].status = "ready", ![s].lease = NoPage]
    /\ UNCHANGED <<raw, canon, markdown, ledger, worker, fin>>

EditRaw(s) ==
    /\ FinalUpset
    /\ \E v \in Versions \ {raw[s]} : raw' = [raw EXCEPT ![s] = v]
    /\ UNCHANGED <<canon, markdown, ledger, job, worker, fin>>

Reworded(c) == {[c EXCEPT !.text = 1 - @], [c EXCEPT !.extra = 1 - @], [c EXCEPT !.stamp = 0]} \ {c}

\* Another batch rewrites, writes or deletes a page.
OtherWrite(p) ==
    /\ FinalUpset
    /\ \E c \in IF canon[p] = NoPage THEN {Page(1, 0)} ELSE Reworded(canon[p]) \cup {NoPage} :
         canon' = [canon EXCEPT ![p] = c]
    /\ UNCHANGED <<raw, markdown, ledger, job, worker, fin>>

\* An edit of the Markdown file; the watcher brings it in or takes it back.
HandEdit(p) ==
    /\ FinalUpset /\ markdown[p] # NoPage
    /\ \E c \in Reworded(markdown[p]) : markdown' = [markdown EXCEPT ![p] = c]
    /\ UNCHANGED <<raw, canon, ledger, job, worker, fin>>

Project(p) ==
    /\ markdown[p] # canon[p]
    /\ markdown' = [markdown EXCEPT ![p] = canon[p]]
    /\ UNCHANGED <<raw, canon, ledger, job, worker, fin, finalUpsets>>

FinalNext ==
    \/ \E s \in Sources :
         \/ Find(s) \/ Enqueue(s) \/ Rebuild(s)
         \/ Look(s) \/ ReadText(s) \/ HandOff(s) \/ DispatchFails(s) \/ GivesUp(s)
         \/ Lapse(s) \/ EditRaw(s)
         \/ \E f \in Finalizers : Claim(f, s)
    \/ \E f \in Finalizers : Check(f) \/ Commit(f) \/ CheckSame(f) \/ CommitSame(f) \/ Refused(f)
    \/ \E p \in Pages : OtherWrite(p) \/ HandEdit(p) \/ Project(p)

FinalSpec == FinalInit /\ [][FinalNext]_finalVars
-----------------------------------------------------------------------------
\* A packet that is handed out holds the text that its hash is the hash of,
\* whatever the file became while the dispatch read it, unless it already waited
\* with another (the file changed between the scan's hash and its text, and
\* back): the dispatch compares texts with the waiting one.
PacketsAreTrue ==
    \A s \in Sources : job[s].status \in {"ready", "claimed"} /\ job[s].current
        => job[s].projection = job[s].hash \/ job[s].torn

Finishes(s) == job[s].status = "claimed" /\ job'[s].status = "final"

\* What is entered in the ledger is on a canonical Source page with that stamp,
\* and in the raw file.
Entered(s) ==
    /\ canon'[s] # NoPage /\ canon'[s].stamp = ledger'[s]
    /\ job[s].current => raw[s] = ledger'[s]

\* A finished job adds its relation, on both sides, to pages that are as they
\* were offered, and replaces no other page and no newer Source page.
Respects(s) ==
    /\ canon'[s] # canon[s] => Version(s, canon[s]) = job[s].base
    /\ \A p \in Pages \ {s} : canon'[p] # canon[p] =>
         IF canon[p] = NoPage THEN canon'[p].rels = {}
         ELSE /\ Version(p, canon[p]) = Version(p, job[s].offers[p])
              /\ canon'[p].text = canon[p].text
              /\ canon'[p].rels = canon[p].rels \cup {s} /\ p \in canon'[s].rels

FinalStep ==
    \A s \in Sources : /\ ledger'[s] # ledger[s] => Finishes(s) /\ Entered(s)
                       /\ Finishes(s) => Respects(s)
=============================================================================
