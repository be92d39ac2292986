-------------------------- MODULE EmbeddingClients --------------------------
(***************************************************************************)
(* _ClientManager of embedding_scheduler: the threads of one process share *)
(* at most two generations of a provider client.  A thread borrows the     *)
(* active generation of its configuration, or retires the others and       *)
(* builds one; the last to leave a retired generation closes it;           *)
(* reset_client_cache and shutdown invalidate what is active or still      *)
(* being built.  What a lock region of the condition does is one action;   *)
(* building and closing a client happen outside of it.                     *)
(***************************************************************************)
EXTENDS FiniteSets, Naturals

CONSTANTS
    Threads,      \* threads that borrow a client
    Admins,       \* threads that reset or shut down
    Keys,         \* client configurations
    Gens,         \* generation objects, reused once they left the list
    Nobody,       \* no generation
    MaxResets,    \* bound: invalidations
    MaxFailures   \* bound: constructors and closes that raise

\* Who resets or shuts down is not in a request meanwhile.
ASSUME ActorsAssumption == Threads \cap Admins = {}
ASSUME BoundsAssumption == MaxResets \in Nat /\ MaxFailures \in Nat

VARIABLES
    gens,      \* the list: state, configuration, epoch, borrowers
    epoch,     \* counts invalidations
    stopped,   \* shut down
    proc,      \* thread -> what it is doing, with which generation
    closing,   \* thread -> generations it has to close
    failures   \* exceptions so far

vars == <<gens, epoch, stopped, proc, closing, failures>>

Actors == Threads \cup Admins

\* _ClientGeneration, and an object that is in no list.
States == {"constructing", "active", "retired", "closing", "close_failed"}
Generation == [state : States \cup {"absent"}, key : Keys,
               epoch : 0..MaxResets, users : SUBSET Threads]
Listed == {g \in Gens : gens[g].state # "absent"}
InState(s) == {g \in Gens : gens[g].state = s}

Init ==
    /\ gens \in [Gens -> {[state |-> "absent", key |-> k, epoch |-> 0, users |-> {}] : k \in Keys}]
    /\ \A g, h \in Gens : gens[g] = gens[h]
    /\ epoch = 0 /\ stopped = FALSE
    /\ proc = [a \in Actors |-> [at |-> "idle", gen |-> Nobody]]
    /\ closing = [a \in Actors |-> {}]
    /\ failures = 0

Become(a, at, g) == proc' = [proc EXCEPT ![a] = [at |-> at, gen |-> g]]
Removed(g) == gens' = [gens EXCEPT ![g].state = "absent", ![g].users = {}]

-----------------------------------------------------------------------------
\* Operators with a suffix after an underscore are faulty variants: they show
\* which property would notice, and no specification uses them.

\* Active generations retire; retired ones that nobody uses are to be closed.
Unused(g) == gens[g].users = {} /\ gens[g].state \in {"active", "retired"}
RetireAll ==
    [g \in Gens |->
        IF Unused(g) THEN [gens[g] EXCEPT !.state = "closing"]
        ELSE IF gens[g].state = "active" THEN [gens[g] EXCEPT !.state = "retired"]
        ELSE gens[g]]

-----------------------------------------------------------------------------
(* borrow.                                                                 *)

Ask(t) ==
    /\ proc[t].at = "idle" /\ closing[t] = {}
    /\ Become(t, "asking", Nobody)
    /\ UNCHANGED <<gens, epoch, stopped, closing, failures>>

\* The wait ends: shut down, or no time left.
GiveUp(t) ==
    /\ proc[t].at = "asking" /\ closing[t] = {}
    /\ Become(t, "idle", Nobody)
    /\ UNCHANGED <<gens, epoch, stopped, closing, failures>>

Selected(k) == {g \in InState("active") : gens[g].key = k}

Borrow(t, k) ==
    /\ proc[t].at = "asking" /\ closing[t] = {} /\ ~stopped
    /\ \E g \in Selected(k) :
          /\ gens' = [gens EXCEPT ![g].users = @ \cup {t}]
          /\ Become(t, "using", g)
    /\ UNCHANGED <<epoch, stopped, closing, failures>>

\* No client of this configuration is active: the others retire, and what is
\* unused is closed before the list is looked at again.
Misses(t, k) == /\ proc[t].at = "asking" /\ closing[t] = {} /\ ~stopped
                /\ Selected(k) = {}
Retire(t, k) ==
    /\ Misses(t, k) /\ \E g \in Gens : Unused(g)
    /\ gens' = RetireAll
    /\ closing' = [closing EXCEPT ![t] = {g \in Gens : Unused(g)}]
    /\ UNCHANGED <<epoch, stopped, proc, failures>>

\* Room for a reservation: two generations, one of them being built.
Room_Retired == /\ Cardinality({g \in Listed : gens[g].state # "retired"}) < 2
                /\ InState("constructing") = {}
Room == Cardinality(Listed) < 2 /\ InState("constructing") = {}
Reserve(t, k) ==
    /\ Misses(t, k) /\ \A g \in Gens : ~Unused(g)
    /\ Room
    /\ \E g \in Gens \ Listed :
          /\ gens' = [RetireAll EXCEPT ![g] = [state |-> "constructing", key |-> k,
                                               epoch |-> epoch, users |-> {}]]
          /\ Become(t, "building", g)
    /\ UNCHANGED <<epoch, stopped, closing, failures>>

\* No room: the thread waits to be notified, with the active one retired.
Wait(t, k) ==
    /\ Misses(t, k) /\ \A g \in Gens : ~Unused(g)
    /\ ~Room /\ InState("active") # {}
    /\ gens' = RetireAll
    /\ UNCHANGED <<epoch, stopped, proc, closing, failures>>

ConstructionFails(t) ==
    /\ proc[t].at = "building" /\ failures < MaxFailures
    /\ Removed(proc[t].gen)
    /\ Become(t, "idle", Nobody)
    /\ failures' = failures + 1
    /\ UNCHANGED <<epoch, stopped, closing>>

\* A client built under an older epoch must not be handed out.
Invalidated(g) == stopped \/ gens[g].epoch # epoch

Publish(t) ==
    /\ proc[t].at = "building" /\ ~Invalidated(proc[t].gen)
    /\ gens' = [gens EXCEPT ![proc[t].gen].state = "active", ![proc[t].gen].users = {t}]
    /\ Become(t, "using", proc[t].gen)
    /\ UNCHANGED <<epoch, stopped, closing, failures>>

\* Invalidated, or the budget of the acquisition is used up.
Discard(t) ==
    /\ proc[t].at = "building"
    /\ gens' = [gens EXCEPT ![proc[t].gen].state = "closing"]
    /\ closing' = [closing EXCEPT ![t] = {proc[t].gen}]
    /\ Become(t, "idle", Nobody)
    /\ UNCHANGED <<epoch, stopped, failures>>

\* The request is over; the last one out of a retired generation closes it.
LastOut_Never(t, g) == FALSE
LastOut(t, g) == gens[g].state = "retired" /\ gens[g].users = {t}

Return(t) ==
    LET g == proc[t].gen IN
    /\ proc[t].at = "using"
    /\ gens' = [gens EXCEPT ![g].users = @ \ {t},
                            ![g].state = IF LastOut(t, g) THEN "closing" ELSE @]
    /\ closing' = [closing EXCEPT ![t] = IF LastOut(t, g) THEN {g} ELSE {}]
    /\ Become(t, "idle", Nobody)
    /\ UNCHANGED <<epoch, stopped, failures>>

-----------------------------------------------------------------------------
(* invalidate, and the closing of clients.                                 *)

\* shutdown stops, reopen starts again, a plain reset leaves it as it is.
Invalidate(a, stop) ==
    /\ closing[a] = {} /\ epoch < MaxResets
    /\ epoch' = epoch + 1
    /\ stopped' = stop
    /\ gens' = RetireAll
    /\ closing' = [closing EXCEPT ![a] = {g \in Gens : Unused(g)}]
    /\ UNCHANGED <<proc, failures>>

Close(a, g) ==
    /\ g \in closing[a]
    /\ Removed(g)
    /\ closing' = [closing EXCEPT ![a] = @ \ {g}]
    /\ UNCHANGED <<epoch, stopped, proc, failures>>

\* The resource stays listed, and counts against the two, for good.
CloseFails(a, g) ==
    /\ g \in closing[a] /\ failures < MaxFailures
    /\ gens' = [gens EXCEPT ![g].state = "close_failed"]
    /\ closing' = [closing EXCEPT ![a] = @ \ {g}]
    /\ failures' = failures + 1
    /\ UNCHANGED <<epoch, stopped, proc>>

BorrowStep(t) ==
    \/ Ask(t) \/ GiveUp(t)
    \/ \E k \in Keys : Borrow(t, k) \/ Retire(t, k) \/ Reserve(t, k) \/ Wait(t, k)
    \/ ConstructionFails(t) \/ Publish(t) \/ Discard(t) \/ Return(t)
CloseStep(a) == \E g \in Gens : Close(a, g) \/ CloseFails(a, g)

Next ==
    \/ \E t \in Threads : BorrowStep(t)
    \/ \E a \in Admins : \E stop \in BOOLEAN : Invalidate(a, stop)
    \/ \E a \in Actors : CloseStep(a)

Spec == Init /\ [][Next]_vars

\* Requests, constructors and closes end (each has its timeout); nobody has
\* to ask, and no borrower has to be served.
Fairness ==
    /\ \A t \in Threads : WF_vars(Return(t)) /\ WF_vars(Publish(t) \/ Discard(t))
    /\ \A a \in Actors : WF_vars(CloseStep(a))
FairSpec == Spec /\ Fairness

-----------------------------------------------------------------------------
(* Correctness.                                                            *)

\* Type invariant of the generations and of the threads' memories.
TypeOK ==
    /\ gens \in [Gens -> Generation]
    /\ epoch \in 0..MaxResets /\ stopped \in BOOLEAN
    /\ proc \in [Actors -> [at : {"idle", "asking", "building", "using"},
                            gen : Gens \cup {Nobody}]]
    /\ closing \in [Actors -> SUBSET Gens]
    /\ failures \in 0..MaxFailures

\* A thread in a request holds a client nobody has closed or is closing,
\* whoever reset, shut down, retired or returned meanwhile.
NoUseAfterClose ==
    \A t \in Threads : proc[t].at = "using" =>
        /\ gens[proc[t].gen].state \in {"active", "retired"}
        /\ t \in gens[proc[t].gen].users

\* A client is handed out only if it was built after the last invalidation,
\* and never after a shutdown.
ActiveIsCurrent ==
    \A g \in InState("active") : gens[g].epoch = epoch /\ ~stopped

\* Never more than two clients, those that would not close included, and
\* never two that are handed out.
AtMostTwo == Cardinality(Listed) <= 2 /\ Cardinality(InState("active")) <= 1

\* A client is closed by one thread, the one that took it out of use.
OneCloser ==
    /\ \A a, b \in Actors : a # b => closing[a] \cap closing[b] = {}
    /\ UNION {closing[a] : a \in Actors} = InState("closing")

\* What the manager promises to its borrowers and to the provider: clients in
\* use are open and as new as the last reset, there are few of them, and each
\* is closed once.
ClientsAreSound == NoUseAfterClose /\ ActiveIsCurrent /\ AtMostTwo /\ OneCloser

\* After a shutdown all clients are closed, but for those that would not.
ShutdownDrains == stopped ~> (~stopped \/ Listed = InState("close_failed"))
=============================================================================
