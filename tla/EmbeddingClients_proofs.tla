---------------------- MODULE EmbeddingClients_proofs -----------------------
(***************************************************************************)
(* Proofs about the parts of embedding, for every instance:                *)
(* EmbeddingClients, EmbeddingQuota, Embeddings and QueryFlight.           *)
(***************************************************************************)
EXTENDS EmbeddingParts, FiniteSetTheorems, SequenceTheorems, NaturalsInduction,
        WellFoundedInduction, TLAPS

-----------------------------------------------------------------------------
(* EmbeddingClients.                                                       *)
(* A generation that is new or handed out is the only one of its kind: a   *)
(* reservation retires the others and needs that none is being built.  A   *)
(* thread in a request is among the borrowers of its generation, which     *)
(* therefore is neither unused nor left by its last borrower; what is      *)
(* closed was put on the list of one thread by the step that took it out   *)
(* of use.                                                                 *)

Memory == [at : {"idle", "asking", "building", "using"}, gen : Gens \cup {Nobody}]

\* A thread that builds or uses a generation has nothing to close.
Holding ==
    \A t \in Threads : proc[t].at \in {"building", "using"} =>
        proc[t].gen \in Gens /\ closing[t] = {}

\* What is being built is being built by one thread, and nobody uses it.
Building ==
    /\ \A t \in Threads : proc[t].at = "building" =>
          gens[proc[t].gen].state = "constructing"
    /\ \A t, u \in Threads : proc[t].at = "building" /\ proc[u].at = "building" => t = u

\* One generation at most is new or handed out.
OneFresh ==
    \A g, h \in Gens : gens[g].state \in {"constructing", "active"}
                       /\ gens[h].state \in {"constructing", "active"} => g = h

FewListed == IsFiniteSet(Listed) /\ Cardinality(Listed) <= 2

\* As in OneCloser, generation by generation.
Closers ==
    /\ \A a, b \in Actors : a # b => closing[a] \cap closing[b] = {}
    /\ \A g \in Gens : gens[g].state = "closing" <=> \E a \in Actors : g \in closing[a]

ClientsInv ==
    /\ TypeOK /\ Holding /\ Building /\ NoUseAfterClose /\ ActiveIsCurrent
    /\ OneFresh /\ FewListed /\ Closers
-----------------------------------------------------------------------------
(* Generations after a step.                                               *)

\* A generation whose state or borrowers change keeps its key and its epoch.
LEMMA States3 ==
    ASSUME NEW r \in Generation, NEW s \in States \cup {"absent"}, NEW U \in SUBSET Threads,
           NEW q, q = [r EXCEPT !.state = s] \/ q = [r EXCEPT !.users = U]
                  \/ q = [r EXCEPT !.state = s, !.users = U] \/ q = [r EXCEPT !.users = U,
                       !.state = s]
    PROVE  q \in Generation /\ q.key = r.key /\ q.epoch = r.epoch
  BY DEF Generation

\* RetireAll changes what is active or retired only.
LEMMA Retired ==
    ASSUME TypeOK
    PROVE  /\ RetireAll \in [Gens -> Generation]
           /\ \A g \in Gens :
                /\ RetireAll[g].users = gens[g].users /\ RetireAll[g].epoch = gens[g].epoch
                /\ Unused(g) => RetireAll[g].state = "closing"
                /\ ~Unused(g) /\ gens[g].state = "active" => RetireAll[g].state = "retired"
                /\ ~Unused(g) /\ gens[g].state # "active" => RetireAll[g].state = gens[g].state
  <1>1. ASSUME NEW g \in Gens
        PROVE  /\ RetireAll[g] \in Generation
               /\ RetireAll[g].users = gens[g].users /\ RetireAll[g].epoch = gens[g].epoch
               /\ Unused(g) => RetireAll[g].state = "closing"
               /\ ~Unused(g) /\ gens[g].state = "active" => RetireAll[g].state = "retired"
               /\ ~Unused(g) /\ gens[g].state # "active" => RetireAll[g].state = gens[g].state
    <2>1. gens[g] \in Generation
      BY DEF TypeOK
    <2>2. CASE Unused(g)
      <3>1. RetireAll[g] = [gens[g] EXCEPT !.state = "closing"]
        BY <2>2 DEF RetireAll
      <3>2. QED
        BY <2>1, <2>2, <3>1 DEF Generation, States
    <2>3. CASE ~Unused(g) /\ gens[g].state = "active"
      <3>1. RetireAll[g] = [gens[g] EXCEPT !.state = "retired"]
        BY <2>3 DEF RetireAll
      <3>2. QED
        BY <2>1, <2>3, <3>1 DEF Generation, States
    <2>4. CASE ~Unused(g) /\ gens[g].state # "active"
      <3>1. RetireAll[g] = gens[g]
        BY <2>4 DEF RetireAll
      <3>2. QED
        BY <2>1, <2>4, <3>1
    <2>5. QED
      BY <2>2, <2>3, <2>4
  <1>2. QED
    BY <1>1 DEF RetireAll

\* A list that loses one member, gets one more, or keeps its members.
LEMMA ListShrinks ==
    ASSUME FewListed, Listed' \subseteq Listed
    PROVE  FewListed'
  <1>1. IsFiniteSet(Listed') /\ Cardinality(Listed') <= Cardinality(Listed)
    BY FS_Subset DEF FewListed
  <1>2. Cardinality(Listed) \in Nat /\ Cardinality(Listed') \in Nat
    BY <1>1, FS_CardinalityType DEF FewListed
  <1>3. QED
    BY <1>1, <1>2 DEF FewListed

\* Where there is room, one more generation listed is not one too many.
LEMMA ListGrows ==
    ASSUME FewListed, Room, NEW g, Listed' \subseteq Listed \cup {g}
    PROVE  FewListed'
  <1>1. /\ IsFiniteSet(Listed \cup {g})
        /\ Cardinality(Listed \cup {g}) \in {Cardinality(Listed), Cardinality(Listed) + 1}
    BY FS_AddElement DEF FewListed
  <1>2. /\ IsFiniteSet(Listed')
        /\ Cardinality(Listed') <= Cardinality(Listed \cup {g})
    BY <1>1, FS_Subset
  <1>3. Cardinality(Listed) \in Nat /\ Cardinality(Listed') \in Nat /\ Cardinality(Listed) < 2
    BY <1>2, FS_CardinalityType DEF FewListed, Room
  <1>4. QED
    BY <1>1, <1>2, <1>3 DEF FewListed
-----------------------------------------------------------------------------
(* What a thread is doing after a step.                                    *)

\* Become moves one thread.
LEMMA Becomes ==
    ASSUME TypeOK, NEW t \in Threads, NEW at \in {"idle", "asking", "building", "using"},
           NEW g \in Gens \cup {Nobody}, Become(t, at, g)
    PROVE  /\ proc' \in [Actors -> Memory]
           /\ proc'[t].at = at /\ proc'[t].gen = g
           /\ \A a \in Actors : a # t => proc'[a] = proc[a]
  BY DEF TypeOK, Become, Memory, Actors

\* The type invariant with the record of a thread under its name.
LEMMA TypeParts ==
    TypeOK <=> /\ gens \in [Gens -> Generation]
               /\ epoch \in 0 .. MaxResets /\ stopped \in BOOLEAN
               /\ proc \in [Actors -> Memory]
               /\ closing \in [Actors -> SUBSET Gens]
               /\ failures \in 0 .. MaxFailures
  BY DEF TypeOK, Memory

\* Asking for a client, and giving up, changes only the thread.
LEMMA AskInv ==
    ASSUME ClientsInv, NEW t \in Threads, Ask(t) \/ GiveUp(t)
    PROVE  ClientsInv'
  <1>1. /\ \E at \in {"asking", "idle"} : Become(t, at, Nobody)
        /\ UNCHANGED <<gens, epoch, stopped, closing, failures>>
        /\ t \in Actors
    BY DEF Ask, GiveUp, Actors
  <1>2. /\ proc' \in [Actors -> Memory] /\ proc'[t].at \in {"asking", "idle"}
        /\ \A a \in Actors : a # t => proc'[a] = proc[a]
    BY <1>1, Becomes DEF ClientsInv
  <1>3. TypeOK'
    BY <1>1, <1>2 DEF ClientsInv, TypeOK, Memory
  <1>4. Holding' /\ Building' /\ NoUseAfterClose'
    BY <1>1, <1>2 DEF ClientsInv, Holding, Building, NoUseAfterClose, Actors
  <1>5. ActiveIsCurrent' /\ OneFresh' /\ FewListed' /\ Closers'
    BY <1>1 DEF ClientsInv, ActiveIsCurrent, InState, OneFresh, FewListed, Listed, Closers
  <1>6. QED
    BY <1>3, <1>4, <1>5 DEF ClientsInv

\* A thread borrows the fresh generation of its key and epoch, which is open.
LEMMA BorrowInv ==
    ASSUME ClientsInv, NEW t \in Threads, NEW k \in Keys, Borrow(t, k)
    PROVE  ClientsInv'
  <1>1. PICK g \in Gens :
          /\ gens[g].state = "active" /\ gens' = [gens EXCEPT ![g].users = gens[g].users \cup {t}]
          /\ Become(t, "using", g)
    BY DEF Borrow, Selected, InState, ClientsInv, TypeOK
  <1>2. closing[t] = {} /\ UNCHANGED <<epoch, stopped, closing, failures>> /\ t \in Actors
    BY DEF Borrow, Actors
  <1> DEFINE row == [gens[g] EXCEPT !.users = gens[g].users \cup {t}]
  <1>3. gens[g] \in Generation /\ gens[g].users \cup {t} \in SUBSET Threads
    BY DEF ClientsInv, TypeOK, Generation
  <1>4. row \in Generation /\ row.epoch = gens[g].epoch /\ row.state = "active" /\ t \in row.users
    BY <1>1, <1>3 DEF Generation
  <1>5. gens' = [gens EXCEPT ![g] = row]
    BY <1>1 DEF ClientsInv, TypeOK
  <1> HIDE DEF row
  <1>6. /\ gens' \in [Gens -> Generation]
        /\ \A h \in Gens : gens'[h].state = gens[h].state /\ gens'[h].epoch = gens[h].epoch
        /\ \A h \in Gens : h # g => gens'[h] = gens[h]
        /\ t \in gens'[g].users
    BY <1>1, <1>4, <1>5 DEF ClientsInv, TypeOK
  <1>7. /\ proc' \in [Actors -> Memory] /\ proc'[t].at = "using" /\ proc'[t].gen = g
        /\ \A a \in Actors : a # t => proc'[a] = proc[a]
    BY <1>1, Becomes DEF ClientsInv
  <1>8. TypeOK'
    BY <1>2, <1>6, <1>7 DEF ClientsInv, TypeOK, Memory
  <1>9. Holding' /\ Building'
    BY <1>2, <1>6, <1>7 DEF ClientsInv, Holding, Building, Actors
  <1>10. \A h \in Gens : gens[h].users \subseteq gens'[h].users
    BY <1>1, <1>6 DEF ClientsInv, TypeOK, Generation
  <1>11. NoUseAfterClose'
    <2>1. ASSUME NEW u \in Threads, proc'[u].at = "using"
          PROVE  gens'[proc'[u].gen].state \in {"active", "retired"}
                   /\ u \in gens'[proc'[u].gen].users
      <3>1. CASE u = t
        BY <1>1, <1>6, <1>7, <3>1
      <3>2. CASE u # t
        BY <1>6, <1>7, <1>10, <2>1, <3>2 DEF ClientsInv, NoUseAfterClose, Holding, Actors
      <3>3. QED
        BY <3>1, <3>2
    <2>2. QED
      BY <2>1 DEF NoUseAfterClose
  <1>12. ActiveIsCurrent' /\ OneFresh'
    BY <1>2, <1>6 DEF ClientsInv, ActiveIsCurrent, InState, OneFresh
  <1>13. FewListed'
    BY <1>6, ListShrinks DEF ClientsInv, Listed
  <1>14. Closers'
    BY <1>2, <1>6 DEF ClientsInv, Closers
  <1>15. QED
    BY <1>8, <1>9, <1>11, <1>12, <1>13, <1>14 DEF ClientsInv

\* All that is active retires, and one thread takes what is unused to close.
LEMMA RetireAllInv ==
    ASSUME ClientsInv, NEW a \in Actors, closing[a] = {},
           gens' = RetireAll, closing' = [closing EXCEPT ![a] = {g \in Gens : Unused(g)}],
           proc' = proc, failures' = failures,
           epoch' \in 0 .. MaxResets, stopped' \in BOOLEAN,
           a \in Threads => proc[a].at \notin {"building", "using"}
    PROVE  ClientsInv'
  <1>1. /\ gens' \in [Gens -> Generation]
        /\ \A g \in Gens :
             /\ gens'[g].users = gens[g].users /\ gens'[g].epoch = gens[g].epoch
             /\ Unused(g) => gens'[g].state = "closing"
             /\ ~Unused(g) /\ gens[g].state = "active" => gens'[g].state = "retired"
             /\ ~Unused(g) /\ gens[g].state # "active" => gens'[g].state = gens[g].state
    BY Retired DEF ClientsInv
  <1>2. \A g \in Gens : Unused(g) => gens[g].users = {} /\ gens[g].state \in {"active", "retired"}
    BY DEF Unused
  <1>3. /\ closing' \in [Actors -> SUBSET Gens] /\ closing'[a] = {g \in Gens : Unused(g)}
        /\ \A b \in Actors : b # a => closing'[b] = closing[b]
    BY DEF ClientsInv, TypeOK
  <1>4. TypeOK'
    BY <1>1, <1>3 DEF ClientsInv, TypeOK
  <1>5. \A t \in Threads : t \in Actors
    BY DEF Actors
  <1>6. Holding'
    BY <1>3, <1>5 DEF ClientsInv, Holding
  <1>7. Building'
    BY <1>1, <1>2 DEF ClientsInv, Building, Holding
  <1>8. NoUseAfterClose'
    BY <1>1, <1>2 DEF ClientsInv, NoUseAfterClose, Holding
  <1>9. \A g \in Gens : gens'[g].state \notin {"active"}
    BY <1>1, <1>2
  <1>10. ActiveIsCurrent'
    BY <1>9 DEF ActiveIsCurrent, InState
  <1>11. OneFresh'
    BY <1>1, <1>2, <1>9 DEF ClientsInv, OneFresh
  <1>12. Listed' \subseteq Listed
    BY <1>1, <1>2 DEF Listed
  <1>13. FewListed'
    BY <1>12, ListShrinks DEF ClientsInv
  <1>14. Closers'
    <2>1. \A g \in Gens : (Unused(g) => gens[g].state # "closing")
                          /\ (gens'[g].state = "closing" <=> gens[g].state = "closing" \/ Unused(g))
      BY <1>1, <1>2
    <2>2. \A b \in Actors : b # a => closing[b] \cap closing'[a] = {}
      BY <1>3, <2>1 DEF ClientsInv, Closers
    <2>3. \A b, c \in Actors : b # c => closing'[b] \cap closing'[c] = {}
      BY <1>3, <2>2 DEF ClientsInv, Closers
    <2>4. ASSUME NEW g \in Gens
          PROVE  gens'[g].state = "closing" <=> \E b \in Actors : g \in closing'[b]
      <3>1. (\E b \in Actors : g \in closing'[b]) <=> (\E b \in Actors : g \in closing[b]) \/ Unused(g)
        BY <1>3
      <3>2. QED
        BY <2>1, <3>1 DEF ClientsInv, Closers
    <2>5. QED
      BY <2>3, <2>4 DEF Closers
  <1>15. QED
    BY <1>4, <1>6, <1>7, <1>8, <1>10, <1>11, <1>13, <1>14 DEF ClientsInv

\* A reservation retires what others use and makes the one fresh generation.
LEMMA RetireInv ==
    ASSUME ClientsInv, NEW t \in Threads, NEW k \in Keys, Retire(t, k) \/ Wait(t, k)
    PROVE  ClientsInv'
  <1>1. /\ proc[t].at = "asking" /\ closing[t] = {} /\ t \in Actors
        /\ gens' = RetireAll /\ UNCHANGED <<epoch, stopped, proc, failures>>
    BY DEF Retire, Wait, Misses, Actors
  <1>2. closing' = [closing EXCEPT ![t] = {g \in Gens : Unused(g)}]
    <2>1. CASE Retire(t, k)
      BY <2>1 DEF Retire
    <2>2. CASE Wait(t, k)
      <3>1. {g \in Gens : Unused(g)} = {} /\ closing' = closing
        BY <2>2 DEF Wait
      <3> HIDE DEF Unused
      <3>2. QED
        BY <1>1, <3>1 DEF ClientsInv, TypeOK
    <2>3. QED
      BY <2>1, <2>2
  <1>3. epoch' \in 0 .. MaxResets /\ stopped' \in BOOLEAN
    BY <1>1 DEF ClientsInv, TypeOK
  <1>4. QED
    BY <1>1, <1>2, <1>3, RetireAllInv

\* A reset or a stop moves the epoch on and closes what nobody uses.
LEMMA InvalidateInv ==
    ASSUME ClientsInv, NEW a \in Admins, NEW stop \in BOOLEAN, Invalidate(a, stop)
    PROVE  ClientsInv'
  <1>1. epoch' \in 0 .. MaxResets
    BY BoundsAssumption DEF Invalidate, ClientsInv, TypeOK
  <1>2. a \in Actors /\ a \notin Threads
    BY ActorsAssumption DEF Actors
  <1>3. QED
    BY <1>1, <1>2, RetireAllInv DEF Invalidate
-----------------------------------------------------------------------------
\* A reservation: what is active retires, and the new one is the only one
\* that is new or handed out.
LEMMA ReserveInv ==
    ASSUME ClientsInv, NEW t \in Threads, NEW k \in Keys, Reserve(t, k)
    PROVE  ClientsInv'
  <1> DEFINE new == [state |-> "constructing", key |-> k, epoch |-> epoch, users |-> {}]
  <1>1. PICK g \in Gens \ Listed :
          gens' = [RetireAll EXCEPT ![g] = new] /\ Become(t, "building", g)
    BY DEF Reserve
  <1>2. /\ proc[t].at = "asking" /\ closing[t] = {} /\ t \in Actors
        /\ Room /\ \A h \in Gens : ~Unused(h)
        /\ UNCHANGED <<epoch, stopped, closing, failures>>
    BY DEF Reserve, Misses, Actors
  <1>3. new \in Generation /\ new.state = "constructing"
    BY DEF ClientsInv, TypeOK, Generation, States
  <1> HIDE DEF new
  <1>4. g \in Gens /\ gens[g].state = "absent"
    BY <1>1 DEF Listed
  <1>5. /\ gens' \in [Gens -> Generation] /\ gens'[g] = new
        /\ \A h \in Gens : h # g =>
             /\ gens'[h].users = gens[h].users /\ gens'[h].epoch = gens[h].epoch
             /\ gens'[h].state = IF gens[h].state = "active" THEN "retired" ELSE gens[h].state
    BY <1>1, <1>2, <1>3, <1>4, Retired DEF ClientsInv
  <1>6. /\ proc' \in [Actors -> Memory] /\ proc'[t].at = "building" /\ proc'[t].gen = g
        /\ \A a \in Actors : a # t => proc'[a] = proc[a]
    BY <1>1, <1>4, Becomes DEF ClientsInv
  <1>7. TypeOK'
    BY <1>2, <1>5, <1>6 DEF ClientsInv, TypeOK, Memory
  <1>8. \A u \in Threads : u \in Actors
    BY DEF Actors
  <1>9. \A h \in Gens : gens[h].state # "constructing"
    BY <1>2 DEF Room, InState
  <1>10. \A u \in Threads : proc[u].at # "building"
    BY <1>9 DEF ClientsInv, Building, Holding
  <1>11. Holding' /\ Building'
    BY <1>2, <1>3, <1>4, <1>5, <1>6, <1>8, <1>10 DEF ClientsInv, Holding, Building
  <1>12. NoUseAfterClose'
    <2>1. ASSUME NEW u \in Threads, proc'[u].at = "using"
          PROVE  gens'[proc'[u].gen].state \in {"active", "retired"}
                   /\ u \in gens'[proc'[u].gen].users
      <3>1. u # t /\ proc'[u] = proc[u]
        BY <1>6, <1>8, <2>1
      <3>2. /\ proc[u].gen \in Gens /\ gens[proc[u].gen].state \in {"active", "retired"}
            /\ u \in gens[proc[u].gen].users
        BY <2>1, <3>1 DEF ClientsInv, NoUseAfterClose, Holding
      <3>3. proc[u].gen # g
        BY <1>4, <3>2
      <3>4. QED
        BY <1>5, <3>1, <3>2, <3>3
    <2>2. QED
      BY <2>1 DEF NoUseAfterClose
  <1>13. \A h \in Gens : gens'[h].state # "active"
    BY <1>3, <1>5
  <1>14. ActiveIsCurrent'
    BY <1>13 DEF ActiveIsCurrent, InState
  <1>15. OneFresh'
    <2>1. \A h \in Gens : gens'[h].state = "constructing" => h = g
      BY <1>5, <1>9
    <2>2. QED
      BY <1>13, <2>1 DEF OneFresh
  <1>16. Listed' \subseteq Listed \cup {g}
    BY <1>5 DEF Listed
  <1>17. FewListed'
    BY <1>2, <1>16, ListGrows DEF ClientsInv
  <1>18. Closers'
    <2>1. \A h \in Gens : gens'[h].state = "closing" <=> gens[h].state = "closing"
      BY <1>3, <1>4, <1>5
    <2>2. QED
      BY <1>2, <2>1 DEF ClientsInv, Closers
  <1>19. QED
    BY <1>7, <1>11, <1>12, <1>14, <1>15, <1>17, <1>18 DEF ClientsInv

\* What a step does to one generation: the others stay as they are.
LEMMA OneChanges ==
    ASSUME TypeOK, NEW g \in Gens, NEW row \in Generation, gens' = [gens EXCEPT ![g] = row]
    PROVE  /\ gens' \in [Gens -> Generation] /\ gens'[g] = row
           /\ \A h \in Gens : h # g => gens'[h] = gens[h]
  BY DEF TypeOK

\* A generation that is being built is used by nobody and on no list to close.
LEMMA BuiltAlone ==
    ASSUME ClientsInv, NEW t \in Threads, proc[t].at = "building"
    PROVE  /\ t \in Actors /\ proc[t].gen \in Gens /\ closing[t] = {}
           /\ gens[proc[t].gen].state = "constructing" /\ gens[proc[t].gen] \in Generation
           /\ \A u \in Threads : u # t => proc[u].at # "building"
           /\ \A u \in Threads : proc[u].at = "using" =>
                 u # t /\ proc[u].gen \in Gens /\ proc[u].gen # proc[t].gen
           /\ \A h \in Gens : h # proc[t].gen => gens[h].state \notin {"constructing", "active"}
  BY DEF ClientsInv, TypeOK, Actors, Holding, Building, NoUseAfterClose, OneFresh

\* A generation that cannot be built is gone, and nobody used it.
LEMMA ConstructionFailsInv ==
    ASSUME ClientsInv, NEW t \in Threads, ConstructionFails(t)
    PROVE  ClientsInv'
  <1> DEFINE g == proc[t].gen
             row == [gens[g] EXCEPT !.state = "absent", !.users = {}]
  <1>1. proc[t].at = "building" /\ UNCHANGED <<epoch, stopped, closing>> /\ Become(t, "idle", Nobody)
    BY DEF ConstructionFails
  <1>2. /\ t \in Actors /\ g \in Gens /\ gens[g].state = "constructing" /\ gens[g] \in Generation
        /\ \A u \in Threads : u # t => proc[u].at # "building"
        /\ \A u \in Threads : proc[u].at = "using" => u # t /\ proc[u].gen \in Gens /\ proc[u].gen # g
    BY <1>1, BuiltAlone
  <1>3. gens' = [gens EXCEPT ![g] = row]
    BY <1>2 DEF ConstructionFails, Removed, ClientsInv, TypeOK
  <1>4. row \in Generation /\ row.state = "absent"
    BY <1>2 DEF Generation
  <1> HIDE DEF row
  <1>5. /\ gens' \in [Gens -> Generation] /\ gens'[g].state = "absent"
        /\ \A h \in Gens : h # g => gens'[h] = gens[h]
    BY <1>2, <1>3, <1>4, OneChanges DEF ClientsInv
  <1>6. /\ proc' \in [Actors -> Memory] /\ proc'[t].at = "idle"
        /\ \A a \in Actors : a # t => proc'[a] = proc[a]
    BY <1>1, Becomes DEF ClientsInv
  <1>7. failures' \in 0 .. MaxFailures
    BY BoundsAssumption DEF ConstructionFails, ClientsInv, TypeOK
  <1>8. TypeOK'
    BY <1>1, <1>5, <1>6, <1>7 DEF ClientsInv, TypeOK, Memory
  <1>9. \A u \in Threads : u \in Actors
    BY DEF Actors
  <1> HIDE DEF g
  <1>10. Holding' /\ Building' /\ NoUseAfterClose'
    BY <1>1, <1>2, <1>5, <1>6, <1>9 DEF ClientsInv, Holding, Building, NoUseAfterClose
  <1>11. \A h \in Gens : gens'[h] = gens[h] \/ (gens'[h].state = "absent"
           /\ gens[h].state = "constructing")
    BY <1>2, <1>5
  <1>12. ActiveIsCurrent' /\ OneFresh'
    BY <1>1, <1>11 DEF ClientsInv, ActiveIsCurrent, InState, OneFresh
  <1>13. Listed' \subseteq Listed
    BY <1>11 DEF Listed
  <1>14. Closers'
    BY <1>1, <1>11 DEF ClientsInv, Closers
  <1>15. QED
    BY <1>8, <1>10, <1>12, <1>13, <1>14, ListShrinks DEF ClientsInv

\* A generation is handed out to its builder if no reset came in between.
LEMMA PublishInv ==
    ASSUME ClientsInv, NEW t \in Threads, Publish(t)
    PROVE  ClientsInv'
  <1> DEFINE g == proc[t].gen
             row == [gens[g] EXCEPT !.state = "active", !.users = {t}]
  <1>1. /\ proc[t].at = "building" /\ ~Invalidated(g) /\ Become(t, "using", g)
        /\ UNCHANGED <<epoch, stopped, closing, failures>>
    BY DEF Publish
  <1>2. /\ t \in Actors /\ g \in Gens /\ gens[g].state = "constructing" /\ gens[g] \in Generation
        /\ closing[t] = {}
        /\ \A u \in Threads : u # t => proc[u].at # "building"
        /\ \A u \in Threads : proc[u].at = "using" => u # t /\ proc[u].gen \in Gens /\ proc[u].gen # g
        /\ \A h \in Gens : h # g => gens[h].state \notin {"constructing", "active"}
    BY <1>1, BuiltAlone
  <1>3. gens' = [gens EXCEPT ![g] = row]
    BY <1>2 DEF Publish, ClientsInv, TypeOK
  <1>4. row \in Generation /\ row.state = "active" /\ row.users = {t} /\ row.epoch = gens[g].epoch
    BY <1>2 DEF Generation, States
  <1> HIDE DEF row
  <1>5. /\ gens' \in [Gens -> Generation] /\ gens'[g] = row
        /\ \A h \in Gens : h # g => gens'[h] = gens[h]
    BY <1>2, <1>3, <1>4, OneChanges DEF ClientsInv
  <1>6. /\ proc' \in [Actors -> Memory] /\ proc'[t].at = "using" /\ proc'[t].gen = g
        /\ \A a \in Actors : a # t => proc'[a] = proc[a]
    BY <1>1, <1>2, Becomes DEF ClientsInv
  <1>7. TypeOK'
    BY <1>1, <1>5, <1>6 DEF ClientsInv, TypeOK, Memory
  <1>8. \A u \in Threads : u \in Actors
    BY DEF Actors
  <1>9. gens[g].epoch = epoch /\ ~stopped
    BY <1>1 DEF Invalidated
  <1> HIDE DEF g
  <1>10. Holding' /\ Building'
    BY <1>1, <1>2, <1>5, <1>6, <1>8 DEF ClientsInv, Holding, Building
  <1>11. NoUseAfterClose'
    BY <1>2, <1>4, <1>5, <1>6, <1>8 DEF ClientsInv, NoUseAfterClose
  <1>12. ActiveIsCurrent' /\ OneFresh'
    BY <1>1, <1>2, <1>4, <1>5, <1>9 DEF ClientsInv, ActiveIsCurrent, InState, OneFresh
  <1>13. Listed' \subseteq Listed
    BY <1>2, <1>5 DEF Listed
  <1>14. Closers'
    <2>1. \A h \in Gens : gens'[h].state = "closing" <=> gens[h].state = "closing"
      BY <1>2, <1>4, <1>5
    <2>2. QED
      BY <1>1, <2>1 DEF ClientsInv, Closers
  <1>15. QED
    BY <1>7, <1>10, <1>11, <1>12, <1>13, <1>14, ListShrinks DEF ClientsInv
-----------------------------------------------------------------------------
(* Closing.                                                                *)

\* One actor takes one generation to close.
LEMMA TakesOne ==
    ASSUME TypeOK, Closers, NEW a \in Actors, NEW g \in Gens, closing[a] = {},
           gens[g].state # "closing", gens'[g].state = "closing",
           \A h \in Gens : h # g => gens'[h].state = gens[h].state,
           closing' = [closing EXCEPT ![a] = {g}]
    PROVE  Closers' /\ closing' \in [Actors -> SUBSET Gens]
  <1>1. /\ closing' \in [Actors -> SUBSET Gens] /\ closing'[a] = {g}
        /\ \A b \in Actors : b # a => closing'[b] = closing[b]
    BY DEF TypeOK
  <1>2. \A b \in Actors : g \notin closing[b]
    BY DEF Closers
  <1>3. \A b, c \in Actors : b # c => closing'[b] \cap closing'[c] = {}
    BY <1>1, <1>2 DEF Closers
  <1>4. ASSUME NEW h \in Gens
        PROVE  gens'[h].state = "closing" <=> \E b \in Actors : h \in closing'[b]
    <2>1. CASE h = g
      BY <1>1, <2>1
    <2>2. CASE h # g
      <3>1. (\E b \in Actors : h \in closing'[b]) <=> (\E b \in Actors : h \in closing[b])
        BY <1>1, <2>2
      <3>2. QED
        BY <2>2, <3>1 DEF Closers
    <2>3. QED
      BY <2>1, <2>2
  <1>5. QED
    BY <1>1, <1>3, <1>4 DEF Closers

\* A generation built for an older epoch goes to its builder to be closed.
LEMMA DiscardInv ==
    ASSUME ClientsInv, NEW t \in Threads, Discard(t)
    PROVE  ClientsInv'
  <1> DEFINE g == proc[t].gen
             row == [gens[g] EXCEPT !.state = "closing"]
  <1>1. /\ proc[t].at = "building" /\ Become(t, "idle", Nobody)
        /\ closing' = [closing EXCEPT ![t] = {g}] /\ UNCHANGED <<epoch, stopped, failures>>
    BY DEF Discard
  <1>2. /\ t \in Actors /\ g \in Gens /\ gens[g].state = "constructing" /\ gens[g] \in Generation
        /\ closing[t] = {}
        /\ \A u \in Threads : u # t => proc[u].at # "building"
        /\ \A u \in Threads : proc[u].at = "using" => u # t /\ proc[u].gen \in Gens /\ proc[u].gen # g
    BY <1>1, BuiltAlone
  <1>3. gens' = [gens EXCEPT ![g] = row]
    BY <1>2 DEF Discard, ClientsInv, TypeOK
  <1>4. row \in Generation /\ row.state = "closing"
    BY <1>2 DEF Generation, States
  <1> HIDE DEF row
  <1>5. /\ gens' \in [Gens -> Generation] /\ gens'[g].state = "closing"
        /\ \A h \in Gens : h # g => gens'[h] = gens[h]
    BY <1>2, <1>3, <1>4, OneChanges DEF ClientsInv
  <1>6. /\ proc' \in [Actors -> Memory] /\ proc'[t].at = "idle"
        /\ \A a \in Actors : a # t => proc'[a] = proc[a]
    BY <1>1, Becomes DEF ClientsInv
  <1> HIDE DEF g
  <1>7. Closers' /\ closing' \in [Actors -> SUBSET Gens]
    BY <1>1, <1>2, <1>5, TakesOne DEF ClientsInv
  <1>8. TypeOK'
    BY <1>1, <1>5, <1>6, <1>7 DEF ClientsInv, TypeOK, Memory
  <1>9. \A u \in Threads : u \in Actors /\ (u # t => closing'[u] = closing[u])
    BY <1>1 DEF Actors, ClientsInv, TypeOK
  <1>10. Holding' /\ Building' /\ NoUseAfterClose'
    BY <1>2, <1>5, <1>6, <1>9 DEF ClientsInv, Holding, Building, NoUseAfterClose
  <1>11. ActiveIsCurrent' /\ OneFresh'
    BY <1>1, <1>2, <1>5 DEF ClientsInv, ActiveIsCurrent, InState, OneFresh
  <1>12. Listed' \subseteq Listed
    BY <1>2, <1>5 DEF Listed
  <1>13. QED
    BY <1>7, <1>8, <1>10, <1>11, <1>12, ListShrinks DEF ClientsInv

\* The last borrower of a retired generation is the one who must close it.
LEMMA ReturnInv ==
    ASSUME ClientsInv, NEW t \in Threads, Return(t)
    PROVE  ClientsInv'
  <1> DEFINE g == proc[t].gen
             at == IF LastOut(t, g) THEN "closing" ELSE gens[g].state
             row == [gens[g] EXCEPT !.users = gens[g].users \ {t}, !.state = at]
  <1>1. proc[t].at = "using" /\ Become(t, "idle", Nobody) /\ UNCHANGED <<epoch, stopped, failures>>
    BY DEF Return
  <1>2. /\ t \in Actors /\ g \in Gens /\ closing[t] = {} /\ gens[g] \in Generation
        /\ gens[g].state \in {"active", "retired"} /\ t \in gens[g].users
    BY <1>1 DEF Actors, ClientsInv, Holding, NoUseAfterClose, TypeOK
  <1>3. gens' = [gens EXCEPT ![g] = row]
    BY <1>2 DEF Return, ClientsInv, TypeOK
  <1>4. closing' = [closing EXCEPT ![t] = IF LastOut(t, g) THEN {g} ELSE {}]
    BY DEF Return
  <1>5. at \in {gens[g].state, "closing"} /\ at \in States
    BY <1>2 DEF States
  <1>6. LastOut(t, g) => gens[g].users = {t} /\ gens[g].state = "retired"
    BY DEF LastOut
  <1>7. (LastOut(t, g) => at = "closing") /\ (~LastOut(t, g) => at = gens[g].state)
    OBVIOUS
  <1> HIDE DEF at
  <1>8. /\ row \in Generation /\ row.state = at /\ row.users = gens[g].users \ {t}
        /\ row.epoch = gens[g].epoch
    BY <1>2, <1>5 DEF Generation
  <1> HIDE DEF row
  <1>9. /\ gens' \in [Gens -> Generation] /\ gens'[g] = row
        /\ \A h \in Gens : h # g => gens'[h] = gens[h]
    BY <1>2, <1>3, <1>8, OneChanges DEF ClientsInv
  <1>10. /\ proc' \in [Actors -> Memory] /\ proc'[t].at = "idle"
         /\ \A a \in Actors : a # t => proc'[a] = proc[a]
    BY <1>1, Becomes DEF ClientsInv
  <1> HIDE DEF g
  <1>11. Closers' /\ closing' \in [Actors -> SUBSET Gens]
    <2>1. CASE LastOut(t, g)
      <3>1. closing' = [closing EXCEPT ![t] = {g}] /\ gens'[g].state = "closing"
              /\ gens[g].state # "closing"
        BY <1>2, <1>4, <1>7, <1>8, <1>9, <2>1
      <3>2. QED
        BY <1>2, <1>9, <3>1, TakesOne DEF ClientsInv
    <2>2. CASE ~LastOut(t, g)
      <3>1. closing' = closing
        BY <1>2, <1>4, <2>2 DEF ClientsInv, TypeOK
      <3>2. \A h \in Gens : gens'[h].state = gens[h].state
        BY <1>7, <1>8, <1>9, <2>2
      <3>3. QED
        BY <3>1, <3>2 DEF ClientsInv, Closers, TypeOK
    <2>3. QED
      BY <2>1, <2>2
  <1>12. TypeOK'
    BY <1>1, <1>9, <1>10, <1>11 DEF ClientsInv, TypeOK, Memory
  <1>13. \A u \in Threads : u \in Actors /\ (u # t => closing'[u] = closing[u])
    BY <1>4 DEF Actors, ClientsInv, TypeOK
  <1>14. Holding' /\ Building'
    BY <1>2, <1>5, <1>7, <1>8, <1>9, <1>10, <1>13 DEF ClientsInv, Holding, Building
  <1>15. NoUseAfterClose'
    <2>1. ASSUME NEW u \in Threads, proc'[u].at = "using"
          PROVE  gens'[proc'[u].gen].state \in {"active", "retired"}
                   /\ u \in gens'[proc'[u].gen].users
      <3>1. u # t /\ proc'[u] = proc[u]
        BY <1>10, <1>13, <2>1
      <3>2. /\ proc[u].gen \in Gens /\ gens[proc[u].gen].state \in {"active", "retired"}
            /\ u \in gens[proc[u].gen].users
        BY <2>1, <3>1 DEF ClientsInv, NoUseAfterClose, Holding
      <3>3. CASE proc[u].gen = g
        <4>1. ~LastOut(t, g)
          BY <1>6, <3>1, <3>2, <3>3
        <4>2. QED
          BY <1>7, <1>8, <1>9, <3>1, <3>2, <3>3, <4>1
      <3>4. CASE proc[u].gen # g
        BY <1>9, <3>1, <3>2, <3>4
      <3>5. QED
        BY <3>3, <3>4
    <2>2. QED
      BY <2>1 DEF NoUseAfterClose
  <1>16. \A h \in Gens : /\ gens'[h].epoch = gens[h].epoch
                        /\ gens'[h].state \in {gens[h].state, "closing"}
    BY <1>5, <1>8, <1>9
  <1>17. ActiveIsCurrent' /\ OneFresh'
    BY <1>1, <1>16 DEF ClientsInv, ActiveIsCurrent, InState, OneFresh
  <1>18. Listed' \subseteq Listed
    BY <1>2, <1>9 DEF Listed
  <1>19. QED
    BY <1>11, <1>12, <1>14, <1>15, <1>17, <1>18, ListShrinks DEF ClientsInv

\* Closing takes a generation from the one list it is on.
LEMMA CloseInv ==
    ASSUME ClientsInv, NEW a \in Actors, NEW g \in Gens, Close(a, g) \/ CloseFails(a, g)
    PROVE  ClientsInv'
  <1>1. /\ g \in closing[a] /\ closing' = [closing EXCEPT ![a] = closing[a] \ {g}]
        /\ UNCHANGED <<epoch, stopped, proc>>
    BY DEF Close, CloseFails, ClientsInv, TypeOK
  <1>2. gens[g].state = "closing" /\ gens[g] \in Generation
    BY <1>1 DEF ClientsInv, Closers, TypeOK
  <1>3. failures' \in 0 .. MaxFailures
    BY BoundsAssumption DEF Close, CloseFails, ClientsInv, TypeOK
  <1>4. PICK row \in Generation :
          gens' = [gens EXCEPT ![g] = row] /\ row.state \in {"absent", "close_failed"}
    <2>1. CASE Close(a, g)
      <3> DEFINE row == [gens[g] EXCEPT !.state = "absent", !.users = {}]
      <3>1. gens' = [gens EXCEPT ![g] = row]
        BY <2>1 DEF Close, Removed, ClientsInv, TypeOK
      <3>2. row \in Generation /\ row.state = "absent"
        BY <1>2 DEF Generation
      <3> HIDE DEF row
      <3>3. QED
        BY <3>1, <3>2
    <2>2. CASE CloseFails(a, g)
      <3> DEFINE row == [gens[g] EXCEPT !.state = "close_failed"]
      <3>1. gens' = [gens EXCEPT ![g] = row]
        BY <2>2 DEF CloseFails, ClientsInv, TypeOK
      <3>2. row \in Generation /\ row.state = "close_failed"
        BY <1>2 DEF Generation, States
      <3> HIDE DEF row
      <3>3. QED
        BY <3>1, <3>2
    <2>3. QED
      BY <2>1, <2>2
  <1>5. /\ gens' \in [Gens -> Generation] /\ gens'[g].state \in {"absent", "close_failed"}
        /\ \A h \in Gens : h # g => gens'[h] = gens[h]
    BY <1>4, OneChanges DEF ClientsInv
  <1>6. /\ closing' \in [Actors -> SUBSET Gens] /\ closing'[a] = closing[a] \ {g}
        /\ \A b \in Actors : b # a => closing'[b] = closing[b]
    BY <1>1 DEF ClientsInv, TypeOK
  <1>7. TypeOK'
    BY <1>1, <1>3, <1>5, <1>6 DEF ClientsInv, TypeOK
  <1>8. \A u \in Threads : u \in Actors
    BY DEF Actors
  <1>9. Holding' /\ Building' /\ NoUseAfterClose'
    <2>1. \A u \in Threads : closing[u] = {} => closing'[u] = {}
      BY <1>1, <1>6, <1>8
    <2>2. QED
      BY <1>1, <1>2, <1>5, <2>1 DEF ClientsInv, Holding, Building, NoUseAfterClose
  <1>10. ActiveIsCurrent' /\ OneFresh'
    BY <1>1, <1>2, <1>5 DEF ClientsInv, ActiveIsCurrent, InState, OneFresh
  <1>11. Listed' \subseteq Listed
    BY <1>2, <1>5 DEF Listed
  <1>12. Closers'
    <2>1. \A b, c \in Actors : b # c => closing'[b] \cap closing'[c] = {}
      BY <1>6 DEF ClientsInv, Closers
    <2>2. ASSUME NEW h \in Gens
          PROVE  gens'[h].state = "closing" <=> \E b \in Actors : h \in closing'[b]
      <3>1. CASE h = g
        <4>1. \A b \in Actors : b # a => g \notin closing[b]
          BY <1>1 DEF ClientsInv, Closers
        <4>2. QED
          BY <1>5, <1>6, <3>1, <4>1
      <3>2. CASE h # g
        <4>1. (\E b \in Actors : h \in closing'[b]) <=> (\E b \in Actors : h \in closing[b])
          BY <1>6, <3>2
        <4>2. QED
          BY <1>5, <3>2, <4>1 DEF ClientsInv, Closers
      <3>3. QED
        BY <3>1, <3>2
    <2>3. QED
      BY <2>1, <2>2 DEF Closers
  <1>13. QED
    BY <1>7, <1>9, <1>10, <1>11, <1>12, ListShrinks DEF ClientsInv
-----------------------------------------------------------------------------
\* At the start no generation exists and nobody holds one.
LEMMA ClientsInvInit == Init => ClientsInv
  <1>1. SUFFICES ASSUME Init
                 PROVE  ClientsInv
    OBVIOUS
  <1>2. /\ \A g \in Gens : gens[g].state = "absent" /\ gens[g] \in Generation
        /\ gens \in [Gens -> Generation]
    BY <1>1, BoundsAssumption DEF Init, Generation
  <1>3. \A a \in Actors : proc[a] = [at |-> "idle", gen |-> Nobody] /\ closing[a] = {}
    BY <1>1 DEF Init
  <1>4. TypeOK
    <2>1. epoch \in 0 .. MaxResets /\ failures \in 0 .. MaxFailures /\ stopped \in BOOLEAN
      <3>1. epoch = 0 /\ failures = 0 /\ stopped = FALSE
        BY <1>1 DEF Init
      <3>2. 0 \in 0 .. MaxResets /\ 0 \in 0 .. MaxFailures
        BY BoundsAssumption
      <3>3. QED
        BY <3>1, <3>2
    <2>2. proc \in [Actors -> Memory]
      BY <1>1 DEF Init, Memory
    <2>3. closing \in [Actors -> SUBSET Gens]
      BY <1>1 DEF Init
    <2>4. QED
      BY <1>2, <2>1, <2>2, <2>3 DEF TypeOK, Memory
  <1>5. Listed = {}
    BY <1>2 DEF Listed
  <1>6. FewListed
    BY <1>5, FS_EmptySet DEF FewListed
  <1>7. \A t \in Threads : t \in Actors
    BY DEF Actors
  <1>8. Holding /\ Building /\ NoUseAfterClose
    BY <1>3, <1>7 DEF Holding, Building, NoUseAfterClose
  <1>9. ActiveIsCurrent /\ OneFresh /\ Closers
    BY <1>2, <1>3 DEF ActiveIsCurrent, InState, OneFresh, Closers
  <1>10. QED
    BY <1>4, <1>6, <1>8, <1>9 DEF ClientsInv

\* Every step keeps the invariant of the clients.
LEMMA ClientsInvStep == ClientsInv /\ [Next]_vars => ClientsInv'
  <1>1. SUFFICES ASSUME ClientsInv, [Next]_vars
                 PROVE  ClientsInv'
    OBVIOUS
  <1>2. CASE UNCHANGED vars
    BY <1>1, <1>2 DEF vars, ClientsInv, TypeOK, Holding, Building, NoUseAfterClose,
       ActiveIsCurrent, InState, OneFresh, FewListed, Listed, Closers
  <1>3. CASE Next
    BY <1>1, <1>3, AskInv, BorrowInv, RetireInv, ReserveInv, ConstructionFailsInv, PublishInv,
       DiscardInv, ReturnInv, InvalidateInv, CloseInv DEF Next, BorrowStep, CloseStep
  <1>4. QED
    BY <1>1, <1>2, <1>3

\* The inductive invariant holds in every reachable state.
THEOREM ClientsInductive == Spec => []ClientsInv
  BY ClientsInvInit, ClientsInvStep, PTL DEF Spec

\* The invariant says what ClientsAreSound promises.
LEMMA SoundFromInv == ClientsInv => ClientsAreSound
  <1>1. SUFFICES ASSUME ClientsInv
                 PROVE  ClientsAreSound
    OBVIOUS
  <1>2. Cardinality(InState("active")) <= 1
    <2>1. \A g, h \in InState("active") : g = h
      BY <1>1 DEF ClientsInv, OneFresh, InState
    <2>2. CASE InState("active") = {}
      BY <2>2, FS_EmptySet
    <2>3. CASE InState("active") # {}
      <3>1. PICK g \in InState("active") : TRUE
        BY <2>3
      <3>2. InState("active") = {g}
        BY <2>1, <3>1
      <3>3. Cardinality(InState("active")) = 1
        BY <3>2, FS_Singleton
      <3>4. QED
        BY <3>3, SMT
    <2>4. QED
      BY <2>2, <2>3
  <1>3. OneCloser
    <2>1. UNION {closing[a] : a \in Actors} = InState("closing")
      BY <1>1 DEF ClientsInv, Closers, TypeOK, InState
    <2>2. QED
      BY <1>1, <2>1 DEF ClientsInv, Closers, OneCloser
  <1>4. QED
    BY <1>1, <1>2, <1>3 DEF ClientsInv, ClientsAreSound, AtMostTwo, FewListed

\* Clients in use are open and as new as the last reset, there are two at
\* most, and each is closed by one thread, with any number of threads.
THEOREM ClientsSound == Spec => []ClientsAreSound
  BY ClientsInductive, SoundFromInv, PTL

-----------------------------------------------------------------------------
(* EmbeddingQuota.                                                         *)
(* Every admitted request that still counts has a row of its own that is   *)
(* at most LockWait older.  So the rows that a process counts cover the    *)
(* requests of each window that its own falls in.  The sum of their sizes  *)
(* is taken apart by a smallest set for which a fact fails.                *)

\* A non-empty set of numbers has a least one.
LEMMA LeastExists ==
    ASSUME NEW S \in SUBSET Nat, S # {}
    PROVE  \E m \in S : \A x \in S : m <= x
<1> DEFINE R == {ss \in Nat \X Nat : ss[1] < ss[2]}
<1>1. IsWellFoundedOn(R, Nat)
  BY NatLessThanWellFounded, Zenon DEF OpToRel
<1>2. \A x, m \in Nat : x < m => <<x, m>> \in R
  OBVIOUS
<1> HIDE DEF R
<1>3. PICK m \in S : \A x \in S : ~ (<<x, m>> \in R)
  BY <1>1, WFMin, Zenon
<1>4. ASSUME NEW x \in S PROVE m <= x
  <2>1. x \in Nat /\ m \in Nat /\ ~(x < m) BY <1>2, <1>3
  <2> QED BY <2>1
<1> QED BY <1>4

\* A non-empty family of finite sets has a smallest one: what takes the place
\* of induction over sets.
LEMMA SmallestExists ==
    ASSUME NEW F, F # {}, \A S \in F : IsFiniteSet(S)
    PROVE  \E S \in F : \A T \in F : Cardinality(S) <= Cardinality(T)
<1> DEFINE C == {Cardinality(S) : S \in F}
<1>1. C \in SUBSET Nat /\ C # {}
  BY FS_CardinalityType
<1> HIDE DEF C
<1>2. PICK m \in C : \A n \in C : m <= n
  BY <1>1, LeastExists
<1> USE DEF C
<1> QED BY <1>2

\* The element a sum takes first, and what it means to sum up the subsets.
FirstOf(s) == CHOOSE x \in s : TRUE
Sums(S, g) == g = [s \in SUBSET S |-> IF s = {} THEN 0
                                      ELSE FirstOf(s).size + g[s \ {FirstOf(s)}]]

\* The sum of the model is the one meant here.
LEMMA UsedIs ==
    ASSUME NEW S
    PROVE  Used(S) = (CHOOSE g : Sums(S, g))[S]
  BY DEF Used, MapThenSumSet, MapThenFoldSet, Sums, FirstOf

\* Taking the first element away leaves less.
LEMMA Less ==
    ASSUME NEW S, IsFiniteSet(S), S # {}
    PROVE  /\ FirstOf(S) \in S /\ IsFiniteSet(S \ {FirstOf(S)})
           /\ Cardinality(S \ {FirstOf(S)}) < Cardinality(S)
           /\ Cardinality(S) \in Nat
<1>1. FirstOf(S) \in S
  BY DEF FirstOf
<1> HIDE DEF FirstOf
<1>2. Cardinality(S) \in Nat
  BY FS_CardinalityType
<1> QED BY <1>1, <1>2, FS_RemoveElement

\* Two sums agree where both are defined.
LEMMA SumsAgree ==
    ASSUME NEW A, NEW B, NEW g, NEW h, Sums(A, g), Sums(B, h),
           NEW T, T \subseteq A, T \subseteq B, IsFiniteSet(T)
    PROVE  g[T] = h[T]
<1> DEFINE F == {U \in SUBSET T : g[U] # h[U]}
<1> SUFFICES ASSUME F # {}
             PROVE  FALSE
  OBVIOUS
<1>1. \A U \in F : IsFiniteSet(U)
  BY FS_Subset
<1>2. PICK U \in F : \A V \in F : Cardinality(U) <= Cardinality(V)
  <2> HIDE DEF F
  <2> QED BY <1>1, SmallestExists
<1>3. U \in SUBSET A /\ U \in SUBSET B /\ IsFiniteSet(U) /\ U \in SUBSET T
  BY <1>1
<1>4. /\ g[U] = IF U = {} THEN 0 ELSE FirstOf(U).size + g[U \ {FirstOf(U)}]
      /\ h[U] = IF U = {} THEN 0 ELSE FirstOf(U).size + h[U \ {FirstOf(U)}]
  BY <1>3 DEF Sums
<1>5. U # {}
  BY <1>4
<1> PICK V : V = U \ {FirstOf(U)}
  OBVIOUS
<1>6. V \in SUBSET T /\ Cardinality(V) < Cardinality(U) /\ Cardinality(U) \in Nat
      /\ Cardinality(V) \in Nat
  BY <1>3, <1>5, Less, FS_CardinalityType
<1>7. V \notin F
  BY <1>2, <1>6
<1>8. g[V] = h[V]
  BY <1>6, <1>7
<1> QED BY <1>4, <1>5, <1>8

\* A finite set can be summed up.
LEMMA SumsExist ==
    ASSUME NEW S, IsFiniteSet(S)
    PROVE  \E g : Sums(S, g)
<1> DEFINE F == {U \in SUBSET S : ~ \E g : Sums(U, g)}
<1> SUFFICES ASSUME F # {}
             PROVE  FALSE
  OBVIOUS
<1>1. \A U \in F : IsFiniteSet(U)
  BY FS_Subset
<1>2. PICK U \in F : \A V \in F : Cardinality(U) <= Cardinality(V)
  <2> HIDE DEF F
  <2> QED BY <1>1, SmallestExists
<1>3. IsFiniteSet(U) /\ U \in SUBSET S
  BY <1>1
<1> DEFINE G(W) == CHOOSE g : Sums(W, g)
           h == [s \in SUBSET U |-> IF s = {} THEN 0
                                    ELSE FirstOf(s).size + G(s \ {FirstOf(s)})[s \ {FirstOf(s)}]]
<1>4. ASSUME NEW s \in SUBSET U, s # {}
      PROVE  h[s \ {FirstOf(s)}] = G(s \ {FirstOf(s)})[s \ {FirstOf(s)}]
  <2>1. IsFiniteSet(s) /\ Cardinality(s) <= Cardinality(U)
    BY <1>3, FS_Subset
  <2> PICK W : W = s \ {FirstOf(s)}
    OBVIOUS
  <2>2. /\ W \in SUBSET U /\ IsFiniteSet(W) /\ Cardinality(W) < Cardinality(U)
        /\ Cardinality(W) \in Nat /\ Cardinality(U) \in Nat
    BY <1>3, <1>4, <2>1, Less, FS_CardinalityType
  <2>3. W \notin F
    BY <1>2, <2>2
  <2>4. Sums(W, G(W))
    <3>1. \E g : Sums(W, g)
      BY <1>3, <2>2, <2>3
    <3> HIDE DEF F, h
    <3> QED BY <3>1
  <2>5. h[W] = IF W = {} THEN 0 ELSE FirstOf(W).size + G(W \ {FirstOf(W)})[W \ {FirstOf(W)}]
    BY <2>2
  <2>6. G(W)[W] = IF W = {} THEN 0 ELSE FirstOf(W).size + G(W)[W \ {FirstOf(W)}]
    <3> PICK k : k = G(W)
      OBVIOUS
    <3>1. Sums(W, k)
      BY <2>4
    <3> HIDE DEF G, F, h
    <3> QED BY <3>1 DEF Sums
  <2>7. CASE W = {}
    BY <2>5, <2>6, <2>7
  <2>8. CASE W # {}
    <3> PICK V : V = W \ {FirstOf(W)}
      OBVIOUS
    <3>1. /\ V \in SUBSET U /\ IsFiniteSet(V) /\ Cardinality(V) < Cardinality(U)
          /\ Cardinality(V) \in Nat
      <4> HIDE DEF F, G, h
      <4>1. V \in SUBSET U
        BY <2>2
      <4>2. IsFiniteSet(V) /\ Cardinality(V) < Cardinality(W)
        BY <2>2, <2>8, Less
      <4>3. Cardinality(V) \in Nat
        BY <4>2, FS_CardinalityType
      <4> QED BY <2>2, <4>1, <4>2, <4>3
    <3>2. V \notin F
      BY <1>2, <2>2, <3>1
    <3>3. Sums(V, G(V))
      <4>1. \E g : Sums(V, g)
        BY <1>3, <3>1, <3>2
      <4> HIDE DEF F, h
      <4> QED BY <4>1
    <3>4. V \subseteq W /\ V \subseteq V
      OBVIOUS
    <3>5. \A k, l : Sums(W, k) /\ Sums(V, l) => k[V] = l[V]
      BY <3>1, <3>4, SumsAgree
    <3>6. G(W)[V] = G(V)[V]
      <4> HIDE DEF G, F, h
      <4> QED BY <2>4, <3>3, <3>5
    <3> QED BY <2>5, <2>6, <2>8, <3>6
  <2> QED BY <2>7, <2>8
<1>5. Sums(U, h)
  <2>1. h = [s \in SUBSET U |-> IF s = {} THEN 0
                                ELSE FirstOf(s).size + h[s \ {FirstOf(s)}]]
    <3> DEFINE k == [s \in SUBSET U |-> IF s = {} THEN 0
                                        ELSE FirstOf(s).size + h[s \ {FirstOf(s)}]]
    <3>1. ASSUME NEW s \in SUBSET U
          PROVE  h[s] = k[s]
      <4>1. CASE s = {}
        BY <4>1
      <4>2. CASE s # {}
        <5>1. h[s] = FirstOf(s).size + G(s \ {FirstOf(s)})[s \ {FirstOf(s)}]
          BY <4>2
        <5>2. k[s] = FirstOf(s).size + h[s \ {FirstOf(s)}]
          <6> HIDE DEF h
          <6> QED BY <4>2
        <5> QED BY <1>4, <4>2, <5>1, <5>2
      <4> QED BY <4>1, <4>2
    <3>2. h = [s \in SUBSET U |-> h[s]] /\ k = [s \in SUBSET U |-> k[s]]
      OBVIOUS
    <3>3. h = k
      <4> HIDE DEF h, k
      <4> QED BY <3>1, <3>2
    <3> QED BY <3>3
  <2> HIDE DEF h
  <2> QED BY <2>1 DEF Sums
<1> QED BY <1>5

\* What a sum is, one element after the other.
LEMMA UsedSteps ==
    ASSUME NEW S, IsFiniteSet(S)
    PROVE  Used(S) = IF S = {} THEN 0 ELSE FirstOf(S).size + Used(S \ {FirstOf(S)})
<1> PICK g : Sums(S, g) /\ Used(S) = g[S]
  BY SumsExist, UsedIs
<1>1. g[S] = IF S = {} THEN 0 ELSE FirstOf(S).size + g[S \ {FirstOf(S)}]
  BY DEF Sums
<1>2. CASE S # {}
  <2> PICK W : W = S \ {FirstOf(S)}
    OBVIOUS
  <2>1. IsFiniteSet(W) /\ W \subseteq S
    BY <1>2, Less
  <2> PICK h : Sums(W, h) /\ Used(W) = h[W]
    BY <2>1, SumsExist, UsedIs
  <2>2. g[W] = h[W]
    BY <2>1, SumsAgree
  <2> QED BY <1>1, <1>2, <2>2
<1> QED BY <1>1, <1>2

\* A sum of sizes is a number.
LEMMA UsedNat ==
    ASSUME NEW S, IsFiniteSet(S), \A x \in S : x.size \in Nat
    PROVE  Used(S) \in Nat
<1> DEFINE F == {U \in SUBSET S : Used(U) \notin Nat}
<1> SUFFICES ASSUME F # {}
             PROVE  FALSE
  BY DEF F
<1>1. \A U \in F : IsFiniteSet(U)
  BY FS_Subset
<1>2. PICK U \in F : \A V \in F : Cardinality(U) <= Cardinality(V)
  <2> HIDE DEF F
  <2> QED BY <1>1, SmallestExists
<1>3. IsFiniteSet(U) /\ U \in SUBSET S /\ Used(U) \notin Nat
  BY <1>1
<1>4. Used(U) = IF U = {} THEN 0 ELSE FirstOf(U).size + Used(U \ {FirstOf(U)})
  BY <1>3, UsedSteps
<1>5. U # {}
  BY <1>3, <1>4
<1> PICK V : V = U \ {FirstOf(U)}
  OBVIOUS
<1>6. /\ FirstOf(U) \in U /\ V \in SUBSET S /\ Cardinality(V) < Cardinality(U)
      /\ Cardinality(U) \in Nat /\ Cardinality(V) \in Nat
  <2>1. FirstOf(U) \in U /\ IsFiniteSet(V) /\ Cardinality(V) < Cardinality(U)
        /\ Cardinality(U) \in Nat
    BY <1>3, <1>5, Less
  <2> QED BY <1>3, <2>1, FS_CardinalityType
<1>7. Used(V) \in Nat
  BY <1>2, <1>6
<1>8. FirstOf(U).size \in Nat
  BY <1>3, <1>6
<1> QED BY <1>3, <1>4, <1>5, <1>7, <1>8

\* Any element may be taken out first.
LEMMA UsedTakes ==
    ASSUME NEW S, IsFiniteSet(S), \A x \in S : x.size \in Nat, NEW e \in S
    PROVE  Used(S) = e.size + Used(S \ {e})
<1> DEFINE F == {U \in SUBSET S : \E x \in U : Used(U) # x.size + Used(U \ {x})}
<1> SUFFICES ASSUME F # {}
             PROVE  FALSE
  BY DEF F
<1>1. \A U \in F : IsFiniteSet(U)
  BY FS_Subset
<1>2. PICK U \in F : \A V \in F : Cardinality(U) <= Cardinality(V)
  <2> HIDE DEF F
  <2> QED BY <1>1, SmallestExists
<1>3. IsFiniteSet(U) /\ U \in SUBSET S
  BY <1>1
<1>4. PICK x \in U : Used(U) # x.size + Used(U \ {x})
  OBVIOUS
<1> PICK c : c = FirstOf(U)
  OBVIOUS
<1>5. c \in U /\ Used(U) = c.size + Used(U \ {c}) /\ Cardinality(U) \in Nat
  BY <1>3, <1>4, UsedSteps, Less
<1>6. c # x
  BY <1>4, <1>5
<1>7. \A y \in U : /\ U \ {y} \in SUBSET S /\ IsFiniteSet(U \ {y})
                   /\ Cardinality(U \ {y}) = Cardinality(U) - 1
  BY <1>3, FS_RemoveElement
<1>8. \A y \in U : \A z \in U \ {y} : Used(U \ {y}) = z.size + Used((U \ {y}) \ {z})
  <2> SUFFICES ASSUME NEW y \in U
               PROVE  U \ {y} \notin F
    BY <1>7
  <2> HIDE DEF F
  <2> PICK O : O = U \ {y}
    OBVIOUS
  <2>1. Cardinality(O) = Cardinality(U) - 1
    BY <1>7
  <2>2. ~(Cardinality(U) <= Cardinality(O))
    BY <1>5, <2>1
  <2> QED BY <1>2, <2>2
<1> PICK W : W = (U \ {c}) \ {x}
  OBVIOUS
<1>9. W = (U \ {x}) \ {c} /\ IsFiniteSet(W) /\ W \subseteq S
  <2>1. IsFiniteSet(U \ {c})
    BY <1>5, <1>7
  <2>2. IsFiniteSet(W)
    BY <2>1, FS_RemoveElement
  <2> QED BY <1>3, <2>2
<1>10. Used(U \ {c}) = x.size + Used(W)
  BY <1>5, <1>6, <1>8
<1>11. Used(U \ {x}) = c.size + Used(W)
  BY <1>5, <1>6, <1>8, <1>9
<1>12. Used(W) \in Nat /\ c.size \in Nat /\ x.size \in Nat
  BY <1>3, <1>5, <1>9, UsedNat
<1> HIDE DEF F
<1> QED BY <1>4, <1>5, <1>10, <1>11, <1>12

\* More elements sum up to no less.
LEMMA UsedGrows ==
    ASSUME NEW T, IsFiniteSet(T), \A x \in T : x.size \in Nat, NEW O \in SUBSET T
    PROVE  Used(O) <= Used(T)
<1> DEFINE F == {U \in SUBSET T : O \subseteq U /\ ~(Used(O) <= Used(U))}
<1> SUFFICES ASSUME F # {}
             PROVE  FALSE
  BY DEF F
<1>1. \A U \in F : IsFiniteSet(U)
  BY FS_Subset
<1>2. PICK U \in F : \A V \in F : Cardinality(U) <= Cardinality(V)
  <2> HIDE DEF F
  <2> QED BY <1>1, SmallestExists
<1>3. IsFiniteSet(U) /\ U \in SUBSET T /\ O \subseteq U /\ ~(Used(O) <= Used(U))
  BY <1>1
<1>4. Used(O) \in Nat /\ Used(U) \in Nat
  <2>1. IsFiniteSet(O) /\ \A x \in O : x.size \in Nat
    BY FS_Subset
  <2>2. \A x \in U : x.size \in Nat
    BY <1>3
  <2> HIDE DEF F
  <2> QED BY <1>3, <2>1, <2>2, UsedNat
<1>5. O # U
  BY <1>3, <1>4
<1> PICK e \in U : e \notin O
  BY <1>3, <1>5
<1> PICK V : V = U \ {e}
  OBVIOUS
<1>6. V \in SUBSET T /\ O \subseteq V /\ Cardinality(V) < Cardinality(U)
      /\ Cardinality(U) \in Nat /\ Cardinality(V) \in Nat /\ IsFiniteSet(V)
  <2> HIDE DEF F
  <2>1. V \in SUBSET T /\ O \subseteq V
    BY <1>3
  <2>2. IsFiniteSet(V) /\ Cardinality(V) = Cardinality(U) - 1
    BY <1>3, FS_RemoveElement
  <2>3. Cardinality(U) \in Nat /\ Cardinality(V) \in Nat
    BY <1>3, <2>2, FS_CardinalityType
  <2> QED BY <2>1, <2>2, <2>3
<1>7. V \notin F
  <2> HIDE DEF F
  <2> QED BY <1>2, <1>6
<1>8. Used(O) <= Used(V)
  BY <1>6, <1>7
<1> HIDE DEF F
<1>9. Used(U) = e.size + Used(V)
  BY <1>3, UsedTakes
<1>10. Used(V) \in Nat /\ e.size \in Nat
  BY <1>3, <1>6, UsedNat
<1> QED BY <1>3, <1>4, <1>8, <1>9, <1>10

\* What fits one to one into rows of the same sizes sums up to no more.
LEMMA UsedFits ==
    ASSUME NEW S, NEW T, NEW f \in [S -> T], IsFiniteSet(S), IsFiniteSet(T),
           \A x \in T : x.size \in Nat,
           \A x \in S : f[x].size = x.size,
           \A x, y \in S : f[x] = f[y] => x = y
    PROVE  Used(S) <= Used(T)
<1> DEFINE Onto(U) == {f[x] : x \in U}
           F == {U \in SUBSET S : ~(Used(U) <= Used(Onto(U)))}
<1>0. ASSUME NEW U \in SUBSET S
      PROVE  /\ Onto(U) \subseteq T /\ IsFiniteSet(Onto(U))
             /\ \A x \in Onto(U) : x.size \in Nat
             /\ \A x \in U : x.size \in Nat
             /\ IsFiniteSet(U)
  <2>1. Onto(U) \subseteq T
    OBVIOUS
  <2> HIDE DEF Onto
  <2> QED BY <2>1, FS_Subset
<1>1. F = {}
  <2> SUFFICES ASSUME F # {}
               PROVE  FALSE
    OBVIOUS
  <2>1. \A U \in F : IsFiniteSet(U)
    BY FS_Subset
  <2>2. PICK U \in F : \A V \in F : Cardinality(U) <= Cardinality(V)
    <3> HIDE DEF F
    <3> QED BY <2>1, SmallestExists
  <2>3. IsFiniteSet(U) /\ U \in SUBSET S /\ ~(Used(U) <= Used(Onto(U)))
    BY <2>1
  <2>4. U # {}
    <3> SUFFICES ASSUME U = {}
                 PROVE  FALSE
      OBVIOUS
    <3>1. Onto(U) = {}
      OBVIOUS
    <3>2. Used({}) = 0
      BY FS_EmptySet, UsedSteps
    <3> HIDE DEF F
    <3>3. Used(U) = 0
      BY <3>2
    <3>4. Used(Onto(U)) = 0
      BY <3>1, <3>2
    <3> HIDE DEF Onto
    <3> QED BY <2>3, <3>3, <3>4
  <2> PICK e \in U : TRUE
    BY <2>4
  <2> PICK V : V = U \ {e}
    OBVIOUS
  <2>5. V \in SUBSET S /\ Cardinality(V) < Cardinality(U) /\ Cardinality(U) \in Nat
        /\ Cardinality(V) \in Nat
    <3> HIDE DEF Onto, F
    <3>1. IsFiniteSet(V) /\ Cardinality(V) = Cardinality(U) - 1
      BY <2>3, FS_RemoveElement
    <3>2. Cardinality(U) \in Nat /\ Cardinality(V) \in Nat
      BY <2>3, <3>1, FS_CardinalityType
    <3> QED BY <2>3, <3>1, <3>2
  <2>6. V \notin F
    <3> HIDE DEF F
    <3> QED BY <2>2, <2>5
  <2>7. Used(V) <= Used(Onto(V))
    BY <2>5, <2>6
  <2>8. f[e] \in Onto(U) /\ Onto(V) = Onto(U) \ {f[e]}
    BY <2>3
  <2>9. f[e].size = e.size
    BY <2>3
  <2> HIDE DEF Onto, F
  <2>10. Used(U) = e.size + Used(V)
    BY <1>0, <2>3, UsedTakes
  <2>11. Used(Onto(U)) = f[e].size + Used(Onto(V))
    <3> PICK O : O = Onto(U)
      OBVIOUS
    <3>1. IsFiniteSet(O) /\ (\A x \in O : x.size \in Nat) /\ f[e] \in O
      BY <1>0, <2>3, <2>8
    <3>2. Used(O) = f[e].size + Used(O \ {f[e]})
      BY <3>1, UsedTakes
    <3> QED BY <2>8, <3>2
  <2>12. Used(V) \in Nat /\ Used(Onto(V)) \in Nat /\ e.size \in Nat
    <3>1. IsFiniteSet(V) /\ (\A x \in V : x.size \in Nat)
      BY <1>0, <2>5
    <3>2. IsFiniteSet(Onto(V)) /\ (\A x \in Onto(V) : x.size \in Nat)
      BY <1>0, <2>5
    <3>3. e.size \in Nat
      BY <1>0, <2>3
    <3> QED BY <3>1, <3>2, <3>3, UsedNat
  <2> QED BY <2>3, <2>7, <2>9, <2>10, <2>11, <2>12
<1>2. Used(S) <= Used(Onto(S))
  BY <1>1
<1> HIDE DEF Onto
<1>3. IsFiniteSet(Onto(S)) /\ Onto(S) \subseteq T
  BY <1>0
<1>4. Used(Onto(S)) <= Used(T)
  <2> HIDE DEF F
  <2> PICK O : O = Onto(S)
    OBVIOUS
  <2>1. O \in SUBSET T
    BY <1>3
  <2>2. Used(O) <= Used(T)
    BY <2>1, UsedGrows
  <2> QED BY <2>2
<1>5. Used(S) \in Nat /\ Used(Onto(S)) \in Nat /\ Used(T) \in Nat
  <2> PICK O : O = Onto(S)
    OBVIOUS
  <2>1. IsFiniteSet(O) /\ (\A x \in O : x.size \in Nat) /\ \A x \in S : x.size \in Nat
    BY <1>0, <1>3
  <2> HIDE DEF F
  <2> QED BY <2>1, UsedNat
<1> HIDE DEF F
<1> QED BY <1>2, <1>4, <1>5

QuotaPhases == {"idle", "locking", "sleeping"}
Rows   == [id : Nat, size : Nat, time : Nat]
QuotaTyped ==
    /\ now \in Nat
    /\ reservations \subseteq Rows /\ IsFiniteSet(reservations)
    /\ admitted \subseteq Rows /\ IsFiniteSet(admitted)
    /\ DOMAIN client = Processes
    /\ \A p \in Processes :
         /\ client[p] = [at |-> client[p].at, size |-> client[p].size, time |-> client[p].time]
         /\ client[p].at \in QuotaPhases /\ client[p].size \in Nat

\* A process that waits for the lock has not waited longer than it may.
Waits == \A p \in Processes : client[p].at = "locking" =>
            client[p].time \in Nat /\ client[p].time <= now /\ now <= client[p].time + LockWait
Numbered ==
    /\ \A a \in admitted : a.id < Cardinality(admitted)
    /\ \A a, b \in admitted : a.id = b.id => a = b

\* Every admitted request that still counts has a row, stamped before it.
RowOf(r, a) == /\ r.id = a.id /\ r.size = a.size
               /\ r.time <= a.time /\ a.time <= r.time + LockWait
Covered == \A a \in admitted : \/ a.time + Window <= now + LockWait
                               \/ \E r \in reservations : RowOf(r, a)
QuotaInv == QuotaTyped /\ Waits /\ Numbered /\ Covered /\ WindowHolds

\* The windows that let nobody new in stay as they are.
LEMMA WindowsStay ==
    ASSUME QuotaInv, admitted' = admitted
    PROVE  WindowHolds'
  BY DEF QuotaInv, WindowHolds, Within

\* The phase, size and clock of the other processes stay.
LEMMA ClientsStay ==
    ASSUME QuotaInv, NEW p \in Processes,
           \A q \in Processes \ {p} : client'[q] = client[q], DOMAIN client' = Processes,
           client'[p] = [at |-> client'[p].at, size |-> client'[p].size, time |-> client'[p].time],
           client'[p].at \in QuotaPhases, client'[p].size \in Nat, now' = now,
           client'[p].at = "locking" =>
                client'[p].time \in Nat /\ client'[p].time <= now
                /\ now <= client'[p].time + LockWait
    PROVE  /\ \A q \in Processes :
                /\ client'[q] = [at |-> client'[q].at, size |-> client'[q].size,
                                 time |-> client'[q].time]
                /\ client'[q].at \in QuotaPhases /\ client'[q].size \in Nat
           /\ Waits'
<1>1. \A q \in Processes \ {p} :
        /\ client'[q] = [at |-> client'[q].at, size |-> client'[q].size,
                         time |-> client'[q].time]
        /\ client'[q].at \in QuotaPhases /\ client'[q].size \in Nat
  BY DEF QuotaInv, QuotaTyped
<1>2. Waits'
  <2> SUFFICES ASSUME NEW q \in Processes, client'[q].at = "locking"
               PROVE  client'[q].time \in Nat /\ client'[q].time <= now
                      /\ now <= client'[q].time + LockWait
    BY DEF Waits
  <2>1. CASE q = p
    BY <2>1
  <2>2. CASE q # p
    <3>1. client'[q] = client[q]
      BY <2>2
    <3> QED BY <3>1 DEF QuotaInv, Waits
  <2> QED BY <2>1, <2>2
<1> QED BY <1>1, <1>2

\* What does not touch the reservations or the clock keeps the rest.
LEMMA QuotaStay ==
    ASSUME QuotaInv, now' = now, reservations' = reservations, admitted' = admitted
    PROVE  Numbered' /\ Covered' /\ WindowHolds'
<1>1. Numbered'
  BY DEF QuotaInv, Numbered
<1>2. Covered'
  BY DEF QuotaInv, Covered, RowOf
<1> QED BY <1>1, <1>2, WindowsStay

\* Pruning by a clock that was read loses no row that still counts.
LEMMA PruningCovers ==
    ASSUME QuotaInv, NEW time \in Nat, time <= now, NEW a \in admitted,
           ~(a.time + Window <= now + LockWait)
    PROVE  \E r \in Counted(time) : RowOf(r, a)
<1> PICK r \in reservations : RowOf(r, a)
  BY DEF QuotaInv, Covered
<1>1. r.time \in Nat /\ a.time \in Nat /\ now \in Nat
  BY DEF QuotaInv, QuotaTyped, Rows
<1>2. r.time + Window > time
  BY <1>1, QuotaAssumption DEF RowOf
<1> QED BY <1>2 DEF Counted

\* The requests of a window that a new one falls in, as rows that are counted.
LEMMA WindowCounted ==
    ASSUME QuotaInv, NEW time \in Nat, time <= now, NEW from \in Nat,
           from < now, now + LockWait <= from + Window
    PROVE  /\ Cardinality(Within(from)) <= Cardinality(Counted(time))
           /\ Used(Within(from)) <= Used(Counted(time))
           /\ IsFiniteSet(Counted(time)) /\ IsFiniteSet(Within(from))
           /\ \A r \in Counted(time) : r.size \in Nat
           /\ \A r \in Within(from) : r.size \in Nat
<1> PICK S, T : S = Within(from) /\ T = Counted(time)
  OBVIOUS
<1>1. S \subseteq admitted /\ T \subseteq reservations
  BY DEF Within, Counted
<1>2. IsFiniteSet(S) /\ IsFiniteSet(T)
  BY <1>1, FS_Subset DEF QuotaInv, QuotaTyped
<1>3. (\A r \in T : r.size \in Nat) /\ \A a \in S : a.size \in Nat
  BY <1>1 DEF QuotaInv, QuotaTyped, Rows
<1>4. ASSUME NEW a \in S
      PROVE  \E r \in T : RowOf(r, a)
  <2>1. a.time \in Nat /\ now \in Nat /\ from < a.time
    BY <1>1 DEF QuotaInv, QuotaTyped, Rows, Within
  <2>2. ~(a.time + Window <= now + LockWait)
    BY <2>1, QuotaAssumption
  <2> QED BY <1>1, <2>2, PruningCovers
<1> DEFINE f == [a \in S |-> CHOOSE r \in T : RowOf(r, a)]
<1>5. \A a \in S : f[a] \in T /\ RowOf(f[a], a)
  BY <1>4
<1>6. f \in [S -> T]
  BY <1>5
<1> HIDE DEF f
<1>7. \A a, b \in S : f[a] = f[b] => a = b
  BY <1>1, <1>5 DEF RowOf, QuotaInv, Numbered
<1>8. Cardinality(S) <= Cardinality(T)
  <2>1. f \in Injection(S, T)
    BY <1>6, <1>7 DEF Injection, IsInjective
  <2> QED BY <1>2, <2>1, FS_Injection
<1>9. Used(S) <= Used(T)
  <2>1. \A a \in S : f[a].size = a.size
    BY <1>5 DEF RowOf
  <2> QED BY <1>2, <1>3, <1>6, <1>7, <2>1, UsedFits
<1> QED BY <1>2, <1>3, <1>8, <1>9

\* Time passes.
LEMMA TickKeeps ==
    ASSUME QuotaInv, Tick
    PROVE  QuotaInv'
<1>1. /\ UNCHANGED <<reservations, client, admitted>> /\ now' = now + 1 /\ now \in Nat
      /\ \A p \in Processes : client[p].at = "locking" => now < client[p].time + LockWait
  BY DEF Tick, QuotaInv, QuotaTyped
<1>2. QuotaTyped'
  BY <1>1 DEF QuotaInv, QuotaTyped
<1>3. Waits'
  BY <1>1, QuotaAssumption DEF QuotaInv, Waits
<1>4. Numbered' /\ WindowHolds'
  BY <1>1, WindowsStay DEF QuotaInv, Numbered
<1>5. Covered'
  <2> SUFFICES ASSUME NEW a \in admitted, ~(a.time + Window <= now' + LockWait)
               PROVE  \E r \in reservations : RowOf(r, a)
    BY <1>1 DEF Covered, RowOf
  <2>1. a.time \in Nat
    BY DEF QuotaInv, QuotaTyped, Rows
  <2>2. ~(a.time + Window <= now + LockWait)
    BY <1>1, <2>1, QuotaAssumption
  <2> QED BY <2>2 DEF QuotaInv, Covered
<1> QED BY <1>2, <1>3, <1>4, <1>5 DEF QuotaInv

\* A process asks, wakes up or gives up.
LEMMA ClientMoves ==
    ASSUME QuotaInv, NEW p \in Processes,
           \/ \E size \in Sizes : AskQuota(p, size)
           \/ Wake(p) \/ GiveUpQuota(p)
    PROVE  QuotaInv'
<1>1. UNCHANGED <<now, reservations, admitted>>
  BY DEF AskQuota, Wake, GiveUpQuota
<1>2. QuotaTyped /\ Waits /\ now \in Nat /\ DOMAIN client = Processes
  BY DEF QuotaInv, QuotaTyped
<1> PICK c : c = client[p]
  OBVIOUS
<1>3. c = [at |-> c.at, size |-> c.size, time |-> c.time] /\ c.at \in QuotaPhases /\ c.size \in Nat
  BY <1>2 DEF QuotaTyped
<1>4. now <= now /\ now <= now + LockWait
  BY <1>2, QuotaAssumption
<1> PICK d : d = client'[p]
  OBVIOUS
<1>5. /\ \A q \in Processes \ {p} : client'[q] = client[q]
      /\ DOMAIN client' = Processes
      /\ d = [at |-> d.at, size |-> d.size, time |-> d.time]
      /\ d.at \in QuotaPhases /\ d.size \in Nat
      /\ d.at = "locking" => d.time \in Nat /\ d.time <= now /\ now <= d.time + LockWait
  <2>1. ASSUME NEW size \in Sizes, AskQuota(p, size)
        PROVE  <1>5!:
    <3>1. client' = [client EXCEPT ![p] = [at |-> "locking", size |-> size, time |-> now]]
      BY <2>1 DEF AskQuota
    <3>2. d = [at |-> "locking", size |-> size, time |-> now]
      BY <1>2, <3>1
    <3> QED BY <1>2, <1>4, <3>1, <3>2, QuotaAssumption DEF QuotaPhases
  <2>2. ASSUME Wake(p)
        PROVE  <1>5!:
    <3>1. client' = [client EXCEPT ![p] = [c EXCEPT !.at = "locking", !.time = now]]
      BY <1>2, <2>2 DEF Wake
    <3>2. d = [at |-> "locking", size |-> c.size, time |-> now]
      BY <1>2, <1>3, <3>1
    <3> QED BY <1>2, <1>3, <1>4, <3>1, <3>2 DEF QuotaPhases
  <2>3. ASSUME GiveUpQuota(p)
        PROVE  <1>5!:
    <3>1. client' = [client EXCEPT ![p] = NoRequest]
      BY <2>3 DEF GiveUpQuota
    <3>2. d = [at |-> "idle", size |-> 0, time |-> 0]
      BY <1>2, <3>1 DEF NoRequest
    <3> QED BY <1>2, <3>1, <3>2 DEF QuotaPhases
  <2> QED BY <2>1, <2>2, <2>3
<1>6. QuotaTyped' /\ Waits'
  BY <1>1, <1>2, <1>5, ClientsStay DEF QuotaTyped
<1> QED BY <1>1, <1>6, QuotaStay DEF QuotaInv

\* A process sleeps until its oldest row is out of the window.
LEMMA SleepKeeps ==
    ASSUME QuotaInv, NEW p \in Processes, Sleep(p)
    PROVE  QuotaInv'
<1> PICK c : c = client[p]
  OBVIOUS
<1> PICK t : t = now + (Oldest(Counted(c.time)).time + Window - c.time)
  OBVIOUS
<1>1. /\ UNCHANGED <<now, admitted>> /\ reservations' = Counted(c.time)
      /\ client' = [client EXCEPT ![p].at = "sleeping", ![p].time = t] /\ c.at = "locking"
  BY DEF Sleep
<1>2. QuotaTyped /\ Waits /\ now \in Nat /\ DOMAIN client = Processes
  BY DEF QuotaInv, QuotaTyped
<1>3. c = [at |-> c.at, size |-> c.size, time |-> c.time] /\ c.size \in Nat
      /\ c.time \in Nat /\ c.time <= now
  BY <1>1, <1>2 DEF QuotaTyped, Waits
<1> PICK d : d = client'[p]
  OBVIOUS
<1>4. /\ d = [at |-> "sleeping", size |-> c.size, time |-> t] /\ DOMAIN client' = Processes
      /\ \A q \in Processes \ {p} : client'[q] = client[q]
  BY <1>1, <1>2, <1>3
<1>5. reservations' \subseteq reservations /\ IsFiniteSet(reservations')
  BY <1>1, <1>2, FS_Subset DEF Counted, QuotaTyped
<1>6. d = [at |-> d.at, size |-> d.size, time |-> d.time] /\ d.at = "sleeping" /\ d.size \in Nat
  BY <1>3, <1>4
<1>7. QuotaTyped' /\ Waits'
  BY <1>1, <1>2, <1>4, <1>5, <1>6, ClientsStay DEF QuotaTyped, QuotaPhases
<1>8. Covered'
  BY <1>1, <1>3, PruningCovers DEF Covered, RowOf
<1>9. Numbered' /\ WindowHolds'
  BY <1>1, WindowsStay DEF QuotaInv, Numbered
<1> QED BY <1>7, <1>8, <1>9 DEF QuotaInv

\* A request is let through.
LEMMA ReserveKeeps ==
    ASSUME QuotaInv, NEW p \in Processes, ReserveQuota(p)
    PROVE  QuotaInv'
<1> PICK c, n : c = client[p] /\ n = Cardinality(admitted)
  OBVIOUS
<1> PICK row, new : /\ row = [id |-> n, size |-> c.size, time |-> c.time]
                    /\ new = [id |-> n, size |-> c.size, time |-> now]
  OBVIOUS
<1> PICK counted : counted = Counted(c.time)
  OBVIOUS
<1>1. /\ now' = now /\ reservations' = counted \cup {row} /\ admitted' = admitted \cup {new}
      /\ client' = [client EXCEPT ![p] = NoRequest] /\ c.at = "locking"
      /\ Fits(c.size, counted)
  BY DEF ReserveQuota
<1>2. /\ QuotaTyped /\ Waits /\ Numbered /\ Covered /\ now \in Nat /\ DOMAIN client = Processes
      /\ WindowHolds
  BY DEF QuotaInv, QuotaTyped
<1>3. c.size \in Nat /\ c.time \in Nat /\ c.time <= now /\ now <= c.time + LockWait
  BY <1>1, <1>2 DEF QuotaTyped, Waits
<1>4. n \in Nat
  BY <1>2, FS_CardinalityType DEF QuotaTyped
<1>5. /\ row \in Rows /\ new \in Rows /\ row.id = n /\ row.size = c.size /\ row.time = c.time
      /\ new.id = n /\ new.size = c.size /\ new.time = now
  BY <1>2, <1>3, <1>4 DEF Rows
<1>6. new \notin admitted /\ Cardinality(admitted') = n + 1 /\ IsFiniteSet(admitted')
  <2>1. new \notin admitted
    BY <1>2, <1>4, <1>5 DEF Numbered
  <2>2. IsFiniteSet(admitted)
    BY <1>2 DEF QuotaTyped
  <2> QED BY <1>1, <2>1, <2>2, FS_AddElement
<1>7. Numbered'
  <2>1. \A a \in admitted : a.id < n /\ a.id \in Nat
    BY <1>2 DEF Numbered, QuotaTyped, Rows
  <2>2. \A a \in admitted' : a.id < n + 1
    BY <1>1, <1>4, <1>5, <2>1
  <2>3. \A a, b \in admitted' : a.id = b.id => a = b
    BY <1>1, <1>2, <1>4, <1>5, <2>1 DEF Numbered
  <2> QED BY <1>6, <2>2, <2>3 DEF Numbered
<1>8. Covered'
  <2> SUFFICES ASSUME NEW a \in admitted', ~(a.time + Window <= now + LockWait)
               PROVE  \E r \in reservations' : RowOf(r, a)
    BY <1>1 DEF Covered, RowOf
  <2>1. CASE a \in admitted
    <3>1. \E r \in counted : RowOf(r, a)
      BY <1>3, <2>1, PruningCovers
    <3> QED BY <1>1, <3>1
  <2>2. CASE a = new
    <3>1. RowOf(row, new)
      BY <1>3, <1>5 DEF RowOf
    <3> QED BY <1>1, <2>2, <3>1
  <2> QED BY <1>1, <2>1, <2>2
<1>9. QuotaTyped' /\ Waits'
  <2>1. counted \subseteq reservations /\ IsFiniteSet(counted)
    BY <1>2, FS_Subset DEF Counted, QuotaTyped
  <2>2. IsFiniteSet(reservations')
    BY <1>1, <2>1, FS_AddElement
  <2> PICK d : d = client'[p]
    OBVIOUS
  <2>3. /\ d = [at |-> "idle", size |-> 0, time |-> 0] /\ DOMAIN client' = Processes
        /\ \A q \in Processes \ {p} : client'[q] = client[q]
    BY <1>1, <1>2 DEF NoRequest
  <2>4. d = [at |-> d.at, size |-> d.size, time |-> d.time] /\ d.at = "idle" /\ d.size \in Nat
    BY <2>3
  <2> QED BY <1>1, <1>2, <1>5, <1>6, <2>1, <2>2, <2>3, <2>4, ClientsStay DEF QuotaTyped, QuotaPhases
<1>10. WindowHolds'
  <2> SUFFICES ASSUME NEW from \in 0..MaxTime
               PROVE  /\ Cardinality(Within(from)') <= Requests
                      /\ Used(Within(from)') <= Tokens
    BY DEF WindowHolds
  <2> PICK W, V : W = Within(from) /\ V = Within(from)'
    OBVIOUS
  <2>1. Cardinality(W) <= Requests /\ Used(W) <= Tokens
    BY <1>2 DEF WindowHolds
  <2>2. CASE ~(from < now /\ now + LockWait <= from + Window)
    <3>1. V = W
      BY <1>1, <1>5, <2>2 DEF Within
    <3> QED BY <2>1, <3>1
  <2>3. CASE from < now /\ now + LockWait <= from + Window
    <3>1. V = W \cup {new}
      BY <1>1, <1>5, <2>3 DEF Within
    <3>2. new \notin W
      BY <1>6 DEF Within
    <3>3. /\ Cardinality(W) <= Cardinality(counted) /\ Used(W) <= Used(counted)
          /\ IsFiniteSet(counted) /\ IsFiniteSet(W)
          /\ (\A r \in counted : r.size \in Nat) /\ \A r \in W : r.size \in Nat
      BY <1>3, <2>3, WindowCounted
    <3>4. /\ Cardinality(W) \in Nat /\ Cardinality(counted) \in Nat
          /\ Used(W) \in Nat /\ Used(counted) \in Nat
      BY <3>3, UsedNat, FS_CardinalityType
    <3>5. Cardinality(V) = Cardinality(W) + 1 /\ IsFiniteSet(V)
      BY <3>1, <3>2, <3>3, FS_AddElement
    <3>6. Used(V) = c.size + Used(W)
      <4>1. (\A r \in V : r.size \in Nat) /\ new \in V /\ V \ {new} = W
        BY <1>3, <1>5, <3>1, <3>2, <3>3
      <4>2. Used(V) = new.size + Used(V \ {new})
        BY <3>5, <4>1, UsedTakes
      <4> QED BY <1>5, <4>1, <4>2
    <3>7. Cardinality(counted) + 1 <= Requests /\ Used(counted) + c.size <= Tokens
      BY <1>1 DEF Fits
    <3>8. Requests \in Nat /\ Tokens \in Nat
      BY QuotaAssumption
    <3> QED BY <1>3, <3>3, <3>4, <3>5, <3>6, <3>7, <3>8
  <2> QED BY <2>2, <2>3
<1> QED BY <1>7, <1>8, <1>9, <1>10 DEF QuotaInv

\* The inductive invariant of the quota.
LEMMA QuotaInductive ==
    QuotaSpec => []QuotaInv
<1>1. QuotaInit => QuotaInv
  <2> SUFFICES ASSUME QuotaInit
               PROVE  QuotaInv
    OBVIOUS
  <2>1. now \in Nat /\ reservations = {} /\ admitted = {} /\ DOMAIN client = Processes
        /\ \A p \in Processes : client[p] = [at |-> "idle", size |-> 0, time |-> 0]
    BY QuotaAssumption DEF QuotaInit, NoRequest
  <2>2. IsFiniteSet({}) /\ Cardinality({}) = 0 /\ Used({}) = 0
    BY FS_EmptySet, UsedSteps
  <2>3. QuotaTyped
    BY <2>1, <2>2 DEF QuotaTyped, QuotaPhases
  <2>4. Waits /\ Numbered /\ Covered
    BY <2>1 DEF Waits, Numbered, Covered
  <2>5. \A from \in 0..MaxTime : Within(from) = {}
    BY <2>1 DEF Within
  <2>6. WindowHolds
    BY <2>2, <2>5, QuotaAssumption DEF WindowHolds
  <2> QED BY <2>3, <2>4, <2>6 DEF QuotaInv
<1>2. QuotaInv /\ [QuotaNext]_quotaVars => QuotaInv'
  <2> SUFFICES ASSUME QuotaInv, [QuotaNext]_quotaVars
               PROVE  QuotaInv'
    OBVIOUS
  <2>1. CASE UNCHANGED quotaVars
    <3>1. UNCHANGED <<now, reservations, client, admitted>>
      BY <2>1 DEF quotaVars
    <3>2. QuotaTyped' /\ Waits'
      BY <3>1 DEF QuotaInv, QuotaTyped, Waits
    <3> QED BY <3>1, <3>2, QuotaStay DEF QuotaInv
  <2>2. CASE Tick
    BY <2>2, TickKeeps
  <2>3. ASSUME NEW p \in Processes,
               \/ \E size \in Sizes : AskQuota(p, size)
               \/ ReserveQuota(p) \/ Sleep(p) \/ Wake(p) \/ GiveUpQuota(p)
        PROVE  QuotaInv'
    BY <2>3, ClientMoves, ReserveKeeps, SleepKeeps
  <2> QED BY <2>1, <2>2, <2>3 DEF QuotaNext
<1> QED BY <1>1, <1>2, PTL DEF QuotaSpec

\* However many processes wait for the lock, prune for each other or sleep, no
\* window lets more requests or tokens through than the limits say.
THEOREM WindowAlwaysHolds ==
    QuotaSpec => []WindowHolds
<1>1. QuotaInv => WindowHolds
  BY DEF QuotaInv
<1> QED BY <1>1, QuotaInductive, PTL

-----------------------------------------------------------------------------
(* Embeddings.                                                             *)
(* A backfill stores vector and digest of one input in one transaction,    *)
(* and a publication drops both.                                           *)

\* What a backfill remembers: nodes and bodies of some moment, and pages of
\* these nodes that are still to be embedded.
Phases == {"idle", "bodies", "plan", "lock", "request", "store"}
Runs == [at : Phases, nodes : [Pages -> Content], bodies : [Pages -> Content],
         todo : SUBSET Pages, batch : SUBSET Pages, embedded : BOOLEAN,
         model : Models \cup {None}]
RunTyped(r) ==
    /\ r \in Runs
    /\ \A p \in r.todo \cup r.batch : r.nodes[p] # Gone
    /\ IF r.at = "idle" THEN r.todo = {} /\ r.batch = {} ELSE r.model \in Models

BackfillTyped ==
    /\ canon \in [Pages -> Content] /\ index \in [Pages -> Content]
    /\ pub # None => pub.nodes \in [Pages -> Content]
    /\ vectors \in [Pages -> Vector \cup {None}]
    /\ inputs \in [Pages -> Input \cup {None}]
    /\ model \in Models
    /\ DOMAIN run = Backfills /\ \A b \in Backfills : RunTyped(run[b])

BackfillInv == BackfillTyped /\ StampIsTheInput

\* The empty tables agree.
LEMMA BackfillStarts == BackfillInit => BackfillInv
<1> SUFFICES ASSUME BackfillInit PROVE BackfillInv OBVIOUS
<1>1. model \in Models BY BackfillAssumption DEF BackfillInit
<1>2. \A b \in Backfills : RunTyped(run[b]) BY DEF BackfillInit, RunTyped, Runs, Phases, Idle, Content
<1>3. BackfillTyped BY <1>1, <1>2 DEF BackfillInit, BackfillTyped
<1> QED BY <1>3 DEF BackfillInit, BackfillInv, StampIsTheInput

\* Of any keys, First takes some.
LEMMA FirstAreSome == \A keys, n : First(keys, n) \subseteq keys
  BY DEF First

\* A step of a backfill that stores nothing keeps the invariant, if what it
\* remembers is typed.
LEMMA RememberKeeps ==
    ASSUME BackfillInv, NEW b \in Backfills, run' = [run EXCEPT ![b] = run'[b]],
           RunTyped(run'[b]),
           canon' = canon, index' = index, pub' = pub, vectors' = vectors, inputs' = inputs,
           model' = model
    PROVE  BackfillInv'
<1>1. \A c \in Backfills : RunTyped(run'[c])
  BY DEF BackfillInv, BackfillTyped
<1>2. BackfillTyped' BY <1>1 DEF BackfillInv, BackfillTyped
<1> QED BY <1>2 DEF BackfillInv, StampIsTheInput

\* The rows that a publication drops, it drops from both tables.
LEMMA DropKeeps ==
    ASSUME BackfillInv, NEW keys, Drop(keys), canon' = canon, index' = index, model' = model,
           run' = run, pub' # None => pub'.nodes \in [Pages -> Content]
    PROVE  BackfillInv'
<1>1. BackfillTyped' BY DEF BackfillInv, BackfillTyped, Drop
<1> QED BY <1>1 DEF BackfillInv, BackfillTyped, StampIsTheInput, Drop

\* Pages change and are published.
LEMMA KeepPublication ==
    ASSUME BackfillInv,
           \/ \E p \in Pages, t \in Content : Commit(p, t)
           \/ \E p \in Pages : PublishRows(p)
           \/ RebuildRows \/ PublishFile \/ PublishStops
    PROVE  BackfillInv'
<1>1. ASSUME NEW p \in Pages, NEW t \in Content, Commit(p, t) PROVE BackfillInv'
  BY <1>1 DEF Commit, vectorRows, BackfillInv, BackfillTyped, StampIsTheInput
<1>2. ASSUME NEW p \in Pages, PublishRows(p) PROVE BackfillInv'
  <2>1. [index EXCEPT ![p] = canon[p]] \in [Pages -> Content]
    BY DEF BackfillInv, BackfillTyped
  <2> QED BY <1>2, <2>1, DropKeeps DEF PublishRows
<1>3. CASE RebuildRows
  <2>1. canon \in [Pages -> Content] BY DEF BackfillInv, BackfillTyped
  <2> QED BY <1>3, <2>1, DropKeeps DEF RebuildRows
<1>4. CASE PublishFile \/ PublishStops
  BY <1>4 DEF PublishFile, PublishStops, vectorRows, BackfillInv, BackfillTyped, StampIsTheInput
<1> QED BY <1>1, <1>2, <1>3, <1>4

\* A backfill goes on, except for its writes.
LEMMA KeepBackfill ==
    ASSUME BackfillInv, NEW b \in Backfills,
           \/ ReadIndex(b) \/ ReadBodies(b) \/ Lock(b) \/ Request(b) \/ BatchDone(b)
           \/ \E everything \in BOOLEAN : Plan(b, everything)
           \/ \E stop \in BOOLEAN : BatchFails(b, stop)
           \/ Finish(b) \/ Crash(b)
    PROVE  BackfillInv'
<1> USE DEF stores, vectorRows
<1>1. /\ RunTyped(run[b]) /\ RunTyped(Idle) /\ DOMAIN run = Backfills
      /\ canon \in [Pages -> Content] /\ index \in [Pages -> Content] /\ model \in Models
  BY DEF BackfillInv, BackfillTyped, RunTyped, Runs, Phases, Idle, Content
<1>2. ASSUME run' = [run EXCEPT ![b] = Idle] PROVE RunTyped(run'[b]) BY <1>1, <1>2
<1>3. CASE ReadIndex(b)
  <2>1. RunTyped(run'[b]) BY <1>1, <1>3 DEF ReadIndex, RunTyped, Runs, Phases
  <2> QED BY <1>3, <2>1, RememberKeeps DEF ReadIndex
<1>4. CASE ReadBodies(b)
  <2>1. RunTyped(run'[b]) BY <1>1, <1>4 DEF ReadBodies, RunTyped, Runs, Phases
  <2> QED BY <1>4, <2>1, RememberKeeps DEF ReadBodies
<1>5. CASE Lock(b)
  <2>1. RunTyped(run'[b]) BY <1>1, <1>5 DEF Lock, RunTyped, Runs, Phases
  <2> QED BY <1>1, <1>5, <2>1, RememberKeeps DEF Lock
<1>6. CASE Request(b)
  <2>1. NextBatch(b) \subseteq run[b].todo BY FirstAreSome DEF NextBatch
  <2>2. RunTyped(run'[b]) BY <1>1, <1>6, <2>1 DEF Request, RunTyped, Runs, Phases
  <2> QED BY <1>6, <2>2, RememberKeeps DEF Request
<1>7. CASE BatchDone(b)
  <2>1. RunTyped(run'[b]) BY <1>1, <1>7 DEF BatchDone, RunTyped, Runs, Phases
  <2> QED BY <1>7, <2>1, RememberKeeps DEF BatchDone
<1>8. ASSUME NEW everything \in BOOLEAN, Plan(b, everything) PROVE BackfillInv'
  <2>1. \A p \in Candidates(b, everything) : p \in Pages /\ run[b].nodes[p] # Gone
    BY FirstAreSome DEF Candidates, Pending
  <2>2. RunTyped(run'[b]) BY <1>1, <1>8, <2>1 DEF Plan, RunTyped, Runs, Phases
  <2> QED BY <1>1, <1>8, <2>2, RememberKeeps DEF Plan
<1>9. ASSUME NEW stop \in BOOLEAN, BatchFails(b, stop) PROVE BackfillInv'
  <2>1. RunTyped(run'[b]) BY <1>1, <1>9 DEF BatchFails, RunTyped, Runs, Phases
  <2> QED BY <1>9, <2>1, RememberKeeps DEF BatchFails
<1>10. CASE Finish(b)
  <2>1. RunTyped(run'[b]) BY <1>2, <1>10 DEF Finish
  <2> QED BY <1>1, <1>10, <2>1, RememberKeeps DEF Finish
<1>11. CASE Crash(b)
  <2>1. RunTyped(run'[b]) BY <1>2, <1>11 DEF Crash
  <2> QED BY <1>1, <1>11, <2>1, RememberKeeps DEF Crash
<1> QED BY <1>3, <1>4, <1>5, <1>6, <1>7, <1>8, <1>9, <1>10, <1>11

\* Vector and digest are stored in one transaction, of one input.
LEMMA KeepStore ==
    ASSUME BackfillInv, NEW b \in Backfills, NEW p \in Pages, Store(b, p)
    PROVE  BackfillInv'
<1> DEFINE input == InputOf(run[b].nodes, run[b].bodies, p)
<1>1. RunTyped(run[b]) /\ DOMAIN run = Backfills BY DEF BackfillInv, BackfillTyped
<1>2. p \in run[b].batch BY FirstAreSome DEF Store
<1>3. run[b].at # "idle" BY DEF Store
<1>4. input \in Input BY <1>1, <1>2 DEF InputOf, Input, RunTyped, Runs, Content
<1>5. run[b].model \in Models BY <1>1, <1>3 DEF RunTyped
<1>6. [input |-> input, model |-> run[b].model] \in Vector BY <1>4, <1>5 DEF Vector
<1>7. RunTyped(run'[b]) BY <1>1 DEF Store, RunTyped, Runs
<1> HIDE DEF input
<1>8. /\ vectors' = [vectors EXCEPT ![p] = [input |-> input, model |-> run[b].model]]
      /\ inputs' = [inputs EXCEPT ![p] = input]
      /\ UNCHANGED <<canon, index, pub, model>>
  BY DEF Store, Digest, input, stores
<1>9. \A c \in Backfills : c # b => run'[c] = run[c] BY <1>1 DEF Store
<1>10. DOMAIN run' = Backfills BY <1>1 DEF Store
<1>11. BackfillTyped'
  BY <1>4, <1>6, <1>7, <1>8, <1>9, <1>10 DEF BackfillInv, BackfillTyped
<1>12. StampIsTheInput'
  BY <1>6, <1>8, BackfillAssumption DEF BackfillInv, BackfillTyped, StampIsTheInput
<1> QED BY <1>11, <1>12 DEF BackfillInv

\* Every step keeps the invariant.
LEMMA BackfillSteps == BackfillInv /\ [BackfillNext]_backfillVars => BackfillInv'
<1> SUFFICES ASSUME BackfillInv, [BackfillNext]_backfillVars PROVE BackfillInv' OBVIOUS
<1>1. ASSUME NEW m \in Models, ChangeModel(m) PROVE BackfillInv'
  BY <1>1 DEF ChangeModel, stores, vectorRows, BackfillInv, BackfillTyped, StampIsTheInput
<1>2. CASE UNCHANGED backfillVars
  BY <1>2 DEF backfillVars, stores, vectorRows, BackfillInv, BackfillTyped, StampIsTheInput
<1> QED BY <1>1, <1>2, KeepPublication, KeepBackfill, KeepStore DEF BackfillNext, BackfillStep

\* The invariant of the backfills always holds.
THEOREM BackfillInductive == BackfillSpec => []BackfillInv
  BY BackfillStarts, BackfillSteps, PTL DEF BackfillSpec

\* The digest on record is that of the input the stored vector was made from
\* (StampIsTheInput), for every number of pages, texts and models.
THEOREM StampIsAlwaysTheInput == BackfillSpec => []StampIsTheInput
<1>1. BackfillInv => StampIsTheInput BY DEF BackfillInv
<1> QED BY <1>1, BackfillInductive, PTL

-----------------------------------------------------------------------------
(* QueryFlight.                                                            *)
(* A caller that has a flight in its hands is the only one, and its flight *)
(* is registered until it leaves; what is registered or pending is in the  *)
(* hands of somebody.                                                      *)

\* A sequence without one of its elements is a sequence of the same elements.
LEMMA WithoutIsSeq ==
    ASSUME NEW S, NEW s \in Seq(S), NEW e
    PROVE  RemoveFirst(s, e) \in Seq(S)
<1>1. CASE \E i \in 1..Len(s) : s[i] = e
  <2> DEFINE I == {i \in 1..Len(s) : s[i] = e}
  <2>1. I \in SUBSET Nat /\ I # {}
    BY <1>1
  <2>2. PICK m : m = Min(I)
    OBVIOUS
  <2>3. m \in I
    <3> HIDE DEF I
    <3> QED BY <2>1, <2>2, LeastExists DEF Min
  <2>4. m \in 1..Len(s)
    BY <2>3
  <2>5. RemoveFirst(s, e) = SubSeq(s, 1, m - 1) \o SubSeq(s, m + 1, Len(s))
    BY <1>1, <2>1, <2>2 DEF RemoveFirst, RemoveAt, SelectInSeq
  <2>6. SubSeq(s, 1, m - 1) \in Seq(S) /\ SubSeq(s, m + 1, Len(s)) \in Seq(S)
    BY <2>4
  <2> QED BY <2>5, <2>6
<1>2. CASE ~ \E i \in 1..Len(s) : s[i] = e
  BY <1>2 DEF RemoveFirst
<1> QED BY <1>1, <1>2

\* What the cache holds after a hit and after an answer.
LEMMA CacheIsSeq ==
    ASSUME NEW q \in Queries, cached \in Seq(Queries)
    PROVE  Append(RemoveFirst(cached, q), q) \in Seq(Queries) /\ Kept(q) \in Seq(Queries)
<1>1. PICK t : t = RemoveFirst(cached, q)
  OBVIOUS
<1>2. t \in Seq(Queries)
  BY <1>1, WithoutIsSeq
<1>3. Append(t, q) \in Seq(Queries) /\ Append(t, q) # <<>> /\ Tail(Append(t, q)) \in Seq(Queries)
  BY <1>2
<1>4. Kept(q) = IF Len(Append(t, q)) > CacheSize THEN Tail(Append(t, q)) ELSE Append(t, q)
  BY <1>1 DEF Kept
<1> QED BY <1>1, <1>3, <1>4

\* Who has a flight in its hands.
Holds(r) == r.at \in {"calling", "vector", "error", "leaving"}

Ats      == {"idle", "waiting", "calling", "vector", "error", "leaving", "answered"}
Callings(len) == [at : Ats, flight : 0..len, answer : Answers]

FlightsTyped ==
    /\ cached \in Seq(Queries) /\ cancels \in 0..MaxCancels
    /\ flights \in Seq([query : Queries, outcome : Outcomes])
    /\ registry \in [Queries -> 0..Len(flights)]
    /\ caller \in [Callers -> Callings(Len(flights))]

\* An owner's flight is its own, registered until it leaves and resolved then.
Owning ==
    /\ \A c \in Callers : Holds(caller[c]) \/ caller[c].at = "waiting"
            => caller[c].flight \in 1..Len(flights)
    /\ \A c, d \in Callers : Holds(caller[c]) /\ Holds(caller[d])
                             /\ caller[c].flight = caller[d].flight => c = d
    /\ \A c \in Callers : Holds(caller[c]) =>
            registry[flights[caller[c].flight].query] = caller[c].flight
    /\ \A c \in Callers : caller[c].at = "leaving" => flights[caller[c].flight].outcome # "pending"

\* What is registered, and what is pending, has an owner.
Registered ==
    \A q \in Queries : registry[q] # 0 =>
        /\ flights[registry[q]].query = q
        /\ \E c \in Callers : Holds(caller[c]) /\ caller[c].flight = registry[q]
PendingOwned ==
    \A n \in 1..Len(flights) : flights[n].outcome = "pending" =>
        \E c \in Callers : Holds(caller[c]) /\ caller[c].flight = n

Bounded == IsFiniteSet(InFlight) /\ Cardinality(InFlight) <= Capacity

FlightInv == FlightsTyped /\ Owning /\ Registered /\ PendingOwned /\ Bounded

\* What the elements of the flights are, and the numbers in the records.
LEMMA FlightsAre ==
    ASSUME FlightsTyped
    PROVE  /\ Len(flights) \in Nat
           /\ \A n \in 1..Len(flights) : /\ flights[n] \in [query : Queries, outcome : Outcomes]
                                        /\ flights[n].query \in Queries
           /\ \A c \in Callers : caller[c] \in Callings(Len(flights))
                /\ caller[c].flight \in 0..Len(flights)
<1>1. flights \in Seq([query : Queries, outcome : Outcomes]) /\ Len(flights) \in Nat
  BY DEF FlightsTyped
<1>2. \A n \in 1..Len(flights) : flights[n] \in [query : Queries, outcome : Outcomes]
  BY <1>1, ElementOfSeq
<1>3. \A c \in Callers : caller[c] \in Callings(Len(flights))
  BY DEF FlightsTyped
<1> QED BY <1>1, <1>2, <1>3 DEF Callings

\* One caller goes on that has no flight in its hands before and after.
LEMMA Rests ==
    ASSUME FlightInv, NEW c \in Callers, NEW r \in Callings(Len(flights)),
           caller' = [caller EXCEPT ![c] = r], ~Holds(caller[c]), ~Holds(r),
           r.at = "waiting" => r.flight \in 1..Len(flights),
           UNCHANGED <<registry, flights, cancels>>, cached' \in Seq(Queries)
    PROVE  FlightInv'
<1>0. /\ FlightsTyped /\ Owning /\ Registered /\ PendingOwned /\ Bounded
  BY DEF FlightInv
<1>1. caller'[c] = r /\ \A d \in Callers : d # c => caller'[d] = caller[d]
  BY <1>0 DEF FlightsTyped
<1>2. FlightsTyped'
  BY <1>0 DEF FlightsTyped
<1>3. Owning'
  BY <1>0, <1>1 DEF Owning, Holds
<1>4. Registered'
  BY <1>0, <1>1 DEF Registered, Holds
<1>5. PendingOwned'
  BY <1>0, <1>1 DEF PendingOwned, Holds
<1>6. Bounded'
  BY <1>0 DEF Bounded, InFlight
<1> QED BY <1>2, <1>3, <1>4, <1>5, <1>6 DEF FlightInv

\* An owner goes on with its flight, which may be resolved by that.
LEMMA HolderKeeps ==
    ASSUME FlightInv, NEW c \in Callers, NEW r \in Callings(Len(flights)),
           caller' = [caller EXCEPT ![c] = r], Holds(caller[c]), Holds(r),
           r.flight = caller[c].flight, NEW o \in Outcomes,
           flights' = [flights EXCEPT ![r.flight].outcome = o],
           r.at = "leaving" => o # "pending",
           UNCHANGED registry, cancels' \in 0..MaxCancels, cached' \in Seq(Queries)
    PROVE  FlightInv'
<1>0. /\ FlightsTyped /\ Owning /\ Registered /\ PendingOwned /\ Bounded
  BY DEF FlightInv
<1>1. caller'[c] = r /\ \A d \in Callers : d # c => caller'[d] = caller[d]
  BY <1>0 DEF FlightsTyped
<1>f. r.flight \in 1..Len(flights)
  BY <1>0 DEF Owning
<1>l. /\ flights' \in Seq([query : Queries, outcome : Outcomes]) /\ Len(flights') = Len(flights)
      /\ \A n \in 1..Len(flights) : flights'[n].query = flights[n].query
      /\ \A n \in 1..Len(flights) : n # r.flight => flights'[n] = flights[n]
      /\ flights'[r.flight].outcome = o
  <2>1. flights[r.flight] \in [query : Queries, outcome : Outcomes]
    BY <1>0, <1>f, FlightsAre
  <2>2. [flights[r.flight] EXCEPT !.outcome = o] \in [query : Queries, outcome : Outcomes]
    BY <2>1
  <2>3. flights' = [flights EXCEPT ![r.flight] = [flights[r.flight] EXCEPT !.outcome = o]]
    OBVIOUS
  <2>4. flights \in Seq([query : Queries, outcome : Outcomes])
    BY <1>0 DEF FlightsTyped
  <2> QED BY <1>f, <2>1, <2>2, <2>3, <2>4
<1>2. FlightsTyped'
  BY <1>0, <1>l DEF FlightsTyped
<1>3. Owning'
  <2>1. \A d \in Callers : Holds(caller'[d]) <=> Holds(caller[d])
    BY <1>1
  <2>2. \A d \in Callers : Holds(caller'[d]) => caller'[d].flight = caller[d].flight
    BY <1>1
  <2>3. \A d \in Callers : Holds(caller'[d]) \/ caller'[d].at = "waiting"
            => caller'[d].flight \in 1..Len(flights')
    BY <1>0, <1>1, <1>f, <1>l DEF Owning
  <2>4. \A d \in Callers : Holds(caller'[d]) =>
            registry'[flights'[caller'[d].flight].query] = caller'[d].flight
    BY <1>0, <2>1, <2>2, <1>l DEF Owning
  <2>5. \A d \in Callers : caller'[d].at = "leaving"
          => flights'[caller'[d].flight].outcome # "pending"
    <3> SUFFICES ASSUME NEW d \in Callers, caller'[d].at = "leaving"
                 PROVE  flights'[caller'[d].flight].outcome # "pending"
      OBVIOUS
    <3>1. CASE d = c
      BY <3>1, <1>1, <1>l
    <3>2. CASE d # c
      <4>1. Holds(caller[d]) /\ caller[d].at = "leaving" /\ caller'[d] = caller[d]
        BY <3>2, <1>1 DEF Holds
      <4>2. caller[d].flight # r.flight /\ caller[d].flight \in 1..Len(flights)
        BY <3>2, <4>1, <1>0 DEF Owning
      <4> QED BY <4>1, <4>2, <1>l, <1>0 DEF Owning
    <3> QED BY <3>1, <3>2
  <2>6. \A d, e \in Callers : Holds(caller'[d]) /\ Holds(caller'[e])
                             /\ caller'[d].flight = caller'[e].flight => d = e
    BY <1>0, <2>1, <2>2 DEF Owning
  <2> QED BY <2>3, <2>4, <2>5, <2>6 DEF Owning
<1>h. \A d \in Callers : Holds(caller[d]) => Holds(caller'[d]) /\ caller'[d].flight = caller[d].flight
  BY <1>1
<1>4. Registered'
  <2> SUFFICES ASSUME NEW q \in Queries, registry'[q] # 0
               PROVE  /\ flights'[registry'[q]].query = q
                      /\ \E d \in Callers : Holds(caller'[d]) /\ caller'[d].flight = registry'[q]
    BY DEF Registered
  <2>1. registry[q] \in 1..Len(flights)
    BY <1>0 DEF FlightsTyped
  <2>2. flights[registry[q]].query = q
    BY <1>0 DEF Registered
  <2>3. PICK d \in Callers : Holds(caller[d]) /\ caller[d].flight = registry[q]
    BY <1>0 DEF Registered
  <2> QED BY <2>1, <2>2, <2>3, <1>h, <1>l
<1>5. PendingOwned'
  <2> SUFFICES ASSUME NEW n \in 1..Len(flights), flights'[n].outcome = "pending"
               PROVE  \E d \in Callers : Holds(caller'[d]) /\ caller'[d].flight = n
    BY <1>l DEF PendingOwned
  <2>1. CASE n = r.flight
    BY <2>1, <1>1
  <2>2. CASE n # r.flight
    <3>1. flights[n].outcome = "pending"
      BY <2>2, <1>l
    <3> QED BY <3>1, <1>h, <1>0 DEF PendingOwned
  <2> QED BY <2>1, <2>2
<1>6. Bounded'
  BY <1>0 DEF Bounded, InFlight
<1> QED BY <1>2, <1>3, <1>4, <1>5, <1>6 DEF FlightInv

\* A caller finds no flight of the query and starts one.
LEMMA RegisterKeeps ==
    ASSUME FlightInv, NEW c \in Callers, NEW q \in Queries, Register(c, q)
    PROVE  FlightInv'
<1>0. /\ FlightsTyped /\ Owning /\ Registered /\ PendingOwned /\ Bounded
  BY DEF FlightInv
<1> PICK r : r = [caller[c] EXCEPT !.at = "calling", !.flight = Len(flights) + 1]
  OBVIOUS
<1> PICK n : n = Len(flights) + 1
  OBVIOUS
<1>n. n \in Nat /\ n # 0 /\ Len(flights) \in Nat /\ ~ n \in 1..Len(flights) /\ n = Len(flights) + 1
  BY <1>0 DEF FlightsTyped
<1>l. /\ flights' \in Seq([query : Queries, outcome : Outcomes]) /\ Len(flights') = n
      /\ \A m \in 1..Len(flights) : flights'[m] = flights[m]
      /\ flights'[n] = [query |-> q, outcome |-> "pending"]
  BY <1>0, <1>n DEF FlightsTyped, Register, Outcomes
<1>r. /\ registry' = [registry EXCEPT ![q] = n] /\ registry[q] = 0 /\ caller[c].at = "idle"
      /\ Cardinality(InFlight) < Capacity /\ cached' = cached /\ cancels' = cancels
  BY <1>l DEF Register
<1>t. r \in Callings(n) /\ r.at = "calling" /\ r.flight = n /\ Holds(r)
  <2>1. caller[c] \in Callings(Len(flights))
    BY <1>0 DEF FlightsTyped
  <2>2. /\ r.at = "calling" /\ r.flight = n /\ r.answer = caller[c].answer
        /\ DOMAIN r = {"at", "flight", "answer"}
    BY <2>1, <1>n DEF Callings
  <2>3. n \in 0..n /\ caller[c].answer \in Answers /\ "calling" \in Ats
    BY <2>1, <1>n DEF Callings, Ats
  <2>4. r = [at |-> "calling", flight |-> n, answer |-> caller[c].answer]
    BY <2>1, <1>n DEF Callings
  <2>5. r \in Callings(n)
    BY <2>3, <2>4 DEF Callings
  <2> QED BY <2>2, <2>5 DEF Holds
<1>1. caller' = [caller EXCEPT ![c] = r]
  BY <1>l, <1>n DEF Register, Turns
<1>c. caller'[c] = r /\ \A d \in Callers : d # c => caller'[d] = caller[d]
  BY <1>0, <1>1 DEF FlightsTyped
<1>i. ~Holds(caller[c])
  BY <1>r DEF Holds
<1>q. /\ registry'[q] = n /\ \A p \in Queries : p # q => registry'[p] = registry[p]
  BY <1>0, <1>r DEF FlightsTyped
<1>2. FlightsTyped'
  <2>1. registry' \in [Queries -> 0..n]
    BY <1>0, <1>r, <1>n DEF FlightsTyped
  <2>2. \A d \in Callers : caller[d] \in Callings(n)
    BY <1>0, <1>n DEF FlightsTyped, Callings
  <2>3. caller' \in [Callers -> Callings(n)]
    BY <2>2, <1>0, <1>1, <1>t DEF FlightsTyped
  <2> QED BY <2>1, <2>3, <1>0, <1>l, <1>r DEF FlightsTyped
<1>3. Owning'
  <2>0. \A d \in Callers : d # c /\ (Holds(caller'[d]) \/ caller'[d].at = "waiting")
            => caller'[d] = caller[d] /\ caller[d].flight \in 1..Len(flights) /\ caller[d].flight # n
    BY <1>0, <1>c, <1>n DEF Owning
  <2>1. \A d \in Callers : Holds(caller'[d]) \/ caller'[d].at = "waiting"
            => caller'[d].flight \in 1..Len(flights')
    <3>1. 1..Len(flights) \subseteq 1..n /\ n \in 1..n
      BY <1>n
    <3> QED BY <2>0, <3>1, <1>c, <1>t, <1>l
  <2>2. \A d, e \in Callers : Holds(caller'[d]) /\ Holds(caller'[e])
                             /\ caller'[d].flight = caller'[e].flight => d = e
    <3>1. \A d, e \in Callers : d # c /\ e # c /\ Holds(caller'[d]) /\ Holds(caller'[e])
                             /\ caller'[d].flight = caller'[e].flight => d = e
      BY <2>0, <1>0, <1>c DEF Owning
    <3> QED BY <2>0, <3>1, <1>c, <1>t
  <2>3. \A d \in Callers : Holds(caller'[d]) =>
            registry'[flights'[caller'[d].flight].query] = caller'[d].flight
    <3> SUFFICES ASSUME NEW d \in Callers, Holds(caller'[d])
                 PROVE  registry'[flights'[caller'[d].flight].query] = caller'[d].flight
      OBVIOUS
    <3>1. CASE d = c
      BY <3>1, <1>c, <1>t, <1>l, <1>q
    <3>2. CASE d # c
      <4>1. Holds(caller[d]) /\ caller'[d] = caller[d] /\ caller[d].flight \in 1..Len(flights)
        BY <3>2, <1>c, <1>0 DEF Owning
      <4>2. registry[flights[caller[d].flight].query] = caller[d].flight
        BY <4>1, <1>0 DEF Owning
      <4>3. flights[caller[d].flight].query \in Queries
        BY <4>1, <1>0, FlightsAre
      <4>4. flights[caller[d].flight].query # q
        BY <4>1, <4>2, <1>r, <1>n
      <4> QED BY <4>1, <4>2, <4>3, <4>4, <1>l, <1>q
    <3> QED BY <3>1, <3>2
  <2>4. \A d \in Callers : caller'[d].at = "leaving"
          => flights'[caller'[d].flight].outcome # "pending"
    <3>1. \A d \in Callers : caller'[d].at = "leaving"
              => /\ caller'[d] = caller[d] /\ flights[caller[d].flight].outcome # "pending"
                 /\ caller[d].flight \in 1..Len(flights)
      BY <2>0, <1>0, <1>c, <1>t DEF Owning, Holds
    <3> QED BY <3>1, <1>l
  <2> QED BY <2>1, <2>2, <2>3, <2>4 DEF Owning
<1>h. \A d \in Callers : Holds(caller[d]) => Holds(caller'[d]) /\ caller'[d].flight = caller[d].flight
  BY <1>c, <1>i
<1>4. Registered'
  <2> SUFFICES ASSUME NEW p \in Queries, registry'[p] # 0
               PROVE  /\ flights'[registry'[p]].query = p
                      /\ \E d \in Callers : Holds(caller'[d]) /\ caller'[d].flight = registry'[p]
    BY DEF Registered
  <2>1. CASE p = q
    <3>1. /\ registry'[q] = n /\ flights'[n].query = q
          /\ Holds(caller'[c]) /\ caller'[c].flight = n
      BY <1>q, <1>l, <1>c, <1>t
    <3> QED BY <2>1, <3>1
  <2>2. CASE p # q
    <3>1. registry'[p] = registry[p] /\ registry[p] \in 1..Len(flights)
      BY <2>2, <1>q, <1>0 DEF FlightsTyped
    <3>2. flights[registry[p]].query = p
      BY <3>1, <1>0 DEF Registered
    <3>3. PICK d \in Callers : Holds(caller[d]) /\ caller[d].flight = registry[p]
      BY <3>1, <1>0 DEF Registered
    <3> QED BY <3>1, <3>2, <3>3, <1>h, <1>l
  <2> QED BY <2>1, <2>2
<1>5. PendingOwned'
  <2> SUFFICES ASSUME NEW m \in 1..n, flights'[m].outcome = "pending"
               PROVE  \E d \in Callers : Holds(caller'[d]) /\ caller'[d].flight = m
    BY <1>l DEF PendingOwned
  <2>1. CASE m = n
    BY <2>1, <1>c, <1>t
  <2>2. CASE m # n
    <3>1. m \in 1..Len(flights) /\ flights[m].outcome = "pending"
      BY <2>2, <1>l, <1>n
    <3> QED BY <3>1, <1>h, <1>0 DEF PendingOwned
  <2> QED BY <2>1, <2>2
<1>6. Bounded'
  <2>1. InFlight' = InFlight \cup {q}
    BY <1>q, <1>n DEF InFlight
  <2>2. q \notin InFlight
    BY <1>r DEF InFlight
  <2>3. IsFiniteSet(InFlight) /\ Cardinality(InFlight) \in Nat
    BY <1>0, FS_CardinalityType DEF Bounded
  <2> PICK S : S = InFlight
    OBVIOUS
  <2>4. IsFiniteSet(S \cup {q}) /\ Cardinality(S \cup {q}) = Cardinality(S) + 1
    BY <2>2, <2>3, FS_AddElement
  <2>5. Cardinality(S) + 1 <= Capacity
    BY <2>3, <1>r, FlightAssumption
  <2> QED BY <2>1, <2>4, <2>5 DEF Bounded
<1> QED BY <1>2, <1>3, <1>4, <1>5, <1>6 DEF FlightInv

\* An owner removes its flight.
LEMMA LeaveKeeps ==
    ASSUME FlightInv, NEW c \in Callers, Leave(c)
    PROVE  FlightInv'
<1>0. /\ FlightsTyped /\ Owning /\ Registered /\ PendingOwned /\ Bounded
  BY DEF FlightInv
<1> PICK f : f = caller[c].flight
  OBVIOUS
<1> PICK r : r = [caller[c] EXCEPT !.at = "answered"]
  OBVIOUS
<1>a. /\ caller[c].at = "leaving" /\ Holds(caller[c]) /\ UNCHANGED <<cached, flights, cancels>>
      /\ registry' = [q \in Queries |-> IF registry[q] = f THEN 0 ELSE registry[q]]
  BY DEF Leave, Holds
<1>f. f \in 1..Len(flights) /\ flights[f].outcome # "pending"
  BY <1>a, <1>0 DEF Owning
<1>t. r \in Callings(Len(flights)) /\ r.at = "answered" /\ r.flight = f /\ ~Holds(r)
  <2>1. caller[c] \in Callings(Len(flights))
    BY <1>0 DEF FlightsTyped
  <2> QED BY <2>1 DEF Callings, Ats, Holds
<1>1. caller' = [caller EXCEPT ![c] = r]
  <2>1. caller[c] \in Callings(Len(flights))
    BY <1>0 DEF FlightsTyped
  <2>2. [caller[c] EXCEPT !.at = "answered", !.flight = caller[c].flight] = r
    BY <2>1 DEF Callings
  <2>3. caller' = [caller EXCEPT ![c] = [caller[c] EXCEPT !.at = "answered",
          !.flight = caller[c].flight]]
    BY DEF Leave, Turns
  <2> QED BY <2>2, <2>3
<1>c. caller'[c] = r /\ \A d \in Callers : d # c => caller'[d] = caller[d]
  BY <1>0, <1>1 DEF FlightsTyped
<1>d. \A d \in Callers : Holds(caller'[d]) => d # c /\ Holds(caller[d]) /\ caller'[d] = caller[d]
                                              /\ caller[d].flight # f
  BY <1>a, <1>c, <1>t, <1>0 DEF Owning
<1>2. FlightsTyped'
  <2>1. registry' \in [Queries -> 0..Len(flights)]
    BY <1>0, <1>a DEF FlightsTyped
  <2> QED BY <2>1, <1>0, <1>1, <1>t, <1>a DEF FlightsTyped
<1>3. Owning'
  <2>1. \A d \in Callers : Holds(caller'[d]) \/ caller'[d].at = "waiting"
            => caller'[d].flight \in 1..Len(flights')
    BY <1>0, <1>a, <1>c, <1>t DEF Owning
  <2>2. \A d, e \in Callers : Holds(caller'[d]) /\ Holds(caller'[e])
                             /\ caller'[d].flight = caller'[e].flight => d = e
    BY <1>0, <1>d DEF Owning
  <2>3. \A d \in Callers : Holds(caller'[d]) =>
            registry'[flights'[caller'[d].flight].query] = caller'[d].flight
    <3> SUFFICES ASSUME NEW d \in Callers, Holds(caller'[d])
                 PROVE  registry'[flights'[caller'[d].flight].query] = caller'[d].flight
      OBVIOUS
    <3>1. /\ Holds(caller[d]) /\ caller'[d] = caller[d] /\ caller[d].flight \in 1..Len(flights)
          /\ caller[d].flight # f
      BY <1>d, <1>0 DEF Owning
    <3>2. registry[flights[caller[d].flight].query] = caller[d].flight
      BY <3>1, <1>0 DEF Owning
    <3>3. flights[caller[d].flight].query \in Queries
      BY <3>1, <1>0, FlightsAre
    <3> QED BY <3>1, <3>2, <3>3, <1>a
  <2>4. \A d \in Callers : caller'[d].at = "leaving"
          => flights'[caller'[d].flight].outcome # "pending"
    BY <1>0, <1>a, <1>c, <1>t DEF Owning
  <2> QED BY <2>1, <2>2, <2>3, <2>4 DEF Owning
<1>h. \A d \in Callers : Holds(caller[d]) /\ caller[d].flight # f
                            => Holds(caller'[d]) /\ caller'[d].flight = caller[d].flight
  BY <1>c
<1>4. Registered'
  <2> SUFFICES ASSUME NEW p \in Queries, registry'[p] # 0
               PROVE  /\ flights'[registry'[p]].query = p
                      /\ \E d \in Callers : Holds(caller'[d]) /\ caller'[d].flight = registry'[p]
    BY DEF Registered
  <2>1. registry'[p] = registry[p] /\ registry[p] # f
    BY <1>a
  <2>2. flights[registry[p]].query = p
    BY <2>1, <1>0 DEF Registered
  <2>3. PICK d \in Callers : Holds(caller[d]) /\ caller[d].flight = registry[p]
    BY <2>1, <1>0 DEF Registered
  <2> QED BY <2>1, <2>2, <2>3, <1>h, <1>a
<1>5. PendingOwned'
  <2> SUFFICES ASSUME NEW n \in 1..Len(flights), flights[n].outcome = "pending"
               PROVE  \E d \in Callers : Holds(caller'[d]) /\ caller'[d].flight = n
    BY <1>a DEF PendingOwned
  <2> QED BY <1>f, <1>h, <1>0 DEF PendingOwned
<1>6. Bounded'
  <2>1. InFlight' \in SUBSET InFlight
    BY <1>a, <1>f DEF InFlight
  <2> PICK S : S = InFlight
    OBVIOUS
  <2> PICK T : T = InFlight'
    OBVIOUS
  <2>2. IsFiniteSet(S) /\ Cardinality(S) <= Capacity /\ T \in SUBSET S
    BY <2>1, <1>0 DEF Bounded
  <2>3. IsFiniteSet(T) /\ Cardinality(T) <= Cardinality(S)
    BY <2>2, FS_Subset
  <2>4. Cardinality(T) \in Nat /\ Cardinality(S) \in Nat
    BY <2>2, <2>3, FS_CardinalityType
  <2>5. Cardinality(T) <= Capacity
    BY <2>2, <2>3, <2>4, FlightAssumption
  <2> QED BY <2>3, <2>5 DEF Bounded
<1> QED BY <1>2, <1>3, <1>4, <1>5, <1>6 DEF FlightInv

\* The steps of one caller.
LEMMA CallerKeeps ==
    ASSUME FlightInv, NEW c \in Callers,
           \/ \E q \in Queries : Hit(c, q) \/ Follow(c, q) \/ Refuse(c, q)
           \/ Take(c) \/ StopWaiting(c) \/ Goes(c)
    PROVE  FlightInv'
<1>0. FlightsTyped /\ Owning
  BY DEF FlightInv
<1>r. /\ Len(flights) \in Nat
      /\ caller[c] \in Callings(Len(flights)) /\ caller[c].flight \in 0..Len(flights)
      /\ caller[c].answer \in Answers /\ caller[c].at \in Ats
      /\ DOMAIN caller[c] = {"at", "flight", "answer"}
  BY <1>0, FlightsAre DEF Callings
<1>g. ASSUME NEW answer \in Answers, Gives(c, answer), caller[c].at \in {"idle", "waiting"},
             UNCHANGED <<registry, flights, cancels>>, cached' \in Seq(Queries)
      PROVE  FlightInv'
  <2> PICK r : r = [caller[c] EXCEPT !.at = "answered", !.answer = answer]
    OBVIOUS
  <2>1. caller' = [caller EXCEPT ![c] = r]
    <3>1. caller' = [caller EXCEPT ![c] = [caller[c] EXCEPT !.at = "answered", !.answer = answer]]
      BY <1>g DEF Gives
    <3> QED BY <3>1
  <2>2. r = [at |-> "answered", flight |-> caller[c].flight, answer |-> answer]
    BY <1>r DEF Callings
  <2>3. r \in Callings(Len(flights))
    BY <1>r, <2>2 DEF Callings, Ats
  <2>4. r.at = "answered"
    BY <2>2
  <2>5. ~Holds(caller[c]) /\ ~Holds(r)
    BY <2>4, <1>g DEF Holds
  <2> QED BY <1>g, <2>1, <2>3, <2>4, <2>5, Rests
<1>1. ASSUME NEW q \in Queries, Hit(c, q) PROVE FlightInv'
  <2>1. Append(RemoveFirst(cached, q), q) \in Seq(Queries)
    BY <1>0, CacheIsSeq DEF FlightsTyped
  <2>2. "vector" \in Answers /\ Gives(c, "vector") /\ caller[c].at \in {"idle", "waiting"}
        /\ cached' = Append(RemoveFirst(cached, q), q) /\ UNCHANGED <<registry, flights, cancels>>
    BY <1>1 DEF Hit, Answers
  <2> QED BY <2>1, <2>2, <1>g
<1>2. ASSUME NEW q \in Queries, Follow(c, q) PROVE FlightInv'
  <2> PICK r : r = [caller[c] EXCEPT !.at = "waiting", !.flight = registry[q]]
    OBVIOUS
  <2>1. caller' = [caller EXCEPT ![c] = r]
    <3>1. caller' = [caller EXCEPT ![c] = [caller[c] EXCEPT !.at = "waiting", !.flight = registry[q]]]
      BY <1>2 DEF Follow, Turns
    <3> QED BY <3>1
  <2>2. r = [at |-> "waiting", flight |-> registry[q], answer |-> caller[c].answer]
    BY <1>r DEF Callings
  <2>3. registry[q] \in 1..Len(flights) /\ registry[q] \in 0..Len(flights)
    BY <1>2, <1>0, <1>r DEF FlightsTyped, Follow
  <2>4. r \in Callings(Len(flights))
    BY <1>r, <2>2, <2>3 DEF Callings, Ats
  <2>5. r.at = "waiting" /\ r.flight \in 1..Len(flights)
    BY <2>2, <2>3
  <2>6. ~Holds(caller[c]) /\ ~Holds(r)
    BY <2>5, <1>2 DEF Holds, Follow
  <2>7. UNCHANGED <<registry, flights, cancels>> /\ cached' \in Seq(Queries)
    BY <1>2, <1>0 DEF Follow, FlightsTyped
  <2> QED BY <2>1, <2>4, <2>5, <2>6, <2>7, Rests
<1>3. ASSUME NEW q \in Queries, Refuse(c, q) PROVE FlightInv'
  BY <1>3, <1>g, <1>0 DEF Refuse, Answers, FlightsTyped
<1>4. CASE Take(c)
  <2>1. flights[caller[c].flight].outcome \in Outcomes
    BY <1>4, <1>0, FlightsAre DEF Owning, Take
  <2>2. flights[caller[c].flight].outcome \in Answers
    BY <1>4, <2>1 DEF Outcomes, Answers, Take
  <2> QED BY <1>4, <2>2, <1>g, <1>0 DEF Take, FlightsTyped
<1>5. CASE StopWaiting(c)
  BY <1>5, <1>g, <1>0 DEF StopWaiting, Answers, FlightsTyped
<1>6. CASE Goes(c)
  <2>1. Resting \in Callings(Len(flights))
    BY <1>r DEF Resting, Callings, Ats, Answers
  <2>2. ~Holds(caller[c]) /\ ~Holds(Resting) /\ Resting.at # "waiting"
    BY <1>6 DEF Goes, Holds, Resting
  <2> QED BY <1>6, <1>0, <2>1, <2>2, Rests DEF Goes, FlightsTyped
<1> QED BY <1>1, <1>2, <1>3, <1>4, <1>5, <1>6

\* The steps of an owner while it has its flight in its hands.
LEMMA OwnerKeeps ==
    ASSUME FlightInv, NEW c \in Callers,
           Answered(c) \/ Failed(c) \/ Land(c) \/ Cancelled(c)
    PROVE  FlightInv'
<1>0. FlightsTyped /\ Owning
  BY DEF FlightInv
<1>r. /\ Len(flights) \in Nat
      /\ caller[c] \in Callings(Len(flights)) /\ caller[c].flight \in 0..Len(flights)
      /\ caller[c].answer \in Answers /\ caller[c].at \in Ats
      /\ DOMAIN caller[c] = {"at", "flight", "answer"}
  BY <1>0, FlightsAre DEF Callings
<1>h. Holds(caller[c])
  BY DEF Holds, Answered, Failed, Land, Cancelled
<1> PICK f : f = caller[c].flight
  OBVIOUS
<1>f. f \in 1..Len(flights) /\ f \in 0..Len(flights)
      /\ flights[f] \in [query : Queries, outcome : Outcomes] /\ flights[f].query \in Queries
  BY <1>h, <1>0, <1>r, FlightsAre DEF Owning
<1>1. CASE Answered(c) \/ Failed(c)
  <2>1. PICK at \in {"vector", "error"} : Turns(c, at, f)
    BY <1>1 DEF Answered, Failed
  <2>2. UNCHANGED <<registry, flights, cancels>>
    BY <1>1 DEF Answered, Failed
  <2>3. cached' \in Seq(Queries)
    <3>1. cached \in Seq(Queries) /\ Kept(flights[f].query) \in Seq(Queries)
      BY <1>f, <1>0, CacheIsSeq DEF FlightsTyped
    <3> QED BY <1>1, <3>1 DEF Answered, Failed, QueryOf
  <2> PICK r : r = [caller[c] EXCEPT !.at = at, !.flight = f]
    OBVIOUS
  <2>4. caller' = [caller EXCEPT ![c] = r]
    <3>1. caller' = [caller EXCEPT ![c] = [caller[c] EXCEPT !.at = at, !.flight = f]]
      BY <2>1 DEF Turns
    <3> QED BY <3>1
  <2>5. r = [at |-> at, flight |-> f, answer |-> caller[c].answer]
    BY <1>r DEF Callings
  <2>6. at \in Ats /\ at # "leaving"
    BY DEF Ats
  <2>7. r \in Callings(Len(flights)) /\ Holds(r) /\ r.flight = f /\ r.at # "leaving"
    BY <1>r, <1>f, <2>5, <2>6 DEF Callings, Holds
  <2> PICK o \in Outcomes : o = flights[f].outcome
    BY <1>f
  <2>8. flights' = [flights EXCEPT ![r.flight].outcome = o]
    <3>1. [flights[f] EXCEPT !.outcome = o] = flights[f]
      BY <1>f
    <3>2. flights \in Seq([query : Queries, outcome : Outcomes])
      BY <1>0 DEF FlightsTyped
    <3>3. [flights EXCEPT ![f] = flights[f]] = flights
      BY <3>2
    <3>4. [flights EXCEPT ![f].outcome = o] = [flights EXCEPT ![f] = [flights[f] EXCEPT !.outcome = o]]
      OBVIOUS
    <3> QED BY <3>1, <3>3, <3>4, <2>2, <2>7
  <2>9. cancels' \in 0..MaxCancels
    BY <2>2, <1>0 DEF FlightsTyped
  <2> QED BY <1>h, <2>2, <2>3, <2>4, <2>7, <2>8, <2>9, HolderKeeps
<1>2. CASE Land(c) \/ Cancelled(c)
  <2>1. PICK o \in {"vector", "error", "raised"} : Lands(c, o)
    BY <1>2 DEF Land, Cancelled
  <2>2. UNCHANGED <<registry, cached>> /\ o # "pending" /\ o \in Outcomes /\ o \in Answers
        /\ flights' = [flights EXCEPT ![f].outcome = o]
    BY <2>1 DEF Lands, Outcomes, Answers
  <2>3. cached' \in Seq(Queries)
    BY <2>2, <1>0 DEF FlightsTyped
  <2> PICK r : r = [caller[c] EXCEPT !.at = "leaving", !.answer = o]
    OBVIOUS
  <2>4. caller' = [caller EXCEPT ![c] = r]
    <3>1. caller' = [caller EXCEPT ![c] = [caller[c] EXCEPT !.at = "leaving", !.answer = o]]
      BY <2>1 DEF Lands
    <3> QED BY <3>1
  <2>5. r = [at |-> "leaving", flight |-> f, answer |-> o]
    BY <1>r DEF Callings
  <2>7. r \in Callings(Len(flights)) /\ Holds(r) /\ r.flight = f /\ r.at = "leaving"
    BY <1>r, <1>f, <2>2, <2>5 DEF Callings, Holds, Ats
  <2>9. cancels' \in 0..MaxCancels
    <3>1. cancels \in 0..MaxCancels
      BY <1>0 DEF FlightsTyped
    <3> QED BY <3>1, <1>2, FlightAssumption DEF Land, Cancelled
  <2> QED BY <1>h, <2>2, <2>3, <2>4, <2>7, <2>9, HolderKeeps
<1> QED BY <1>1, <1>2

\* The invariant holds at first and every step keeps it.
LEMMA FlightInductive == FlightSpec => []FlightInv
<1>1. FlightInit => FlightInv
  <2> SUFFICES ASSUME FlightInit
               PROVE  FlightInv
    OBVIOUS
  <2>1. FlightsTyped
    BY FlightAssumption DEF FlightInit, FlightsTyped, Callings, Ats, Answers, Resting
  <2>2. Owning /\ Registered /\ PendingOwned
    BY DEF FlightInit, Owning, Registered, PendingOwned, Holds, Resting
  <2>3. InFlight = {}
    BY DEF FlightInit, InFlight
  <2>4. Bounded
    BY <2>3, FS_EmptySet, FlightAssumption DEF Bounded
  <2> QED BY <2>1, <2>2, <2>4 DEF FlightInv
<1>2. FlightInv /\ [FlightNext]_flightVars => FlightInv'
  <2> SUFFICES ASSUME FlightInv, [FlightNext]_flightVars
               PROVE  FlightInv'
    OBVIOUS
  <2>1. ASSUME NEW c \in Callers, Asks(c)
        PROVE  FlightInv'
    BY <2>1, CallerKeeps, RegisterKeeps DEF Asks
  <2>2. ASSUME NEW c \in Callers, Ends(c) \/ Cancelled(c) \/ StopWaiting(c)
        PROVE  FlightInv'
    BY <2>2, CallerKeeps, OwnerKeeps, LeaveKeeps DEF Ends
  <2>3. CASE UNCHANGED flightVars
    BY <2>3 DEF flightVars, FlightInv, FlightsTyped, Owning, Registered, PendingOwned, Bounded,
      InFlight
  <2> QED BY <2>1, <2>2, <2>3 DEF FlightNext
<1> QED BY <1>1, <1>2, PTL DEF FlightSpec

\* The invariant is more than what the model promises.
LEMMA FlightImplies ==
    ASSUME FlightInv
    PROVE  FlightsAreSound
<1>0. /\ FlightsTyped /\ Owning /\ Registered /\ PendingOwned /\ Bounded
  BY DEF FlightInv
<1>l. /\ Len(flights) \in Nat /\ DOMAIN flights = 1..Len(flights)
      /\ \A n \in 1..Len(flights) : flights[n] \in [query : Queries, outcome : Outcomes]
      /\ \A c \in Callers : caller[c].flight \in 0..Len(flights)
  BY <1>0, FlightsAre DEF FlightsTyped
<1>1. FlightTypeOK
  BY <1>0, <1>l DEF FlightTypeOK, FlightsTyped, Callings, Ats
<1>o. \A n : Owners(n) = {c \in Callers : caller[c].flight = n /\ Holds(caller[c])}
  BY DEF Owners, Holds
<1>2. FlightsAreOwned
  <2>1. ASSUME NEW q \in InFlight
        PROVE  flights[registry[q]].query = q /\ Cardinality(Owners(registry[q])) = 1
    <3>1. q \in Queries /\ registry[q] # 0
      BY DEF InFlight
    <3>2. flights[registry[q]].query = q
      BY <3>1, <1>0 DEF Registered
    <3>3. PICK c \in Callers : Holds(caller[c]) /\ caller[c].flight = registry[q]
      BY <3>1, <1>0 DEF Registered
    <3>4. Owners(registry[q]) = {c}
      BY <3>3, <1>o, <1>0 DEF Owning
    <3> QED BY <3>2, <3>4, FS_Singleton
  <2>2. ASSUME NEW c \in Callers, caller[c].at = "waiting",
               flights[caller[c].flight].outcome = "pending"
        PROVE  Owners(caller[c].flight) # {}
    <3>1. caller[c].flight \in 1..Len(flights)
      BY <2>2, <1>0 DEF Owning
    <3>2. PICK d \in Callers : Holds(caller[d]) /\ caller[d].flight = caller[c].flight
      BY <2>2, <3>1, <1>0 DEF PendingOwned
    <3> QED BY <3>2, <1>o
  <2> QED BY <2>1, <2>2 DEF FlightsAreOwned
<1>3. OneCallPerQuery
  <2> PICK calling : calling = {c \in Callers : caller[c].at = "calling"}
    OBVIOUS
  <2>1. \A c \in calling : /\ c \in Callers /\ Holds(caller[c])
          /\ caller[c].flight \in 1..Len(flights)
                           /\ registry[QueryOf(c)] = caller[c].flight
    BY <1>0 DEF Owning, Holds, QueryOf
  <2>2. \A c \in calling : QueryOf(c) \in InFlight
    <3> SUFFICES ASSUME NEW c \in calling
                 PROVE  QueryOf(c) \in InFlight
      OBVIOUS
    <3>1. QueryOf(c) \in Queries
      BY <2>1, <1>l DEF QueryOf
    <3>2. registry[QueryOf(c)] # 0
      BY <2>1, <1>l
    <3> QED BY <3>1, <3>2 DEF InFlight
  <2>3. \A c, d \in calling : QueryOf(c) = QueryOf(d) => c = d
    BY <2>1, <1>0 DEF Owning
  <2> PICK f : f = [c \in calling |-> QueryOf(c)]
    OBVIOUS
  <2> PICK S : S = InFlight
    OBVIOUS
  <2>4. f \in Injection(calling, S)
    <3>1. f \in [calling -> S]
      BY <2>2
    <3>2. \A c, d \in calling : f[c] = f[d] => c = d
      BY <2>3
    <3> QED BY <3>1, <3>2 DEF Injection, IsInjective
  <2>5. IsFiniteSet(S) /\ Cardinality(S) <= Capacity
    BY <1>0 DEF Bounded
  <2>6. IsFiniteSet(calling) /\ Cardinality(calling) <= Cardinality(S)
    BY <2>4, <2>5, FS_Injection
  <2>7. Cardinality(S) \in Nat /\ Cardinality(calling) \in Nat
    BY <2>5, <2>6, FS_CardinalityType
  <2>8. Cardinality(calling) <= Capacity
    BY <2>5, <2>6, <2>7, FlightAssumption
  <2> QED BY <2>3, <2>8 DEF OneCallPerQuery
<1> QED BY <1>1, <1>2, <1>3 DEF FlightsAreSound

\* _get_query_embedding: in every state what is registered is the flight of
\* its query with exactly one owner, a follower of a pending flight has an
\* owner to wait for, and the calls of the provider are one per query and
\* within the capacity, whatever the callers, queries and bounds are.
THEOREM FlightsAreAlwaysSound == FlightSpec => []FlightsAreSound
<1>1. FlightInv => FlightsAreSound
  BY FlightImplies
<1> QED BY <1>1, FlightInductive, PTL

-----------------------------------------------------------------------------
(* Together.                                                               *)
(* What the parts of embedding have in common.                             *)

\* The windows, the digests and the flights: TablesAreTrue, for all processes,
\* sizes, pages, models, callers and queries.
THEOREM TablesAreAlwaysTrue ==
    QuotaSpec /\ BackfillSpec /\ FlightSpec => []TablesAreTrue
  BY WindowAlwaysHolds, StampIsAlwaysTheInput, FlightsAreAlwaysSound, PTL DEF TablesAreTrue
=============================================================================
