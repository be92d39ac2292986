---------------------------- MODULE QueryFlight ----------------------------
(***************************************************************************)
(* _get_query_embedding of tool_search: requests that need the vector of   *)
(* the same query share one call of the provider.  The first registers a   *)
(* flight under a lock and calls; the others wait for its outcome, each    *)
(* until its own deadline.  A vector is kept in a small cache.             *)
(***************************************************************************)
EXTENDS FiniteSets, SequencesExt

CONSTANTS
    Callers,     \* threads that serve requests
    Queries,
    Capacity,    \* QUERY_EMBEDDING_MAX_IN_FLIGHT
    CacheSize,   \* QUERY_EMBEDDING_CACHE_SIZE
    MaxFlights,  \* bound: calls of the provider
    MaxCancels   \* bound: requests cancelled by their host

\* The capacity and the bound are numbers.
ASSUME FlightAssumption == Capacity \in Nat /\ MaxCancels \in Nat

VARIABLES
    cached,    \* queries with a vector, the least recently used first
    registry,  \* query -> its flight, or 0
    flights,   \* all flights so far: query and outcome
    caller,    \* caller -> what it is doing, with which flight, its answer
    cancels

flightVars == <<cached, registry, flights, caller, cancels>>

Outcomes == {"pending", "vector", "error", "raised"}
Answers  == {"none", "vector", "error", "raised", "full", "timeout"}
Resting  == [at |-> "idle", flight |-> 0, answer |-> "none"]

FlightInit ==
    /\ cached = <<>> /\ flights = <<>> /\ cancels = 0
    /\ registry = [q \in Queries |-> 0]
    /\ caller = [c \in Callers |-> Resting]

InFlight == {q \in Queries : registry[q] # 0}
Turns(c, at, flight) == caller' = [caller EXCEPT ![c].at = at, ![c].flight = flight]
Gives(c, answer)  == caller' = [caller EXCEPT ![c].at = "answered", ![c].answer = answer]

-----------------------------------------------------------------------------
\* Under the lock: a cached vector, somebody's flight, or a flight of its own.
Hit(c, q) ==
    /\ caller[c].at = "idle" /\ Contains(cached, q)
    /\ cached' = Append(RemoveFirst(cached, q), q)
    /\ Gives(c, "vector")
    /\ UNCHANGED <<registry, flights, cancels>>

Follow(c, q) ==
    /\ caller[c].at = "idle" /\ ~Contains(cached, q) /\ registry[q] # 0
    /\ Turns(c, "waiting", registry[q])
    /\ UNCHANGED <<cached, registry, flights, cancels>>

Refuse(c, q) ==
    /\ caller[c].at = "idle" /\ ~Contains(cached, q) /\ registry[q] = 0
    /\ Cardinality(InFlight) >= Capacity
    /\ Gives(c, "full")
    /\ UNCHANGED <<cached, registry, flights, cancels>>

Register(c, q) ==
    /\ caller[c].at = "idle" /\ ~Contains(cached, q) /\ registry[q] = 0
    /\ Cardinality(InFlight) < Capacity /\ Len(flights) < MaxFlights
    /\ flights' = Append(flights, [query |-> q, outcome |-> "pending"])
    /\ registry' = [registry EXCEPT ![q] = Len(flights')]
    /\ Turns(c, "calling", Len(flights'))
    /\ UNCHANGED <<cached, cancels>>

\* The provider answers within the deadline, or it or its answer fails.
QueryOf(c) == flights[caller[c].flight].query

Kept(q) == LET s == Append(RemoveFirst(cached, q), q)
           IN  IF Len(s) > CacheSize THEN Tail(s) ELSE s

Answered(c) ==
    /\ caller[c].at = "calling"
    /\ cached' = Kept(QueryOf(c))
    /\ Turns(c, "vector", caller[c].flight)
    /\ UNCHANGED <<registry, flights, cancels>>

Failed(c) ==
    /\ caller[c].at = "calling"
    /\ Turns(c, "error", caller[c].flight)
    /\ UNCHANGED <<cached, registry, flights, cancels>>

\* The outcome is given to the followers; a cancelled owner gives them its
\* exception.
Lands(c, outcome) ==
    /\ flights' = [flights EXCEPT ![caller[c].flight].outcome = outcome]
    /\ caller' = [caller EXCEPT ![c].at = "leaving", ![c].answer = outcome]
    /\ UNCHANGED <<cached, registry>>

Land(c) == caller[c].at \in {"vector", "error"} /\ Lands(c, caller[c].at) /\ UNCHANGED cancels

Cancelled(c) ==
    /\ caller[c].at \in {"calling", "vector", "error"} /\ cancels < MaxCancels
    /\ cancels' = cancels + 1
    /\ Lands(c, "raised")

\* However it ended, the owner removes its flight.
Leave(c) ==
    /\ caller[c].at = "leaving"
    /\ registry' = [q \in Queries |-> IF registry[q] = caller[c].flight THEN 0 ELSE registry[q]]
    /\ Turns(c, "answered", caller[c].flight)
    /\ UNCHANGED <<cached, flights, cancels>>

\* A follower takes the outcome, or its own deadline comes first.
Take(c) ==
    /\ caller[c].at = "waiting" /\ flights[caller[c].flight].outcome # "pending"
    /\ Gives(c, flights[caller[c].flight].outcome)
    /\ UNCHANGED <<cached, registry, flights, cancels>>

StopWaiting(c) ==
    /\ caller[c].at = "waiting" /\ flights[caller[c].flight].outcome = "pending"
    /\ Gives(c, "timeout")
    /\ UNCHANGED <<cached, registry, flights, cancels>>

Goes(c) ==
    /\ caller[c].at = "answered"
    /\ caller' = [caller EXCEPT ![c] = Resting]
    /\ UNCHANGED <<cached, registry, flights, cancels>>

Asks(c) == \E q \in Queries : Hit(c, q) \/ Follow(c, q) \/ Refuse(c, q) \/ Register(c, q)
Ends(c) == Answered(c) \/ Failed(c) \/ Land(c) \/ Leave(c) \/ Take(c) \/ Goes(c)

FlightNext == \E c \in Callers : Asks(c) \/ Ends(c) \/ Cancelled(c) \/ StopWaiting(c)

\* The provider call has a deadline and the steps after it are straight-line
\* code.  That a follower gives up is not assumed: it need not.
FlightFairness == \A c \in Callers : WF_flightVars(Ends(c))
FlightSpec == FlightInit /\ [][FlightNext]_flightVars /\ FlightFairness

-----------------------------------------------------------------------------
FlightTypeOK ==
    /\ cached \in Seq(Queries) /\ cancels \in 0..MaxCancels
    /\ registry \in [Queries -> 0..Len(flights)]
    /\ \A n \in DOMAIN flights : flights[n] \in [query : Queries, outcome : Outcomes]
    /\ caller \in [Callers -> [at : {"idle", "waiting", "calling", "vector", "error",
                                     "leaving", "answered"},
                               flight : 0..Len(flights), answer : Answers]]

\* Whose flight is still in its hands.
Owners(n) == {c \in Callers : caller[c].flight = n
                              /\ caller[c].at \in {"calling", "vector", "error", "leaving"}}

\* No flight outlives its owner: what is registered has exactly one owner, who
\* will resolve and remove it, and whoever waits for a pending outcome waits
\* for such an owner.  A flight left behind would answer its query with a
\* timeout for ever and use up the capacity.
FlightsAreOwned ==
    /\ \A q \in InFlight : /\ flights[registry[q]].query = q
                           /\ Cardinality(Owners(registry[q])) = 1
    /\ \A c \in Callers : caller[c].at = "waiting" /\ flights[caller[c].flight].outcome = "pending"
                             => Owners(caller[c].flight) # {}

\* One call of the provider per query at a time, and never more than the
\* capacity in all.
OneCallPerQuery ==
    LET calling == {c \in Callers : caller[c].at = "calling"}
    IN  /\ Cardinality(calling) <= Capacity
        /\ \A c, d \in calling : QueryOf(c) = QueryOf(d) => c = d

FlightsAreSound == FlightTypeOK /\ FlightsAreOwned /\ OneCallPerQuery

\* Every request comes back, also when the owner of the flight it waits for is
\* cancelled.
CallersReturn == \A c \in Callers : caller[c].at # "idle" ~> caller[c].at = "idle"
=============================================================================
