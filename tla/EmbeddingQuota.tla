--------------------------- MODULE EmbeddingQuota ---------------------------
(***************************************************************************)
(* MinuteRateLimiter of embedding_scheduler: processes reserve embedding   *)
(* requests in one table.  A process reads its clock, waits for the write  *)
(* lock of the database, and then drops the reservations that are older    *)
(* than the window, counts the rest, and inserts its own, all stamped with *)
(* the clock it read first; or it sleeps and starts again, or gives up.    *)
(* Times are ticks; the window is a minute in the code.                    *)
(***************************************************************************)
EXTENDS FiniteSetsExt, Naturals

CONSTANTS
    Processes,
    Window,      \* length of the rolling window
    LockWait,    \* longest wait for the write lock before it raises
    Requests,    \* effective_rpm
    Tokens,      \* effective_tpm
    Sizes,       \* token counts of requests
    MaxTime,     \* bound: the clock
    MaxAdmitted  \* bound: admitted requests

\* Lengths, limits and token counts are numbers.
ASSUME QuotaAssumption ==
    {Window, LockWait, Requests, Tokens} \subseteq Nat /\ Sizes \subseteq Nat

VARIABLES
    now,           \* the clock
    reservations,  \* embedding_rate_reservations
    client,        \* process -> phase, size of its request, clock read or alarm
    admitted       \* history: requests let through, with the true time

quotaVars == <<now, reservations, client, admitted>>

NoRequest == [at |-> "idle", size |-> 0, time |-> 0]
QuotaInit ==
    /\ now = Window
    /\ reservations = {} /\ admitted = {}
    /\ client = [p \in Processes |-> NoRequest]

Used(those) == MapThenSumSet(LAMBDA r : r.size, those)

-----------------------------------------------------------------------------
\* Operators with a suffix after an underscore are faulty variants: they show
\* which property would notice, and no specification uses them.

\* A reservation counts until it is a window older than the clock that was
\* read.
Counted_Short(time) == {r \in reservations : r.time + Window > time + 1}
Counted(time) == {r \in reservations : r.time + Window > time}

Fits(size, those) ==
    /\ Cardinality(those) + 1 <= Requests
    /\ Used(those) + size <= Tokens

\* The request is within the limit at all, and there is time for it.
AskQuota(p, size) ==
    /\ client[p].at = "idle" /\ size <= Tokens
    /\ Cardinality(admitted) < MaxAdmitted
    /\ client' = [client EXCEPT ![p] = [at |-> "locking", size |-> size, time |-> now]]
    /\ UNCHANGED <<now, reservations, admitted>>

\* The transaction: prune, count, insert; or a sleep until the oldest leaves.
ReserveQuota(p) ==
    LET c == client[p]
        counted == Counted(c.time)
    IN  /\ c.at = "locking" /\ Fits(c.size, counted)
        /\ Cardinality(admitted) < MaxAdmitted
        /\ LET id == Cardinality(admitted)
           IN  /\ reservations' = counted \cup {[id |-> id, size |-> c.size, time |-> c.time]}
               /\ admitted' = admitted \cup {[id |-> id, size |-> c.size, time |-> now]}
        /\ client' = [client EXCEPT ![p] = NoRequest]
        /\ UNCHANGED now

Oldest(those) == CHOOSE r \in those : \A s \in those : r.time <= s.time
\* oldest + 60 - now, slept from when the transaction ended.
Sleep(p) ==
    LET c == client[p]
        counted == Counted(c.time)
    IN  /\ c.at = "locking" /\ ~Fits(c.size, counted)
        /\ reservations' = counted
        /\ client' = [client EXCEPT ![p].at = "sleeping",
                ![p].time = now + (Oldest(counted).time + Window - c.time)]
        /\ UNCHANGED <<now, admitted>>

Wake(p) ==
    /\ client[p].at = "sleeping" /\ now >= client[p].time
    /\ client' = [client EXCEPT ![p].at = "locking", ![p].time = now]
    /\ UNCHANGED <<now, reservations, admitted>>

\* The caller's deadline does not allow the wait, or the lock did not come.
\* (A request on a read path, durable=False, only looks at Fits: it leaves
\* no row and is not counted, as its documentation says.)
GiveUpQuota(p) ==
    /\ client[p].at # "idle"
    /\ client' = [client EXCEPT ![p] = NoRequest]
    /\ UNCHANGED <<now, reservations, admitted>>

Tick ==
    /\ now < MaxTime
    /\ \A p \in Processes : client[p].at = "locking" => now < client[p].time + LockWait
    /\ now' = now + 1
    /\ UNCHANGED <<reservations, client, admitted>>

QuotaNext ==
    \/ Tick
    \/ \E p \in Processes :
          \/ \E size \in Sizes : AskQuota(p, size)
          \/ ReserveQuota(p) \/ Sleep(p) \/ Wake(p) \/ GiveUpQuota(p)

QuotaSpec == QuotaInit /\ [][QuotaNext]_quotaVars

-----------------------------------------------------------------------------
(* Correctness.                                                            *)

\* Whatever processes wait for the lock, prune for each other or sleep: within
\* any window, short of the longest wait for the lock, no more requests and
\* tokens are let through than the limits say.  (Stamps are read before the
\* lock is there, so over a full window the limits can be exceeded.)
Within(from) == {r \in admitted : from < r.time /\ r.time + LockWait <= from + Window}
WindowHolds ==
    \A from \in 0..MaxTime : /\ Cardinality(Within(from)) <= Requests
                             /\ Used(Within(from)) <= Tokens
=============================================================================
