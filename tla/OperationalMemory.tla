-------------------------- MODULE OperationalMemory --------------------------
(***************************************************************************)
(* The operational memory of governance_store: one memory per claim, and   *)
(* for preferences, decisions and task states that share a key one that is *)
(* current and others that it supersedes.  A rewritten page refreshes the  *)
(* memories of its claims and of their keys in its own transaction; a      *)
(* reader that finds the table empty rebuilds all of it from the claims.   *)
(* (Explicit contradictions are left out: no extractor records any.)       *)
(***************************************************************************)
EXTENDS Naturals, FiniteSets

CONSTANTS
    ClaimPages,
    Claims,
    Owner,     \* claim -> the page it is extracted from
    Slots,     \* typed keys: (memory_type, memory_key) other than facts
    Fact,      \* the slot of a fact: facts do not compete
    Contents,  \* what an extractor may make of a claim
    Nil

\* Nothing is no row, and facts have no key that others could share.
ASSUME MemoryAssumption ==
    /\ IsFiniteSet(Claims) /\ Fact \notin Slots
    /\ Nil \notin [slot : Slots \cup {Fact}, rank : Nat,
                  state : {"active", "weak", "expired", "superseded"}, winner : Claims \cup {Nil}]
    /\ Nil \notin [slot : Slots \cup {Fact}, rank : Nat, state : {"active", "weak", "expired"}]

VARIABLES
    claims,   \* claim -> its row in the table claims, or Nil
    memory,   \* claim -> its row in operational_memory, or Nil
    rebuild,  \* claims read by a rebuild that has not saved yet, or Nil
    behind    \* history: claims the last rebuild did not see, or no rebuild did

memoryVars == <<claims, memory, rebuild, behind>>

\* What an extractor makes of a claim: its slot, its rank (updated_at,
\* authority, confidence) and its validity: active, expired, or weak for one
\* that is unsupported, provisional or due for review.
Content == Contents \cap
    [slot : Slots \cup {Fact}, rank : Nat, state : {"active", "weak", "expired"}]
Extract(content) ==
    IF content = Nil THEN Nil
    ELSE [slot |-> content.slot, rank |-> content.rank, state |-> content.state, winner |-> Nil]
Extracted(content) == [c \in Claims |-> Extract(content[c])]

NoMemories == [c \in Claims |-> Nil]
Rows(table) == {c \in Claims : table[c] # Nil}

\* A store that was filled before it had memories, or a new one.
MemoryInit ==
    /\ claims \in [Claims -> Content \cup {Nil}]
    /\ memory = NoMemories
    /\ rebuild = Nil
    /\ behind = Claims

-----------------------------------------------------------------------------
\* Operators with a suffix after an underscore are faulty variants: they show
\* which property would notice, and no specification uses them.

(* _resolve_memory_conflicts, for the slots in a set.                      *)

Candidates(table, slot) ==
    {c \in Rows(table) : table[c].slot = slot /\ table[c].state # "expired"}
Top(table, slot) ==
    {c \in Candidates(table, slot) :
        \A d \in Candidates(table, slot) : table[c].rank >= table[d].rank}

\* The first in rank; between equals the order of the rows decides.
Winners(table, slots) ==
    {w \in [slots -> Claims \cup {Nil}] :
        \A s \in slots : w[s] \in (IF Top(table, s) = {} THEN {Nil} ELSE Top(table, s))}

\* A superseded memory competes again as an active one; one that is alone is
\* active whatever it was.
Competes(m) == [m EXCEPT !.state = IF @ = "superseded" THEN "active" ELSE @, !.winner = Nil]
Settled(table, w, c) ==
    LET m == table[c] IN
    IF m = Nil \/ m.slot \notin DOMAIN w \/ c \notin Candidates(table, m.slot) THEN m
    ELSE IF Candidates(table, m.slot) = {c} THEN [m EXCEPT !.state = "active", !.winner = Nil]
    ELSE IF c = w[m.slot] THEN Competes(m)
    ELSE [m EXCEPT !.state = "superseded", !.winner = w[m.slot]]

Resolved(table, slots) ==
    {[c \in Claims |-> Settled(table, w, c)] : w \in Winners(table, slots)}

-----------------------------------------------------------------------------
(* _refresh_operational_memory_delta.                                      *)

\* The slots of what is replaced and of what replaces it.
Impacted_New(old, new, changed) == {new[c].slot : c \in changed \cap Rows(new)} \cap Slots
Impacted_Old(old, new, changed) == {old[c].slot : c \in changed \cap Rows(old)} \cap Slots
Impacted(old, new, changed) ==
    ({old[c].slot : c \in changed \cap Rows(old)}
     \cup {new[c].slot : c \in changed \cap Rows(new)}) \cap Slots

\* A page is rewritten: its claims are replaced, and the memories with them.
Rewrite(p) ==
    LET own == {c \in Claims : Owner[c] = p} IN
    \E proposed \in [own -> Content \cup {Nil}] :
        /\ claims' = [c \in Claims |-> IF c \in own THEN proposed[c] ELSE claims[c]]
        /\ LET changed == {c \in own : claims[c] # Nil \/ proposed[c] # Nil}
           IN  /\ \E new \in {[c \in Claims |->
                               IF c \in changed THEN Extract(proposed[c]) ELSE memory[c]]} :
                    memory' \in Resolved(new, Impacted(memory, new, changed))
               /\ behind' = behind \ changed
        /\ UNCHANGED rebuild

\* delete_node_cascade drops the claims and memories of a page and resolves
\* nothing.
Delete(p) ==
    LET own == {c \in Rows(claims) : Owner[c] = p} IN
    /\ own # {}
    /\ claims' = [c \in Claims |-> IF c \in own THEN Nil ELSE claims[c]]
    /\ memory' = [c \in Claims |-> IF c \in own THEN Nil ELSE memory[c]]
    /\ behind' = behind \ own
    /\ UNCHANGED rebuild

-----------------------------------------------------------------------------
(* rebuild_operational_memory.                                             *)

\* A reader finds no memory although there are claims.
RebuildRead ==
    /\ rebuild = Nil /\ memory = NoMemories /\ claims # NoMemories
    /\ rebuild' = claims
    /\ UNCHANGED <<claims, memory, behind>>

\* save_memory_objects: the table becomes what was computed.
Unseen(snapshot) == {c \in Claims : snapshot[c] # claims[c]}
RebuildSave ==
    /\ rebuild # Nil
    /\ memory' \in Resolved(Extracted(rebuild), Slots)
    /\ behind' = Unseen(rebuild)
    /\ rebuild' = Nil
    /\ UNCHANGED claims

RebuildStops ==
    /\ rebuild # Nil
    /\ rebuild' = Nil
    /\ UNCHANGED <<claims, memory, behind>>

MemoryNext ==
    \/ \E p \in ClaimPages : Rewrite(p) \/ Delete(p)
    \/ RebuildRead \/ RebuildSave \/ RebuildStops

MemorySpec == MemoryInit /\ [][MemoryNext]_memoryVars

-----------------------------------------------------------------------------
(* Correctness.                                                            *)

\* Of the memories with one typed key at most one is current, and it outranks
\* or equals those it superseded, in whatever order pages were rewritten,
\* deleted and rebuilt.
Current(slot) == {c \in Candidates(memory, slot) : memory[c].state # "superseded"}
OneWinner ==
    \A s \in Slots :
        /\ Cardinality(Current(s)) <= 1
        /\ Current(s) \subseteq Top(memory, s)

\* A superseded memory names the current one of its key; only the deletion of
\* a page may leave one that names a memory which is gone.
Unnamed == {c \in Rows(memory) :
              memory[c].state = "superseded" /\ memory[c].winner \notin Current(memory[c].slot)}
LoserStep == Unnamed' \subseteq Unnamed \/ \E p \in ClaimPages : Delete(p)
LosersHaveWinners == [][LoserStep]_memoryVars

\* Every claim has its memory, of its own slot and rank, and no other claim
\* has one, but for those a rebuild has not seen.
MemoriesFollowClaims ==
    \A c \in Claims \ behind :
        /\ memory[c] = Nil <=> claims[c] = Nil
        /\ memory[c] # Nil => /\ memory[c].slot = claims[c].slot
                               /\ memory[c].rank = claims[c].rank

\* What the readers of the memory rely on.
MemoryIsSound == OneWinner /\ MemoriesFollowClaims
=============================================================================
