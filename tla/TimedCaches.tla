----------------------------- MODULE TimedCaches -----------------------------
(****************************************************************************)
(* What one service process keeps of the database for a while: the facets   *)
(* of the shop (300 s, no lock, two fields written one after the other) and *)
(* the answers about store policies (600 s, a lock around each access, none *)
(* around the lookup).  The catalog and the policies are seeded by other    *)
(* processes meanwhile.                                                     *)
(*                                                                          *)
(* What is read from the database is the time it was read at: the catalog   *)
(* and the policies were so then, and may be otherwise since.               *)
(****************************************************************************)
EXTENDS Naturals

CONSTANTS
    Readers,      \* bound: requests under way at the same time
    NoData,       \* an empty cache
    FacetsTTL, PolicyTTL,
    Delay,        \* the longest a request takes
    MaxTime       \* bound: ticks of the clock

ASSUME CachesAssumption ==
    /\ NoData \notin Nat
    /\ FacetsTTL \in Nat /\ PolicyTTL \in Nat
    /\ Delay \in Nat /\ MaxTime \in Nat

VARIABLES
    time,
    facets,    \* _CATEGORIES_CACHE
    policy,    \* one entry of _policy_cache
    reader     \* the requests under way

cachesVars == <<time, facets, policy, reader>>

Away == [pc |-> "away", now |-> 0, data |-> 0]

InitCaches ==
    /\ time = 0
    /\ facets = [data |-> NoData, at |-> 0]
    /\ policy = [data |-> NoData, until |-> 0]
    /\ reader = [r \in Readers |-> Away]

Begin(r, pc) ==
    /\ reader[r].pc = "away"
    /\ reader' = [reader EXCEPT ![r] = [pc |-> pc, now |-> time, data |-> 0]]

Read(r, pc) == reader' = [reader EXCEPT ![r].pc = pc, ![r].data = time]
Answer(r)   == reader' = [reader EXCEPT ![r] = Away]

-----------------------------------------------------------------------------
(* categories, and the invalidation by a reindex.                            *)

\* Mutant: what is in the cache is answered however old.
FacetsKept == facets.data # NoData

FacetsHit == facets.data # NoData /\ time < facets.at + FacetsTTL

AskFacets(r) ==
    /\ Begin(r, IF FacetsHit THEN "hit" ELSE "query")
    /\ UNCHANGED <<time, facets, policy>>

\* The cache is read again: after a reindex there is nothing to answer.
AnswerFacets(r) ==
    /\ reader[r].pc = "hit"
    /\ Answer(r)
    /\ UNCHANGED <<time, facets, policy>>

QueryFacets(r) ==
    /\ reader[r].pc = "query"
    /\ Read(r, "stamp")
    /\ UNCHANGED <<time, facets, policy>>

\* The stamp is the time from before the query.
StampFacets(r) ==
    /\ reader[r].pc = "stamp"
    /\ facets' = [facets EXCEPT !.at = reader[r].now]
    /\ reader' = [reader EXCEPT ![r].pc = "store"]
    /\ UNCHANGED <<time, policy>>

StoreFacets(r) ==
    /\ reader[r].pc = "store"
    /\ facets' = [facets EXCEPT !.data = reader[r].data]
    /\ Answer(r)
    /\ UNCHANGED <<time, policy>>

InvalidateCategoriesCache ==
    /\ facets' = [facets EXCEPT !.data = NoData]
    /\ UNCHANGED <<time, policy, reader>>

-----------------------------------------------------------------------------
(* lookup_store_policy.                                                      *)

PolicyHit == policy.data # NoData /\ policy.until > time

\* A hit is answered under the lock; otherwise the lookup follows.
AskPolicy(r) ==
    /\ ~PolicyHit
    /\ Begin(r, "lookup")
    /\ UNCHANGED <<time, facets, policy>>

LookUpPolicy(r) ==
    /\ reader[r].pc = "lookup"
    /\ Read(r, "keep")
    /\ UNCHANGED <<time, facets, policy>>

KeptUntil == time + PolicyTTL

KeepPolicy(r) ==
    /\ reader[r].pc = "keep"
    /\ policy' = [data |-> reader[r].data, until |-> KeptUntil]
    /\ Answer(r)
    /\ UNCHANGED <<time, facets>>

\* clear_policy_cache, or another question takes the entry's place.
DropPolicy ==
    /\ policy' = [policy EXCEPT !.data = NoData]
    /\ UNCHANGED <<time, facets, reader>>

-----------------------------------------------------------------------------
\* No request takes longer than Delay.
TimePasses ==
    /\ time < MaxTime
    /\ \A r \in Readers : reader[r].pc # "away" => time < reader[r].now + Delay
    /\ time' = time + 1
    /\ UNCHANGED <<facets, policy, reader>>

NextCaches ==
    \/ \E r \in Readers :
          \/ AskFacets(r) \/ AnswerFacets(r) \/ QueryFacets(r)
          \/ StampFacets(r) \/ StoreFacets(r)
          \/ AskPolicy(r) \/ LookUpPolicy(r) \/ KeepPolicy(r)
    \/ InvalidateCategoriesCache
    \/ DropPolicy
    \/ TimePasses

SpecCaches == InitCaches /\ [][NextCaches]_cachesVars
-----------------------------------------------------------------------------
(* Properties.                                                               *)

\* Type invariant.
CachesTypeOK ==
    /\ time \in Nat
    /\ facets \in [data : Nat \cup {NoData}, at : Nat]
    /\ policy \in [data : Nat \cup {NoData}, until : Nat]
    /\ reader \in [Readers ->
          [pc : {"away", "hit", "query", "stamp", "store", "lookup", "keep"},
           now : Nat, data : Nat]]

\* A stamp is written and its data not yet.
Torn == \E r \in Readers : reader[r].pc = "store"

\* However requests and reindexes interleave, and though the stamp and the data
\* of two requests may end up side by side, the facets answered were read no
\* longer ago than they may be kept, and the time two requests take; except
\* between the two writes of a third, when a new stamp stands by old data.
FacetsWithinTTL ==
    \A r \in Readers :
        reader[r].pc = "hit" /\ facets.data # NoData /\ ~Torn
            => time < facets.data + FacetsTTL + 2 * Delay

\* An answer about a policy was looked up no longer ago than it may be kept,
\* and the time a request takes: a lookup that ends after the cache was cleared
\* puts the old answer back, but not for longer.
PolicyWithinTTL ==
    PolicyHit => time < policy.data + PolicyTTL + Delay

\* Neither cache of a process answers with data older than its promise allows.
CachesWithinTTL == FacetsWithinTTL /\ PolicyWithinTTL
=============================================================================
