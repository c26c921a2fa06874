----------------------------- MODULE SearchIndex -----------------------------
(****************************************************************************)
(* The search index of one service process: built from the catalog by the   *)
(* first search that needs it, under a lock; forgotten and built again by   *)
(* a reindex request, which an admin sends after the catalog was seeded.    *)
(* get_index is four steps: the check, the lock, the check again with the   *)
(* build, and the return, which reads the index once more with no lock.     *)
(****************************************************************************)
EXTENDS Naturals

CONSTANTS
    Workers,     \* bound: requests under way at the same time
    NoIndex,
    MaxVersion   \* bound: seedings of the catalog

ASSUME IndexAssumption == NoIndex \notin Nat /\ MaxVersion \in Nat

\* A catalog is the number of its seeding; so is an index built from it.
Versions == 0..MaxVersion

VARIABLES
    catalog,   \* the products in the database
    index,     \* _INDEX
    holder,    \* the workers in the critical section of _INDEX_LOCK
    job,       \* the requests under way
    promised   \* history: the newest catalog an answered reindex was for

indexVars == <<catalog, index, holder, job, promised>>

\* owed: for a search, the catalog promised by then; for a reindex its own.
NewJob(pc, op, owed) == [pc |-> pc, op |-> op, seen |-> 0, owed |-> owed]
IdleJob == NewJob("idle", "search", 0)

InitIndex ==
    /\ catalog = 0
    /\ index = NoIndex
    /\ holder = {}
    /\ job = [w \in Workers |-> IdleJob]
    /\ promised = 0

Goto(w, pc) == job' = [job EXCEPT ![w].pc = pc]
EndJob(w)   == job' = [job EXCEPT ![w] = IdleJob]

-----------------------------------------------------------------------------
SearchProducts(w) ==
    /\ job[w].pc = "idle"
    /\ job' = [job EXCEPT ![w] = NewJob("check", "search", promised)]
    /\ UNCHANGED <<catalog, index, holder, promised>>

ReindexSearch(w) ==
    /\ job[w].pc = "idle"
    /\ job' = [job EXCEPT ![w] = NewJob("reset", "reindex", 0)]
    /\ UNCHANGED <<catalog, index, holder, promised>>

\* Mutant: the reset does not take the lock.
ResetUnlocked(w) ==
    /\ job[w].pc = "reset"
    /\ index' = NoIndex
    /\ job' = [job EXCEPT ![w].pc = "check", ![w].owed = catalog]
    /\ UNCHANGED <<catalog, holder, promised>>

\* It waits for a build under way, so the build cannot store an older index
\* afterwards.
ResetIndex(w) ==
    /\ job[w].pc = "reset"
    /\ holder = {}
    /\ index' = NoIndex
    /\ job' = [job EXCEPT ![w].pc = "check", ![w].owed = catalog]
    /\ UNCHANGED <<catalog, holder, promised>>

-----------------------------------------------------------------------------
CheckIndex(w) ==
    /\ job[w].pc = "check"
    /\ Goto(w, IF index = NoIndex THEN "wait" ELSE "return")
    /\ UNCHANGED <<catalog, index, holder, promised>>

FoundBuilt(w) ==
    /\ job[w].pc = "wait"
    /\ holder = {} /\ index # NoIndex
    /\ Goto(w, "return")
    /\ UNCHANGED <<catalog, index, holder, promised>>

\* build_search_index reads the products.
BuildIndex(w) ==
    /\ job[w].pc = "wait"
    /\ holder = {} /\ index = NoIndex
    /\ holder' = {w}
    /\ job' = [job EXCEPT ![w].pc = "build", ![w].seen = catalog]
    /\ UNCHANGED <<catalog, index, promised>>

StoreIndex(w) ==
    /\ job[w].pc = "build"
    /\ index' = job[w].seen
    /\ holder' = holder \ {w}
    /\ Goto(w, "return")
    /\ UNCHANGED <<catalog, promised>>

\* Mutant: a build that fails keeps the lock.
BuildFailsLocked(w) ==
    /\ job[w].pc = "build"
    /\ EndJob(w)
    /\ UNCHANGED <<catalog, index, holder, promised>>

\* The database fails: the lock is released, the request refused.
BuildFails(w) ==
    /\ job[w].pc = "build"
    /\ holder' = holder \ {w}
    /\ EndJob(w)
    /\ UNCHANGED <<catalog, index, promised>>

-----------------------------------------------------------------------------
\* A reset between the check and the return leaves nothing to return: the
\* request fails.
NoIndexLeft(w) ==
    /\ job[w].pc = "return"
    /\ index = NoIndex
    /\ EndJob(w)
    /\ UNCHANGED <<catalog, index, holder, promised>>

AnswerSearch(w) ==
    /\ job[w].pc = "return" /\ job[w].op = "search"
    /\ index # NoIndex
    /\ EndJob(w)
    /\ UNCHANGED <<catalog, index, holder, promised>>

AnswerReindex(w) ==
    /\ job[w].pc = "return" /\ job[w].op = "reindex"
    /\ index # NoIndex
    /\ promised' = IF job[w].owed > promised THEN job[w].owed ELSE promised
    /\ EndJob(w)
    /\ UNCHANGED <<catalog, index, holder>>

\* The pipeline seeds the database; the service is not told.
SeedCatalog ==
    /\ catalog < MaxVersion
    /\ catalog' = catalog + 1
    /\ UNCHANGED <<index, holder, job, promised>>

Proceed(w) ==
    \/ ResetIndex(w) \/ CheckIndex(w) \/ FoundBuilt(w) \/ BuildIndex(w)
    \/ StoreIndex(w) \/ BuildFails(w)
    \/ NoIndexLeft(w) \/ AnswerSearch(w) \/ AnswerReindex(w)

NextIndex ==
    \/ \E w \in Workers : Proceed(w) \/ SearchProducts(w) \/ ReindexSearch(w)
    \/ SeedCatalog

SpecIndex == InitIndex /\ [][NextIndex]_indexVars
-----------------------------------------------------------------------------
(* Properties.                                                               *)

\* Type invariant.
IndexTypeOK ==
    /\ catalog \in Versions
    /\ index \in Versions \cup {NoIndex}
    /\ holder \subseteq Workers
    /\ job \in [Workers -> [pc : {"idle", "reset", "check", "wait", "build", "return"},
                            op : {"search", "reindex"},
                            seen : Versions, owed : Versions]]
    /\ promised \in Versions

\* A search that comes after an answered reindex never ranks an older catalog
\* than the one that reindex was sent for, whatever was being built when the
\* index was reset and however many searches and reindexes run beside it.
ReindexHolds ==
    \A w \in Workers :
        job[w].pc = "return" /\ job[w].op = "search" /\ index # NoIndex
            => index >= job[w].owed

\* Every search and reindex ends: a build that fails gives the lock back as
\* well, and nobody waits for it forever.
SearchesEnd ==
    \A w \in Workers : job[w].pc # "idle" ~> job[w].pc = "idle"
=============================================================================
