---------------------------- MODULE ShownProducts ----------------------------
(****************************************************************************)
(* The numbers by which the shopper and the model speak of products.  A     *)
(* turn restores them from the thread, the tools it calls, several at the   *)
(* same time in threads of their own, give numbers to what they show, and   *)
(* the turn saves them when it pauses or ends.                              *)
(*                                                                          *)
(* The interpreter changes threads at calls and in loops: not between       *)
(* taking a number and storing the product by it.                           *)
(****************************************************************************)
EXTENDS Naturals, FiniteSets, FiniteSetsExt, SequencesExt

CONSTANTS
    Shown,        \* the products there are to show
    NoProduct,
    Calls,        \* bound: tool calls of one message of the model, numbers in their order
    MAX_REGISTRY,
    MaxRef,       \* bound: numbers given
    MaxTalks      \* bound: requests

ASSUME ShownAssumption ==
    /\ NoProduct \notin Shown
    /\ Calls \subseteq Nat /\ Calls # {} /\ IsFiniteSet(Calls)
    /\ MAX_REGISTRY \in Nat \ {0} /\ MaxRef \in Nat /\ MaxTalks \in Nat

Refs == 1..MaxRef

VARIABLES
    registry,   \* ctx.registry
    nextRef,    \* ctx._next_ref
    saved,      \* shown_products in the thread, and whether there is one
    replies,    \* the products of its tool results, while it has no shown_products
    call,       \* the calls under way
    phase,      \* of the turn
    talks,
    told,       \* history: what this turn told by which number
    given       \* history: what the talks before it did, that did not fail

shownVars == <<registry, nextRef, saved, replies, call, phase, talks, told, given>>

Nothing == [n \in Refs |-> NoProduct]
NoCall == [pc |-> "idle", product |-> NoProduct]

InitShown ==
    /\ registry = Nothing /\ nextRef = 1
    /\ saved = [some |-> FALSE, registry |-> Nothing]
    /\ replies = <<>>
    /\ call = [c \in Calls |-> NoCall]
    /\ phase = "between"
    /\ talks = 0
    /\ told = {}
    /\ given = {}

Used(r)  == {n \in Refs : r[n] # NoProduct}
Size(r)  == Cardinality(Used(r))
Where(r, p) == {n \in Refs : r[n] = p}

-----------------------------------------------------------------------------
(* seed and _seed_registry_from_checkpoint.                                  *)

Dropped(r) == IF Size(r) < MAX_REGISTRY THEN r
              ELSE [r EXCEPT ![Min(Used(r))] = NoProduct]

\* The lowest numbers go first.
Trimmed(r) == [n \in Refs |->
    IF Cardinality({m \in Used(r) : m > n}) >= MAX_REGISTRY THEN NoProduct ELSE r[n]]

\* Mutant: the numbers go on from how many products are registered.
AfterCount(r) == Size(r) + 1

After(r) == IF Used(r) = {} THEN 1 ELSE Max(Used(r)) + 1

Seed(r) ==
    /\ registry' = Trimmed(r)
    /\ nextRef' = After(Trimmed(r))

\* register, from one thread: a product that has a number keeps it.
Registered(m, p) ==
    IF Where(m.registry, p) # {} THEN m
    ELSE [registry |-> [Dropped(m.registry) EXCEPT ![m.next] = p], next |-> m.next + 1]

\* A thread that never saved its numbers: the products of its tool results are
\* numbered again, in the order of the messages.
Replayed == FoldLeft(Registered, [registry |-> Nothing, next |-> 1], replies)

StartTalk ==
    /\ phase \in {"between", "paused"} /\ talks < MaxTalks
    /\ talks' = talks + 1
    /\ phase' = "runs"
    /\ IF saved.some THEN Seed(saved.registry)
       ELSE registry' = Replayed.registry /\ nextRef' = Replayed.next
    /\ UNCHANGED <<saved, replies, call, told, given>>

\* resume_turn
ResumeTalk ==
    /\ phase = "paused" /\ talks < MaxTalks
    /\ talks' = talks + 1
    /\ phase' = "runs"
    /\ Seed(saved.registry)
    /\ UNCHANGED <<saved, replies, call, told, given>>

-----------------------------------------------------------------------------
(* register, called by a tool in its own thread.                             *)

ToldOf(c, p, n) ==
    /\ told' = told \cup {[ref |-> n, product |-> p]}
    /\ call' = [call EXCEPT ![c] = [pc |-> "told", product |-> p]]

\* search_catalog, build_outfit and get_product_details show a product.
ShowAgain(c, p) ==
    /\ phase = "runs" /\ call[c].pc = "idle"
    /\ \E n \in Where(registry, p) : ToldOf(c, p, n)
    /\ UNCHANGED <<registry, nextRef, saved, replies, phase, talks, given>>

ShowNew(c, p) ==
    /\ phase = "runs" /\ call[c].pc = "idle"
    /\ Where(registry, p) = {}
    /\ call' = [call EXCEPT ![c] = [pc |-> IF Size(registry) >= MAX_REGISTRY
                                           THEN "drops" ELSE "numbers", product |-> p]]
    /\ UNCHANGED <<registry, nextRef, saved, replies, phase, talks, told, given>>

DropOldest(c) ==
    /\ call[c].pc = "drops"
    /\ Used(registry) # {}
    /\ registry' = [registry EXCEPT ![Min(Used(registry))] = NoProduct]
    /\ call' = [call EXCEPT ![c].pc = "numbers"]
    /\ UNCHANGED <<nextRef, saved, replies, phase, talks, told, given>>

GiveNumber(c) ==
    /\ call[c].pc = "numbers" /\ nextRef <= MaxRef
    /\ registry' = [registry EXCEPT ![nextRef] = call[c].product]
    /\ nextRef' = nextRef + 1
    /\ ToldOf(c, call[c].product, nextRef)
    /\ UNCHANGED <<saved, replies, phase, talks, given>>

-----------------------------------------------------------------------------
Quiet == \A c \in Calls : call[c].pc \in {"idle", "told"}

\* The results are saved with the messages, in the order of the calls.
ToolsAnswer ==
    LET answered == {c \in Calls : call[c].pc = "told"} IN
    /\ phase = "runs" /\ Quiet
    /\ answered # {}
    /\ \E order \in [1..Cardinality(answered) -> answered] :
          /\ \A i, j \in DOMAIN order : i < j => order[i] < order[j]
          /\ replies' = IF saved.some THEN <<>>
                        ELSE replies \o [i \in DOMAIN order |-> call[order[i]].product]
    /\ Len(replies') <= MaxRef
    /\ call' = [c \in Calls |-> NoCall]
    /\ UNCHANGED <<registry, nextRef, saved, phase, talks, told, given>>

\* after_agent, or TurnCarry before a question about the cart.
SaveShown(next) ==
    /\ phase = "runs"
    /\ \A c \in Calls : call[c] = NoCall
    /\ saved' = [some |-> TRUE, registry |-> registry]
    /\ replies' = <<>>
    /\ phase' = next
    /\ given' = given \cup told
    /\ told' = {}
    /\ UNCHANGED <<registry, nextRef, call, talks>>

PauseTalk == SaveShown("paused")
EndTalk   == SaveShown("between")

\* A tool raises, the model fails, the service restarts.
FailTalk ==
    /\ phase = "runs"
    /\ phase' = "between"
    /\ call' = [c \in Calls |-> NoCall]
    /\ told' = {}
    /\ UNCHANGED <<registry, nextRef, saved, replies, talks, given>>

NextShown ==
    \/ StartTalk \/ ResumeTalk
    \/ \E c \in Calls :
          \/ \E p \in Shown : ShowAgain(c, p) \/ ShowNew(c, p)
          \/ DropOldest(c) \/ GiveNumber(c)
    \/ ToolsAnswer
    \/ PauseTalk \/ EndTalk \/ FailTalk

SpecShown == InitShown /\ [][NextShown]_shownVars
-----------------------------------------------------------------------------
(* Properties.                                                               *)

\* Type invariant.
ShownTypeOK ==
    /\ registry \in [Refs -> Shown \cup {NoProduct}]
    /\ nextRef \in 1..MaxRef + 1
    /\ saved \in [some : BOOLEAN, registry : [Refs -> Shown \cup {NoProduct}]]
    /\ replies \in Seq(Shown)
    /\ call \in [Calls -> [pc : {"idle", "drops", "numbers", "told"},
                           product : Shown \cup {NoProduct}]]
    /\ phase \in {"between", "runs", "paused"} /\ talks \in 0..MaxTalks
    /\ told \cup given \subseteq [ref : Refs, product : Shown]

\* A number means one product for the life of a conversation: whatever is dropped,
\* paused, resumed and numbered at the same time, no product gets a number that a
\* turn the shopper got an answer of used for another; and the registry stays
\* bounded, by one more for every call of a message after the first.
RefsKeepTheirNumbers ==
    /\ \A x, y \in told \cup given : x.ref = y.ref => x.product = y.product
    /\ Size(registry) < MAX_REGISTRY + Cardinality(Calls)
=============================================================================
