------------------------------ MODULE SimTraffic ------------------------------
(****************************************************************************)
(* The traffic simulator: a shopper's journey drawn at random, checked by   *)
(* validate_simulation and written into the tables of the shop, in one      *)
(* transaction, which another run of the simulator may cross.               *)
(*                                                                          *)
(* The simulation here has one session.  Time is the order of its rows.     *)
(****************************************************************************)
EXTENDS Naturals, Sequences, SequencesExt, FiniteSets, FiniteSetsExt

CONSTANTS
    Catalog,        \* products: [id, home, slot, price]
    OutfitBudgets,  \* OUTFIT_BUDGETS
    Runs            \* the runs of the simulator that write; 0 is the one before them

ASSUME TrafficAssumption ==
    /\ \A p \in Catalog : /\ p.price \in Nat \ {0} /\ p.id \in Nat
                          /\ p.slot \in 0..3 /\ p.home \in BOOLEAN
    /\ OutfitBudgets \subseteq Nat /\ Runs \subseteq Nat \ {0}

\* Every budget buys a product: they start at 750,000 rupiah, and the embedded
\* catalog at 149,000.
ASSUME BudgetAssumption == \A b \in OutfitBudgets : \E p \in Catalog : p.price <= b

\* In the order in which a reset empties them.
Tables   == <<"feedback", "turns", "events", "orders">>
TableSet == ToSet(Tables)

VARIABLES
    journey,  \* [cohort, pc, items, budget]
    log,      \* its rows, in the order of their times
    writer,   \* the transactions of the runs
    stored,   \* the runs whose rows each table has
    crossed   \* history: a run that resets was under way with another

trafficVars == <<journey, log, writer, stored, crossed>>

InitTraffic ==
    /\ journey = [cohort |-> "none", pc |-> "new", items |-> <<>>, budget |-> 0]
    /\ log = <<>>
    /\ writer = [w \in Runs |-> [pc |-> "new", reset |-> FALSE, at |-> 1,
                                 found |-> {}, deleted |-> [t \in TableSet |-> {}]]]
    /\ stored \in {[t \in TableSet |-> {}], [t \in TableSet |-> {0}]}
    /\ crossed = FALSE

-----------------------------------------------------------------------------
(* Rows.                                                                     *)

SumOf(prices) == FoldLeft(LAMBDA sum, price : sum + price, 0, prices)
Total(items)  == SumOf([i \in DOMAIN items |-> items[i].price])

Event(type, items) ==
    [table |-> "events", type |-> type, qty |-> Len(items), price |-> Total(items)]

EventOfEach(type, items) == [i \in DOMAIN items |-> Event(type, <<items[i]>>)]

TurnRow(outcome) == [table |-> "turns", type |-> outcome, qty |-> 0, price |-> 0]
Vote == [table |-> "feedback", type |-> "vote", qty |-> 0, price |-> 0]

\* _order: the row and its event.
OrderRows(items) ==
    << [Event("order", items) EXCEPT !.table = "orders"], Event("purchase_mock", items) >>

\* A message of the shopper, the turn that answers it.
Asks(outcome) == << Event("copilot_message", <<>>), TurnRow(outcome) >>

HasRows(t) == \E i \in DOMAIN log : log[i].table = t

Goes(pc, rows) ==
    /\ journey' = [journey EXCEPT !.pc = pc]
    /\ log' = log \o rows
    /\ UNCHANGED <<writer, stored, crossed>>

-----------------------------------------------------------------------------
(* The cohorts.                                                              *)

\* What a shopper does first, with a product.
Opening(cohort, p) ==
    LET views == <<Event("view_product", <<p>>)>>
    IN  CASE cohort = "baseline" -> <<Event("search", <<>>)>> \o views
          [] cohort = "sizing"   -> views \o Asks("answered")
                                    \o <<Event("copilot_product_click", <<p>>)>>
          [] cohort = "policy"   -> views \o Asks("answered")

Begins(cohort, p, pc) ==
    /\ journey.pc = "new"
    /\ journey' = [cohort |-> cohort, pc |-> pc, items |-> <<p>>, budget |-> 0]
    /\ log' = Opening(cohort, p)
    /\ UNCHANGED <<writer, stored, crossed>>

Baseline(p) == Begins("baseline", p, "adds")
Sizes(p)    == Begins("sizing", p, "adds")
Policy(p)   == Begins("policy", p, "votes") \/ Begins("policy", p, "clicks")

PolicyClicks ==
    /\ journey.pc = "clicks"
    /\ Goes("adds", <<Event("copilot_product_click", journey.items)>>)

BeginOutfit(b) ==
    /\ journey.pc = "new"
    /\ journey' = [cohort |-> "outfit", pc |-> "slot 1", items |-> <<>>, budget |-> b]
    /\ UNCHANGED <<log, writer, stored, crossed>>

\* The budget an outfit has left.
Remaining == journey.budget - Total(journey.items)

\* A fair share of what remains, and some more; for the last slot all of it.
MaxPrice(n) == IF n = 3 THEN Remaining ELSE (Remaining * 115) \div ((4 - n) * 100)

Pool(n) ==
    LET home == {p \in Catalog \ ToSet(journey.items) : p.home}
        fits == {p \in home : p.slot = n /\ p.price <= MaxPrice(n)}
    IN  IF fits # {} THEN fits ELSE {p \in home : p.price <= Remaining}

SlotName(n) == <<"slot 1", "slot 2", "slot 3", "tops up">>[n]

FillOutfitSlot(n) ==
    /\ journey.pc = SlotName(n)
    /\ \/ Pool(n) = {} /\ journey' = [journey EXCEPT !.pc = "tops up"]
       \/ \E p \in Pool(n) :
             journey' = [journey EXCEPT !.pc = SlotName(n + 1), !.items = Append(@, p)]
    /\ UNCHANGED <<log, writer, stored, crossed>>

\* The least price, and of those the first product.
Cheapest(products) ==
    CHOOSE p \in products : \A q \in products :
        p.price < q.price \/ (p.price = q.price /\ p.id <= q.id)

\* Mutant: the pieces an outfit is topped up with are taken whatever they cost.
TopUpAtAnyPrice(items, products) ==
    LET left == products \ ToSet(items)
    IN  IF Len(items) < 2 /\ left # {} THEN Append(items, Cheapest(left)) ELSE items

\* An outfit of fewer than two pieces takes the cheapest of the others, if the
\* budget allows it; if it does not, it allows none.
TopUp(items, products) ==
    LET left == products \ ToSet(items)
    IN  IF /\ Len(items) < 2 /\ left # {}
           /\ Total(items) + Cheapest(left).price <= journey.budget
        THEN Append(items, Cheapest(left)) ELSE items

\* With fewer than two pieces, the cheapest that fit: of the department, then
\* of the shop.  (What was chosen never exceeds the budget, so nothing is taken
\* back.)
CheapestThatFit(items, products) == TopUp(TopUp(items, products), products)

PickOutfit ==
    LET ofDepartment == CheapestThatFit(journey.items, {p \in Catalog : p.home})
        items        == CheapestThatFit(ofDepartment, Catalog)
    IN  /\ journey.pc = "tops up"
        /\ journey' = [journey EXCEPT !.pc = "adds", !.items = items]
        /\ log' = log \o Asks("answered") \o EventOfEach("copilot_product_click", items)
        /\ UNCHANGED <<writer, stored, crossed>>

-----------------------------------------------------------------------------
(* The funnel.                                                               *)

\* The copilot's adds are counted twice, as its own and as the shop's.
AddsToCart ==
    LET each(p) == << Event("copilot_add_to_cart", <<p>>), Event("add_to_cart", <<p>>) >>
    IN  /\ journey.pc = "adds"
        /\ Goes("checks out",
                IF journey.cohort = "outfit"
                THEN FlattenSeq([i \in DOMAIN journey.items |-> each(journey.items[i])])
                     \o <<TurnRow("cart")>>
                ELSE EventOfEach("add_to_cart", journey.items))

ChecksOut ==
    /\ journey.pc = "checks out"
    /\ Goes("orders", <<Event("checkout_start", journey.items)>>)

Orders ==
    /\ journey.pc = "orders"
    /\ Goes("votes", OrderRows(journey.items))

\* The journey goes no further; a shopper who spoke with the copilot may vote, and
\* one who clicked after a question about a policy adds.
GivesUp ==
    /\ journey.pc \in {"adds", "checks out", "orders"}
    /\ journey.cohort = "policy" => journey.pc # "adds"
    /\ Goes("votes", <<>>)

MaybeFeedback ==
    /\ journey.pc = "votes"
    /\ journey' = [journey EXCEPT !.pc = "built"]
    /\ \/ log' = log
       \/ journey.cohort # "baseline" /\ log' = Append(log, Vote)
    /\ UNCHANGED <<writer, stored, crossed>>

\* validate_simulation
OutfitHolds ==
    journey.cohort = "outfit" /\ HasRows("orders") =>
        /\ Total(journey.items) <= journey.budget
        /\ Len(journey.items) >= 2

Valid ==
    /\ \A i \in DOMAIN log : log[i].table = "orders" =>
          log[i].qty = Len(journey.items) /\ log[i].price = Total(journey.items)
    /\ OutfitHolds
    /\ HasRows("feedback") => HasRows("turns")

ValidateSimulation ==
    /\ journey.pc = "built"
    /\ journey' = [journey EXCEPT !.pc = IF Valid THEN "valid" ELSE "refused"]
    /\ UNCHANGED <<log, writer, stored, crossed>>

-----------------------------------------------------------------------------
(* write_simulation: one transaction, of which each statement sees what is   *)
(* committed when it starts.                                                 *)

Writing(w) == writer[w].pc \in {"deletes", "waits", "inserts", "inserted"}

Starts(w, pc, reset) ==
    /\ journey.pc = "valid" /\ writer[w].pc = "new"
    /\ writer' = [writer EXCEPT ![w].pc = pc, ![w].reset = reset]
    /\ crossed' = (crossed \/ \E v \in Runs : Writing(v) /\ (reset \/ writer[v].reset))
    /\ UNCHANGED <<journey, log, stored>>

\* Without --reset-sim-only: no run may have left rows.
CountRows(w) ==
    Starts(w, IF \A t \in TableSet : stored[t] = {} THEN "inserts" ELSE "ended", FALSE)

BeginReset(w) == Starts(w, "deletes", TRUE)

\* _reset_sim_rows, a table after the other: the DELETE finds the rows, waits for
\* those another run is deleting, and passes over what that run has deleted.
FindRows(w) ==
    /\ writer[w].pc = "deletes"
    /\ writer' = [writer EXCEPT ![w].pc = "waits",
                                ![w].found = stored[Tables[writer[w].at]]]
    /\ UNCHANGED <<journey, log, stored, crossed>>

DeleteRows(w) ==
    LET t    == Tables[writer[w].at]
        rows == writer[w].found \cap stored[t]
    IN  /\ writer[w].pc = "waits"
        /\ \A v \in Runs \ {w} : Writing(v) => writer[v].deleted[t] \cap rows = {}
        /\ writer' = [writer EXCEPT
              ![w].deleted[t] = rows,
              ![w].at = @ + 1,
              ![w].pc = IF writer[w].at = Len(Tables) THEN "inserts" ELSE "deletes"]
        /\ UNCHANGED <<journey, log, stored, crossed>>

\* The runs number their orders alike, and a token is unique: an order waits for
\* one of the same token, and fails if that stays.
Taken(w) == stored["orders"] \ writer[w].deleted["orders"]

\* Mutant: the tokens of the orders are not unique.
InsertAnyway(w) ==
    /\ writer[w].pc = "inserts"
    /\ writer' = [writer EXCEPT ![w].pc = "inserted"]
    /\ UNCHANGED <<journey, log, stored, crossed>>

InsertRows(w) ==
    /\ writer[w].pc = "inserts"
    /\ HasRows("orders") =>
          /\ \A v \in Runs \ {w} :
                Writing(v) => writer[v].pc # "inserted"
                              /\ writer[v].deleted["orders"] \cap Taken(w) = {}
          /\ Taken(w) = {}
    /\ writer' = [writer EXCEPT ![w].pc = "inserted"]
    /\ UNCHANGED <<journey, log, stored, crossed>>

WriteFails(w) ==
    /\ Writing(w)
    /\ writer' = [writer EXCEPT ![w].pc = "ended"]
    /\ UNCHANGED <<journey, log, stored, crossed>>

CommitRows(w) ==
    /\ writer[w].pc = "inserted"
    /\ writer' = [writer EXCEPT ![w].pc = "ended"]
    /\ stored' = [t \in TableSet |-> (stored[t] \ writer[w].deleted[t])
                                      \cup (IF HasRows(t) THEN {w} ELSE {})]
    /\ UNCHANGED <<journey, log, crossed>>

-----------------------------------------------------------------------------
NextTraffic ==
    \/ \E p \in Catalog : Baseline(p) \/ Sizes(p) \/ Policy(p)
    \/ PolicyClicks
    \/ \E b \in OutfitBudgets : BeginOutfit(b)
    \/ \E n \in 1..3 : FillOutfitSlot(n)
    \/ PickOutfit
    \/ AddsToCart \/ ChecksOut \/ Orders \/ GivesUp \/ MaybeFeedback
    \/ ValidateSimulation
    \/ \E w \in Runs : \/ CountRows(w) \/ BeginReset(w) \/ FindRows(w) \/ DeleteRows(w)
                       \/ InsertRows(w) \/ WriteFails(w) \/ CommitRows(w)

SpecTraffic == InitTraffic /\ [][NextTraffic]_trafficVars
-----------------------------------------------------------------------------
(* Properties.                                                               *)

\* Type invariant.
TrafficTypeOK ==
    /\ journey.items \in Seq(Catalog) /\ journey.budget \in OutfitBudgets \cup {0}
    /\ writer \in [Runs -> [pc : {"new", "deletes", "waits", "inserts", "inserted", "ended"},
                            reset : BOOLEAN, at : 1..5, found : SUBSET ({0} \cup Runs),
                            deleted : [TableSet -> SUBSET ({0} \cup Runs)]]]
    /\ stored \in [TableSet -> SUBSET ({0} \cup Runs)]

\* Where a row of a type is in the journey, 0 if it has none.
RowAt(type) == SelectInSeq(log, LAMBDA r : r.type = type)

Amount(type) == SumOf([i \in DOMAIN log |-> IF log[i].type = type THEN log[i].price ELSE 0])

\* What a simulation stores is a shop's funnel: an order is of what was added to
\* the cart before and checked out for the same amount, an outfit keeps within
\* its budget and is of several pieces, the copilot's cart turn comes after its
\* adds, and a vote is about a turn.
JourneyHolds ==
    /\ RowAt("order") # 0 =>
          /\ 0 < RowAt("add_to_cart") /\ RowAt("add_to_cart") < RowAt("checkout_start")
          /\ RowAt("checkout_start") < RowAt("order")
          /\ Amount("add_to_cart") = Amount("order")
          /\ Amount("checkout_start") = Amount("order")
          /\ Amount("purchase_mock") = Amount("order")
          /\ journey.cohort = "outfit" => Len(journey.items) >= 2
    /\ journey.cohort = "outfit" => Amount("add_to_cart") <= journey.budget
    /\ RowAt("cart") # 0 => RowAt("copilot_add_to_cart") \in 1..RowAt("cart")
    /\ RowAt("vote") # 0 => RowAt("answered") \in 1..RowAt("vote")

\* What the simulator stores passes for a shop's funnel, for every draw.
StoredIsSound == (\E t \in TableSet : stored[t] \cap Runs # {}) => JourneyHolds

\* Two runs of the simulator at the same time, each of which may fail, reset or find
\* the rows of an earlier one, do not mix what they store: the shop has the orders
\* of one simulation, and every row of one alone unless a run that resets crossed
\* another.
OneSimulation ==
    HasRows("orders") =>
        /\ Cardinality(stored["orders"]) <= 1
        /\ ~crossed => \A t \in TableSet : Cardinality(stored[t]) <= 1
=============================================================================
