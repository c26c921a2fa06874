------------------------------ MODULE CartTabs ------------------------------
(****************************************************************************)
(* The shop's cart: every tab keeps it in memory, saves it to localStorage  *)
(* after each change, takes over what another tab saved, and sends it to    *)
(* the checkout.                                                            *)
(*                                                                          *)
(* There is no merge and no version: the last tab to save decides.          *)
(****************************************************************************)
EXTENDS Integers, Sequences, FiniteSets

CONSTANTS
    Tabs,
    NoTab,
    Products,
    NoCart,    \* nothing saved yet
    Amounts,   \* quantities the shopper adds or types
    LineCap,   \* most units the quantity field and the checkout accept in a line
    Requests,  \* bound: checkouts under way at the same time
    MaxActs    \* bound: what the shopper does in a behaviour

\* A cart has a quantity for every product, 0 for one that has no line.
Carts == [Products -> Nat]

ASSUME CartAssumption ==
    /\ LineCap \in Nat \ {0}
    /\ Amounts \subseteq Nat
    /\ NoTab \notin Tabs
    /\ MaxActs \in Nat

VARIABLES
    items,    \* each tab's cart
    loaded,   \* tabs that have read the saved cart and listen to the others
    unsaved,  \* tabs that have not saved since their cart last changed
    store,    \* the cart in localStorage
    inbox,    \* storage events a tab has not handled yet
    paying,   \* tabs whose pay button is disabled
    req,      \* checkout requests
    orders,   \* the lines of the orders made
    given,    \* history: the units the shopper ever asked for, by product
    acts

vars == <<items, loaded, unsaved, store, inbox, paying, req, orders, given, acts>>

-----------------------------------------------------------------------------
Empty == [p \in Products |-> 0]

Lines(c) == {p \in Products : c[p] > 0}

AtMost(c, n) == \A p \in Products : c[p] <= n[p]

Request == [pc : {"idle", "sent", "done", "refused"}, tab : Tabs \cup {NoTab},
            heard : BOOLEAN, lines : Carts]

Idle == [pc |-> "idle", tab |-> NoTab, heard |-> FALSE, lines |-> Empty]

Init ==
    /\ items = [t \in Tabs |-> Empty]
    /\ loaded = {}
    /\ unsaved = {}
    /\ store = NoCart
    /\ inbox = [t \in Tabs |-> <<>>]
    /\ paying = {}
    /\ req = [r \in Requests |-> Idle]
    /\ orders = {}
    /\ given = [p \in Products |-> 0]
    /\ acts = 0

-----------------------------------------------------------------------------
(* The provider: load, save and the other tabs.                              *)

\* The first effect of a page: read the saved cart, then listen.
Load(t) ==
    /\ t \notin loaded
    /\ loaded' = loaded \cup {t}
    /\ items' = [items EXCEPT ![t] = IF store = NoCart THEN Empty ELSE store]
    /\ unsaved' = unsaved \cup {t}
    /\ UNCHANGED <<store, inbox, paying, req, orders, given, acts>>

\* Browsers tell the other tabs only of a value that changed; that may be the
\* order of the lines alone.
Save(t) ==
    /\ t \in unsaved
    /\ unsaved' = unsaved \ {t}
    /\ store' = items[t]
    /\ \E changed \in IF items[t] # store THEN {TRUE}
                      ELSE {FALSE, Cardinality(Lines(store)) > 1} :
          inbox' = [u \in Tabs |-> IF changed /\ u \in loaded \ {t}
                                  THEN Append(inbox[u], items[t]) ELSE inbox[u]]
    /\ UNCHANGED <<items, loaded, paying, req, orders, given, acts>>

\* Mutant: an event that carries an empty cart is ignored.
HandleStorageFull(t) ==
    /\ inbox[t] # <<>>
    /\ items' = [items EXCEPT ![t] = IF Head(inbox[t]) = Empty THEN @ ELSE Head(inbox[t])]
    /\ unsaved' = IF Head(inbox[t]) = Empty THEN unsaved ELSE unsaved \cup {t}
    /\ inbox' = [inbox EXCEPT ![t] = Tail(@)]
    /\ UNCHANGED <<loaded, store, paying, req, orders, given, acts>>

HandleStorage(t) ==
    /\ inbox[t] # <<>>
    /\ items' = [items EXCEPT ![t] = Head(inbox[t])]
    /\ unsaved' = unsaved \cup {t}
    /\ inbox' = [inbox EXCEPT ![t] = Tail(@)]
    /\ UNCHANGED <<loaded, store, paying, req, orders, given, acts>>

Unheard(R) ==
    req' = [r \in Requests |->
               IF r \notin R THEN req[r]
               ELSE IF req[r].pc = "done" \/ req[r].pc = "refused" THEN Idle
               ELSE [req[r] EXCEPT !.heard = FALSE]]

Of(t) == {r \in Requests : req[r].pc # "idle" /\ req[r].heard /\ req[r].tab = t}

Reload(t) ==
    /\ t \in loaded
    /\ acts < MaxActs
    /\ acts' = acts + 1
    /\ loaded' = loaded \ {t}
    /\ unsaved' = unsaved \ {t}
    /\ items' = [items EXCEPT ![t] = Empty]
    /\ inbox' = [inbox EXCEPT ![t] = <<>>]
    /\ paying' = paying \ {t}
    /\ Unheard(Of(t))
    /\ UNCHANGED <<store, orders, given>>

-----------------------------------------------------------------------------
(* What the shopper does with the cart.                                      *)

\* Edit a tab's cart into c, with n more units of p asked for.
Edit(t, c, p, n) ==
    /\ t \in loaded
    /\ acts < MaxActs
    /\ acts' = acts + 1
    /\ items' = [items EXCEPT ![t] = c]
    /\ unsaved' = unsaved \cup {t}
    /\ given' = [given EXCEPT ![p] = @ + n]
    /\ UNCHANGED <<loaded, store, inbox, paying, req, orders>>

WithQty(c, p, n) == [c EXCEPT ![p] = n]

\* Mutant: the updater changes the line it is given, so running it twice adds twice.
AddToCartImpure(t, p, q) ==
    Edit(t, WithQty(items[t], p, items[t][p] + 2 * q), p, q)

AddToCart(t, p, q) ==
    Edit(t, WithQty(items[t], p, items[t][p] + q), p, q)

IncreaseQty(t, p) ==
    /\ p \in Lines(items[t])
    /\ Edit(t, WithQty(items[t], p, items[t][p] + 1), p, 1)

DecreaseQty(t, p) ==
    /\ p \in Lines(items[t])
    /\ Edit(t, WithQty(items[t], p, items[t][p] - 1), p, 0)

RemoveItem(t, p) ==
    Edit(t, WithQty(items[t], p, 0), p, 0)

UpdateQty(t, p, n) ==
    LET clamped == IF n > LineCap THEN LineCap ELSE n
    IN  /\ p \in Lines(items[t])
        /\ Edit(t, WithQty(items[t], p, clamped), p, clamped)

-----------------------------------------------------------------------------
(* The checkout.                                                             *)

Pay(t, r) ==
    /\ t \in loaded \ paying
    /\ items[t] # Empty
    /\ req[r] = Idle
    /\ acts < MaxActs
    /\ acts' = acts + 1
    /\ paying' = paying \cup {t}
    /\ req' = [req EXCEPT ![r] = [pc |-> "sent", tab |-> t, heard |-> TRUE,
                                  lines |-> items[t]]]
    /\ UNCHANGED <<items, loaded, unsaved, store, inbox, orders, given>>

\* The shopper goes to another page: the button's state is gone, the request is not.
LeavePayPage(t) ==
    /\ t \in paying
    /\ paying' = paying \ {t}
    /\ UNCHANGED <<items, loaded, unsaved, store, inbox, req, orders, given, acts>>

Reply(r, pc) ==
    req' = [req EXCEPT ![r] = IF @.heard THEN [@ EXCEPT !.pc = pc] ELSE Idle]

ConfirmCheckout(r) ==
    /\ req[r].pc = "sent"
    /\ \A p \in Products : req[r].lines[p] <= LineCap
    /\ orders' = orders \cup {req[r].lines}
    /\ Reply(r, "done")
    /\ UNCHANGED <<items, loaded, unsaved, store, inbox, paying, given, acts>>

\* A line over the cap, an unknown product, a rate limit or an error.
RefuseCheckout(r) ==
    /\ req[r].pc = "sent"
    /\ Reply(r, "refused")
    /\ UNCHANGED <<items, loaded, unsaved, store, inbox, paying, orders, given, acts>>

\* The confirmation page clears the cart as it is then.
ReceiveOrder(r) ==
    LET t == req[r].tab
    IN  /\ req[r].pc = "done"
        /\ items' = [items EXCEPT ![t] = Empty]
        /\ unsaved' = IF items[t] = Empty THEN unsaved ELSE unsaved \cup {t}
        /\ paying' = paying \ {t}
        /\ req' = [req EXCEPT ![r] = Idle]
        /\ UNCHANGED <<loaded, store, inbox, orders, given, acts>>

\* A refusal, a lost response or a confirmation page that fails keeps the cart.
ReceiveError(r) ==
    /\ req[r].pc # "idle"
    /\ req[r].heard
    /\ paying' = paying \ {req[r].tab}
    /\ Unheard({r})
    /\ UNCHANGED <<items, loaded, unsaved, store, inbox, orders, given, acts>>

-----------------------------------------------------------------------------
Shopper(t) ==
    \/ \E p \in Products, q \in Amounts \ {0} : AddToCart(t, p, q)
    \/ \E p \in Products : IncreaseQty(t, p) \/ DecreaseQty(t, p) \/ RemoveItem(t, p)
    \/ \E p \in Products, n \in Amounts : UpdateQty(t, p, n)
    \/ \E r \in Requests : Pay(t, r)
    \/ LeavePayPage(t)
    \/ Reload(t)

Next ==
    \/ \E t \in Tabs : Shopper(t) \/ Load(t) \/ Save(t) \/ HandleStorage(t)
    \/ \E r \in Requests : \/ ConfirmCheckout(r)
                           \/ RefuseCheckout(r)
                           \/ ReceiveOrder(r)
                           \/ ReceiveError(r)

Spec == Init /\ [][Next]_vars

\* A page runs its effects and handles the events it gets.
FairSpec ==
    /\ Spec
    /\ \A t \in Tabs : WF_vars(Load(t)) /\ WF_vars(Save(t)) /\ WF_vars(HandleStorage(t))

-----------------------------------------------------------------------------
(* Properties.                                                               *)

\* Type invariant; in particular no quantity falls below zero.
TypeOK ==
    /\ items \in [Tabs -> Carts]
    /\ loaded \subseteq Tabs
    /\ unsaved \subseteq loaded
    /\ store \in Carts \cup {NoCart}
    /\ inbox \in [Tabs -> Seq(Carts)]
    /\ paying \subseteq loaded
    /\ req \in [Requests -> Request]
    /\ orders \subseteq Carts
    /\ given \in [Products -> Nat]
    /\ acts \in 0..MaxActs

\* A tab that has saved its changes and has handled what the others told it
\* shows the saved cart, whatever the tabs did at the same time: it needs the
\* write after a load and after an event, and the events of every other write.
SettledTabShowsStore ==
    \A t \in loaded \ unsaved : inbox[t] = <<>> => items[t] = store

\* However carts travel between tabs, reloads, retries and orders, none holds
\* more of a product than the shopper ever asked for: taking over a cart
\* replaces the own one and counts nothing twice.
NothingConjured ==
    /\ \A t \in Tabs : /\ AtMost(items[t], given)
                       /\ \A i \in DOMAIN inbox[t] : AtMost(inbox[t][i], given)
    /\ \A c \in orders : AtMost(c, given)

\* When the shopper stops, the tabs come to show the same cart.
TabsComeToAgree ==
    <>[](\A t, u \in Tabs : items[t] = items[u])
=============================================================================
