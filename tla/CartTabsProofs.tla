--------------------------- MODULE CartTabsProofs ---------------------------
(* Proofs about the cart, for any number of tabs, products, checkouts and   *)
(* edits.                                                                   *)
EXTENDS CartTabs, TLAPS

\* No cart that is saved, on its way between tabs or sent to the checkout holds
\* more of a product than was asked for.
NothingConjuredAnywhere ==
    /\ NothingConjured
    /\ store = NoCart \/ AtMost(store, given)
    /\ \A r \in Requests : AtMost(req[r].lines, given)

\* Only a page that has loaded hears from the others.
Listening == \A t \in Tabs \ loaded : inbox[t] = <<>>

\* A checkout somebody waits for is of a page that has loaded.
Awaited ==
    \A r \in Requests : /\ req[r].pc \in {"done", "refused"} => req[r].heard
                        /\ req[r].pc # "idle" /\ req[r].heard => req[r].tab \in loaded

Inv ==
    /\ TypeOK
    /\ Listening
    /\ Awaited
    /\ SettledTabShowsStore
    /\ NothingConjuredAnywhere

-----------------------------------------------------------------------------
\* The shop opens with empty carts in tabs that have loaded nothing.
LEMMA InitInv == Init => Inv
<1> SUFFICES ASSUME Init PROVE Inv
  OBVIOUS
<1>1. Empty \in Carts /\ \A n \in [Products -> Nat] : AtMost(Empty, n)
  BY DEF Empty, Carts, AtMost
<1>2. Idle \in Request /\ Idle.lines = Empty /\ Idle.pc = "idle"
  BY <1>1 DEF Idle, Request
<1>3. TypeOK
  BY <1>1, <1>2, CartAssumption DEF Init, TypeOK
<1>4. SettledTabShowsStore /\ Listening /\ Awaited
  BY <1>2 DEF Init, SettledTabShowsStore, Listening, Awaited
<1>5. NothingConjuredAnywhere
  BY <1>1, <1>2 DEF Init, NothingConjuredAnywhere, NothingConjured
<1>6. QED
  BY <1>3, <1>4, <1>5 DEF Inv

\* Asking for more keeps every bound.
LEMMA AtMostGrows ==
    ASSUME NEW c \in Carts, NEW m \in [Products -> Nat], NEW n \in [Products -> Nat],
           AtMost(c, m), \A p \in Products : m[p] <= n[p]
    PROVE  AtMost(c, n)
  BY DEF AtMost, Carts

\* An edit into a cart that holds at most n more of p than before keeps the
\* invariant.
LEMMA EditKeepsInv ==
    ASSUME Inv, NEW t \in Tabs, NEW p \in Products, NEW n \in Nat,
           NEW c \in Carts, Edit(t, c, p, n),
           c[p] <= items[t][p] + n \/ c[p] <= n,
           \A x \in Products \ {p} : c[x] = items[t][x]
    PROVE  Inv'
<1>1. /\ items' = [items EXCEPT ![t] = c]
      /\ unsaved' = unsaved \cup {t}
      /\ given' = [given EXCEPT ![p] = @ + n]
      /\ t \in loaded /\ acts < MaxActs /\ acts' = acts + 1
      /\ UNCHANGED <<loaded, store, inbox, paying, req, orders>>
  BY DEF Edit
<1>2. /\ given \in [Products -> Nat] /\ given' \in [Products -> Nat]
      /\ given'[p] = given[p] + n
      /\ \A x \in Products : given[x] <= given'[x]
  BY <1>1 DEF Inv, TypeOK
<1>3. TypeOK'
  BY <1>1, <1>2, CartAssumption DEF Inv, TypeOK
<1>4. SettledTabShowsStore' /\ Listening' /\ Awaited'
  BY <1>1 DEF Inv, TypeOK, SettledTabShowsStore, Listening, Awaited
<1>5. \A u \in Tabs : items[u] \in Carts /\ AtMost(items[u], given)
  BY DEF Inv, TypeOK, NothingConjuredAnywhere, NothingConjured
<1>6. AtMost(c, given')
  BY <1>1, <1>2, <1>5 DEF AtMost, Carts
<1>7. \A u \in Tabs : AtMost(items'[u], given')
  BY <1>1, <1>2, <1>5, <1>6, AtMostGrows DEF Inv, TypeOK
<1>8. \A u \in Tabs : \A i \in DOMAIN inbox'[u] : AtMost(inbox'[u][i], given')
  <2>1. \A u \in Tabs : \A i \in DOMAIN inbox[u] :
            inbox[u][i] \in Carts /\ AtMost(inbox[u][i], given)
    BY DEF Inv, TypeOK, NothingConjuredAnywhere, NothingConjured
  <2>2. QED
    BY <1>1, <1>2, <2>1, AtMostGrows
<1>9. \A x \in orders' : AtMost(x, given')
  <2>1. \A x \in orders : x \in Carts /\ AtMost(x, given)
    BY DEF Inv, TypeOK, NothingConjuredAnywhere, NothingConjured
  <2>2. QED
    BY <1>1, <1>2, <2>1, AtMostGrows
<1>10. store' = NoCart \/ AtMost(store', given')
  BY <1>1, <1>2, AtMostGrows DEF Inv, TypeOK, NothingConjuredAnywhere
<1>11. \A r \in Requests : AtMost(req'[r].lines, given')
  <2>1. \A r \in Requests : req[r].lines \in Carts /\ AtMost(req[r].lines, given)
    BY DEF Inv, TypeOK, Request, NothingConjuredAnywhere
  <2>2. QED
    BY <1>1, <1>2, <2>1, AtMostGrows
<1>12. QED
  BY <1>3, <1>4, <1>7, <1>8, <1>9, <1>10, <1>11
  DEF Inv, NothingConjuredAnywhere, NothingConjured

\* Requests nobody waits for keep their lines.
LEMMA UnheardKeeps ==
    ASSUME Inv, NEW R \in SUBSET Requests, Unheard(R)
    PROVE  /\ req' \in [Requests -> Request]
           /\ \A r \in Requests : req'[r].lines \in {req[r].lines, Empty}
           /\ \A r \in Requests \ R : req'[r] = req[r]
           /\ Awaited => \A r \in R : req'[r].pc = "idle"
                                      \/ (req'[r].pc = "sent" /\ ~req'[r].heard)
<1>1. \A r \in Requests : req[r] \in Request
  BY DEF Inv, TypeOK
<1>2. \A r \in Requests : /\ [req[r] EXCEPT !.heard = FALSE] \in Request
                          /\ [req[r] EXCEPT !.heard = FALSE].lines = req[r].lines
                          /\ [req[r] EXCEPT !.heard = FALSE].pc = req[r].pc
                          /\ [req[r] EXCEPT !.heard = FALSE].heard = FALSE
  BY <1>1 DEF Request
<1>3. Idle \in Request /\ Idle.lines = Empty /\ Idle.pc = "idle"
  BY DEF Idle, Request, Empty, Carts
<1>4. \A r \in Requests : req[r].pc \in {"idle", "sent", "done", "refused"}
  BY <1>1 DEF Request
<1> HIDE DEF Idle
<1>5. QED
  BY <1>1, <1>2, <1>3, <1>4 DEF Unheard

\* A reply keeps a request's lines.
LEMMA ReplyKeeps ==
    ASSUME Inv, NEW r \in Requests, NEW pc \in {"done", "refused"}, Reply(r, pc)
    PROVE  /\ req' \in [Requests -> Request]
           /\ \A q \in Requests : req'[q].lines \in {req[q].lines, Empty}
           /\ \A q \in Requests \ {r} : req'[q] = req[q]
           /\ req'[r].pc # "idle" =>
                  req[r].heard /\ req'[r].heard /\ req'[r].tab = req[r].tab
<1>1. req \in [Requests -> Request] /\ req[r] \in Request
  BY DEF Inv, TypeOK
<1>2. /\ [req[r] EXCEPT !.pc = pc] \in Request
      /\ [req[r] EXCEPT !.pc = pc].lines = req[r].lines
      /\ [req[r] EXCEPT !.pc = pc].heard = req[r].heard
      /\ [req[r] EXCEPT !.pc = pc].tab = req[r].tab
  BY <1>1 DEF Request
<1>3. Idle \in Request /\ Idle.lines = Empty /\ Idle.pc = "idle"
  BY DEF Idle, Request, Empty, Carts
<1>4. req' = [req EXCEPT ![r] = IF req[r].heard THEN [req[r] EXCEPT !.pc = pc] ELSE Idle]
  BY DEF Reply
<1> DEFINE y == [req[r] EXCEPT !.pc = pc]
<1> HIDE DEF Idle, y
<1>5. CASE req[r].heard
  <2>1. req' = [req EXCEPT ![r] = y]
    BY <1>4, <1>5 DEF y
  <2>2. y \in Request /\ y.lines = req[r].lines /\ y.heard /\ y.tab = req[r].tab
    BY <1>2, <1>5 DEF y
  <2>3. QED
    BY <1>1, <1>5, <2>1, <2>2
<1>6. CASE ~req[r].heard
  <2>1. req' = [req EXCEPT ![r] = Idle]
    BY <1>4, <1>6
  <2>2. QED
    BY <1>1, <1>3, <2>1
<1>7. QED
  BY <1>5, <1>6

\* A step that leaves the carts in the tabs, in storage and between them alone
\* and sends no new lines keeps the invariant.
LEMMA CheckoutKeepsInv ==
    ASSUME Inv, TypeOK', Awaited', UNCHANGED <<items, loaded, unsaved, store, inbox, given>>,
           \A r \in Requests :
               \/ req'[r].lines \in {req[r].lines, Empty}
               \/ \E t \in Tabs : req'[r].lines = items[t],
           \A c \in orders' \ orders : \E r \in Requests : c = req[r].lines
    PROVE  Inv'
<1>1. AtMost(Empty, given)
  BY DEF Inv, TypeOK, AtMost, Empty
<1>2. SettledTabShowsStore' /\ Listening'
  BY DEF Inv, SettledTabShowsStore, Listening
<1>3. \A r \in Requests : AtMost(req'[r].lines, given)
  BY <1>1 DEF Inv, NothingConjuredAnywhere, NothingConjured
<1>4. \A c \in orders' : AtMost(c, given)
  BY DEF Inv, NothingConjuredAnywhere, NothingConjured
<1>5. QED
  BY <1>2, <1>3, <1>4 DEF Inv, NothingConjuredAnywhere, NothingConjured, AtMost

\* What the shopper does with the cart keeps the invariant.
LEMMA ShopperEditsKeepInv ==
    ASSUME Inv, NEW t \in Tabs, NEW p \in Products, NEW q \in Nat,
           \/ AddToCart(t, p, q) \/ IncreaseQty(t, p) \/ DecreaseQty(t, p)
           \/ RemoveItem(t, p) \/ UpdateQty(t, p, q)
    PROVE  Inv'
<1>1. items[t] \in [Products -> Nat] /\ q \in Nat /\ LineCap \in Nat
  BY CartAssumption DEF Inv, TypeOK, Carts
<1>2. \A n \in Nat : /\ WithQty(items[t], p, n) \in Carts
                     /\ WithQty(items[t], p, n)[p] = n
                     /\ \A x \in Products \ {p} : WithQty(items[t], p, n)[x] = items[t][x]
  BY <1>1 DEF WithQty, Carts
<1>3. CASE AddToCart(t, p, q)
  BY <1>1, <1>2, <1>3, EditKeepsInv DEF AddToCart
<1>4. CASE IncreaseQty(t, p)
  BY <1>1, <1>2, <1>4, EditKeepsInv DEF IncreaseQty
<1>5. CASE DecreaseQty(t, p)
  <2>1. items[t][p] - 1 \in Nat /\ items[t][p] - 1 <= items[t][p] + 0
    BY <1>1, <1>5 DEF DecreaseQty, Lines
  <2>2. QED
    BY <1>2, <1>5, <2>1, EditKeepsInv DEF DecreaseQty
<1>6. CASE RemoveItem(t, p)
  BY <1>1, <1>2, <1>6, EditKeepsInv DEF RemoveItem
<1>7. CASE UpdateQty(t, p, q)
  <2> DEFINE n == IF q > LineCap THEN LineCap ELSE q
  <2>1. n \in Nat /\ Edit(t, WithQty(items[t], p, n), p, n)
    BY <1>1, <1>7 DEF UpdateQty
  <2> HIDE DEF n
  <2>2. QED
    BY <1>2, <2>1, EditKeepsInv
<1>8. QED
  BY <1>3, <1>4, <1>5, <1>6, <1>7

\* A step keeps the invariant: one step of the proof per action or group of them.
LEMMA NextInv == Inv /\ [Next]_vars => Inv'
<1> SUFFICES ASSUME Inv, [Next]_vars PROVE Inv'
  OBVIOUS
<1>t. /\ items \in [Tabs -> Carts] /\ inbox \in [Tabs -> Seq(Carts)]
      /\ req \in [Requests -> Request] /\ store \in Carts \cup {NoCart}
      /\ given \in [Products -> Nat]
  BY DEF Inv, TypeOK
<1>e. Empty \in Carts /\ AtMost(Empty, given)
  BY <1>t DEF Empty, Carts, AtMost
<1>b. /\ \A t \in Tabs : AtMost(items[t], given)
      /\ \A t \in Tabs : \A i \in DOMAIN inbox[t] : AtMost(inbox[t][i], given)
      /\ store = NoCart \/ AtMost(store, given)
  BY DEF Inv, NothingConjuredAnywhere, NothingConjured
<1>0. ASSUME NEW t \in Tabs, NEW p \in Products, NEW q \in Amounts,
             AddToCart(t, p, q) \/ UpdateQty(t, p, q)
      PROVE  Inv'
  <2>1. q \in Nat
    BY CartAssumption
  <2>2. QED
    BY <1>0, <2>1, ShopperEditsKeepInv
<1>1. ASSUME NEW t \in Tabs, NEW p \in Products,
             IncreaseQty(t, p) \/ DecreaseQty(t, p) \/ RemoveItem(t, p)
      PROVE  Inv'
  <2>1. 0 \in Nat
    OBVIOUS
  <2>2. QED
    BY <1>1, <2>1, ShopperEditsKeepInv
<1>2. ASSUME NEW t \in Tabs, Load(t)
      PROVE  Inv'
  <2>1. TypeOK'
    BY <1>2, <1>t, <1>e DEF Load, Inv, TypeOK
  <2>2. SettledTabShowsStore' /\ Listening' /\ Awaited'
    BY <1>2, <1>t DEF Load, Inv, SettledTabShowsStore, Listening, Awaited
  <2>3. \A u \in Tabs : AtMost(items'[u], given)
    BY <1>2, <1>t, <1>e, <1>b DEF Load
  <2>4. QED
    BY <1>2, <2>1, <2>2, <2>3 DEF Load, Inv, NothingConjuredAnywhere, NothingConjured, AtMost
<1>3. ASSUME NEW t \in Tabs, Save(t)
      PROVE  Inv'
  <2>1. PICK changed \in BOOLEAN :
            /\ items[t] # store => changed
            /\ inbox' = [u \in Tabs |-> IF changed /\ u \in loaded \ {t}
                                       THEN Append(inbox[u], items[t]) ELSE inbox[u]]
    BY <1>3 DEF Save
  <2>2. /\ t \in unsaved /\ unsaved' = unsaved \ {t} /\ store' = items[t]
        /\ UNCHANGED <<items, loaded, paying, req, orders, given, acts>>
    BY <1>3 DEF Save
  <2>3. \A u \in Tabs :
            /\ inbox'[u] \in Seq(Carts)
            /\ \A i \in DOMAIN inbox'[u] : AtMost(inbox'[u][i], given)
            /\ inbox'[u] = <<>> => inbox[u] = <<>> /\ (u \in loaded \ {t} => ~changed)
    <3> SUFFICES ASSUME NEW u \in Tabs
                 PROVE  /\ inbox'[u] \in Seq(Carts)
                        /\ \A i \in DOMAIN inbox'[u] : AtMost(inbox'[u][i], given)
                        /\ inbox'[u] = <<>> => inbox[u] = <<>> /\ (u \in loaded \ {t} => ~changed)
      OBVIOUS
    <3>1. inbox[u] \in Seq(Carts) /\ items[t] \in Carts /\ AtMost(items[t], given)
          /\ \A i \in DOMAIN inbox[u] : AtMost(inbox[u][i], given)
      BY <1>t, <1>b
    <3>2. CASE changed /\ u \in loaded \ {t}
      <4>1. inbox'[u] = Append(inbox[u], items[t])
        BY <2>1, <3>2
      <4>2. \A i \in DOMAIN inbox'[u] :
                inbox'[u][i] = items[t] \/ (i \in DOMAIN inbox[u] /\ inbox'[u][i] = inbox[u][i])
        BY <3>1, <4>1
      <4>3. inbox'[u] \in Seq(Carts) /\ inbox'[u] # <<>>
        BY <3>1, <4>1
      <4>4. QED
        BY <3>1, <4>2, <4>3
    <3>3. CASE ~(changed /\ u \in loaded \ {t})
      <4>1. inbox'[u] = inbox[u]
        BY <2>1, <3>3
      <4>2. QED
        BY <3>1, <3>3, <4>1
    <3>4. QED
      BY <3>2, <3>3
  <2>4. TypeOK'
    BY <1>t, <2>1, <2>2, <2>3 DEF Inv, TypeOK
  <2>5. SettledTabShowsStore' /\ Listening' /\ Awaited'
    BY <2>1, <2>2, <2>3 DEF Inv, TypeOK, SettledTabShowsStore, Listening, Awaited
  <2>6. QED
    BY <1>b, <2>2, <2>3, <2>4, <2>5
    DEF Inv, NothingConjuredAnywhere, NothingConjured, AtMost
<1>4. ASSUME NEW t \in Tabs, HandleStorage(t)
      PROVE  Inv'
  <2>0. t \in loaded
    BY <1>4 DEF HandleStorage, Inv, Listening
  <2>1. /\ Head(inbox[t]) \in Carts /\ AtMost(Head(inbox[t]), given)
        /\ Tail(inbox[t]) \in Seq(Carts)
        /\ \A i \in DOMAIN Tail(inbox[t]) : AtMost(Tail(inbox[t])[i], given)
    BY <1>4, <1>t, <1>b DEF HandleStorage
  <2>2. TypeOK'
    BY <1>4, <1>t, <2>0, <2>1 DEF HandleStorage, Inv, TypeOK
  <2>3. SettledTabShowsStore' /\ Listening' /\ Awaited'
    BY <1>4, <1>t, <2>0
    DEF HandleStorage, Inv, SettledTabShowsStore, Listening, Awaited
  <2>4. QED
    BY <1>4, <1>t, <2>1, <2>2, <2>3
    DEF HandleStorage, Inv, NothingConjuredAnywhere, NothingConjured, AtMost
<1>5. ASSUME NEW t \in Tabs, Reload(t)
      PROVE  Inv'
  <2>1. /\ req' \in [Requests -> Request]
        /\ \A r \in Requests : req'[r].lines \in {req[r].lines, Empty}
    BY <1>5, UnheardKeeps DEF Reload, Of
  <2>a. Awaited'
    <3>1. /\ \A r \in Requests \ Of(t) : req'[r] = req[r]
          /\ \A r \in Of(t) : req'[r].pc = "idle" \/ (req'[r].pc = "sent" /\ ~req'[r].heard)
      BY <1>5, UnheardKeeps DEF Reload, Of, Inv
    <3>2. loaded' = loaded \ {t}
      BY <1>5 DEF Reload
    <3>3. QED
      BY <3>1, <3>2 DEF Inv, Awaited, Of
  <2>2. acts' \in 0..MaxActs
    BY <1>5, CartAssumption DEF Reload, Inv, TypeOK
  <2>3. TypeOK'
    BY <1>5, <1>t, <1>e, <2>1, <2>2 DEF Reload, Inv, TypeOK
  <2>4. SettledTabShowsStore' /\ Listening'
    BY <1>5, <1>t DEF Reload, Inv, SettledTabShowsStore, Listening
  <2>5. \A r \in Requests : AtMost(req'[r].lines, given)
    BY <1>e, <2>1 DEF Inv, NothingConjuredAnywhere
  <2>6. /\ \A u \in Tabs : AtMost(items'[u], given)
        /\ \A u \in Tabs : \A i \in DOMAIN inbox'[u] : AtMost(inbox'[u][i], given)
    <3>1. \A u \in Tabs : /\ inbox'[u] \in {inbox[u], <<>>}
                         /\ items'[u] \in {items[u], Empty}
      BY <1>5, <1>t DEF Reload
    <3>2. QED
      BY <1>b, <1>e, <3>1
  <2>7. QED
    BY <1>5, <2>a, <2>3, <2>4, <2>5, <2>6
    DEF Reload, Inv, NothingConjuredAnywhere, NothingConjured, AtMost
<1>6. ASSUME NEW t \in Tabs, NEW r \in Requests, Pay(t, r)
      PROVE  Inv'
  <2> DEFINE x == [pc |-> "sent", tab |-> t, heard |-> TRUE, lines |-> items[t]]
  <2>1. x \in Request /\ x.lines = items[t] /\ x.pc = "sent" /\ x.tab = t
    BY <1>t DEF Request
  <2>2. req' = [req EXCEPT ![r] = x]
    BY <1>6 DEF Pay
  <2> HIDE DEF x
  <2>3. req' \in [Requests -> Request]
    BY <1>t, <2>1, <2>2
  <2>4. acts' \in 0..MaxActs
    BY <1>6, CartAssumption DEF Pay, Inv, TypeOK
  <2>5. TypeOK'
    BY <1>6, <2>3, <2>4 DEF Pay, Inv, TypeOK
  <2>6. \A q \in Requests : \/ req'[q].lines = req[q].lines
                            \/ req'[q].lines = items[t]
    BY <1>t, <2>1, <2>2
  <2>7. Awaited'
    BY <1>6, <1>t, <2>1, <2>2 DEF Pay, Inv, Awaited
  <2>8. QED
    BY <1>6, <2>5, <2>6, <2>7, CheckoutKeepsInv DEF Pay
<1>7. ASSUME NEW t \in Tabs, LeavePayPage(t)
      PROVE  Inv'
  <2>1. TypeOK' /\ Awaited'
    BY <1>7 DEF LeavePayPage, Inv, TypeOK, Awaited
  <2>2. QED
    BY <1>7, <2>1, CheckoutKeepsInv DEF LeavePayPage
<1>8. ASSUME NEW r \in Requests, ConfirmCheckout(r)
      PROVE  Inv'
  <2>1. /\ req' \in [Requests -> Request]
        /\ \A q \in Requests : req'[q].lines \in {req[q].lines, Empty}
    BY <1>8, ReplyKeeps DEF ConfirmCheckout
  <2>a. Awaited'
    <3>1. /\ \A q \in Requests \ {r} : req'[q] = req[q]
          /\ req'[r].pc # "idle" =>
                 req[r].heard /\ req'[r].heard /\ req'[r].tab = req[r].tab
      BY <1>8, ReplyKeeps DEF ConfirmCheckout
    <3>2. req[r].pc # "idle" /\ loaded' = loaded
      BY <1>8 DEF ConfirmCheckout
    <3>3. QED
      BY <3>1, <3>2 DEF Inv, Awaited
  <2>2. req[r].lines \in Carts
    BY <1>t DEF Request
  <2>3. TypeOK'
    BY <1>8, <2>1, <2>2 DEF ConfirmCheckout, Inv, TypeOK
  <2>4. QED
    BY <1>8, <2>a, <2>1, <2>3, CheckoutKeepsInv DEF ConfirmCheckout
<1>9. ASSUME NEW r \in Requests, RefuseCheckout(r)
      PROVE  Inv'
  <2>1. /\ req' \in [Requests -> Request]
        /\ \A q \in Requests : req'[q].lines \in {req[q].lines, Empty}
    BY <1>9, ReplyKeeps DEF RefuseCheckout
  <2>a. Awaited'
    <3>1. /\ \A q \in Requests \ {r} : req'[q] = req[q]
          /\ req'[r].pc # "idle" =>
                 req[r].heard /\ req'[r].heard /\ req'[r].tab = req[r].tab
      BY <1>9, ReplyKeeps DEF RefuseCheckout
    <3>2. req[r].pc # "idle" /\ loaded' = loaded
      BY <1>9 DEF RefuseCheckout
    <3>3. QED
      BY <3>1, <3>2 DEF Inv, Awaited
  <2>2. TypeOK'
    BY <1>9, <2>1 DEF RefuseCheckout, Inv, TypeOK
  <2>3. QED
    BY <1>9, <2>a, <2>1, <2>2, CheckoutKeepsInv DEF RefuseCheckout
<1>10. ASSUME NEW r \in Requests, ReceiveError(r)
       PROVE  Inv'
  <2>1. /\ req' \in [Requests -> Request]
        /\ \A q \in Requests : req'[q].lines \in {req[q].lines, Empty}
    BY <1>10, UnheardKeeps DEF ReceiveError
  <2>a. Awaited'
    <3>1. /\ \A q \in Requests \ {r} : req'[q] = req[q]
          /\ req'[r].pc = "idle" \/ (req'[r].pc = "sent" /\ ~req'[r].heard)
      BY <1>10, UnheardKeeps DEF ReceiveError, Inv
    <3>2. loaded' = loaded
      BY <1>10 DEF ReceiveError
    <3>3. QED
      BY <3>1, <3>2 DEF Inv, Awaited
  <2>2. TypeOK'
    BY <1>10, <2>1 DEF ReceiveError, Inv, TypeOK
  <2>3. QED
    BY <1>10, <2>a, <2>1, <2>2, CheckoutKeepsInv DEF ReceiveError
<1>11. ASSUME NEW r \in Requests, ReceiveOrder(r)
       PROVE  Inv'
  <2> DEFINE t == req[r].tab
  <2>1. /\ items' = [items EXCEPT ![t] = Empty]
        /\ unsaved' = IF items[t] = Empty THEN unsaved ELSE unsaved \cup {t}
        /\ req' = [req EXCEPT ![r] = Idle]
        /\ paying' = paying \ {t}
        /\ UNCHANGED <<loaded, store, inbox, orders, given, acts>>
        /\ t \in loaded
    BY <1>11 DEF ReceiveOrder, Inv, Awaited
  <2>2. Idle \in Request /\ Idle.lines = Empty /\ Idle.pc = "idle"
    BY <1>e DEF Idle, Request
  <2>3. TypeOK'
    BY <1>e, <2>1, <2>2 DEF Inv, TypeOK
  <2>4. SettledTabShowsStore' /\ Listening' /\ Awaited'
    BY <1>t, <2>1, <2>2 DEF Inv, TypeOK, SettledTabShowsStore, Listening, Awaited
  <2>5. \A u \in Tabs : AtMost(items'[u], given)
    BY <1>t, <1>b, <1>e, <2>1
  <2>6. \A q \in Requests : AtMost(req'[q].lines, given)
    BY <1>t, <1>e, <2>1, <2>2 DEF Inv, NothingConjuredAnywhere
  <2>7. QED
    BY <2>1, <2>3, <2>4, <2>5, <2>6
    DEF Inv, NothingConjuredAnywhere, NothingConjured, AtMost
<1>12. CASE UNCHANGED vars
  BY <1>12 DEF vars, Inv, TypeOK, Listening, Awaited, SettledTabShowsStore,
               NothingConjuredAnywhere, NothingConjured, AtMost
<1>13. QED
  BY <1>0, <1>1, <1>2, <1>3, <1>4, <1>5, <1>6, <1>7, <1>8, <1>9, <1>10, <1>11,
     <1>12
  DEF Next, Shopper

\* Whatever the tabs, reloads and responses do, every variable keeps its shape
\* and no quantity falls below zero.
THEOREM CartTypes == Spec => []TypeOK
<1>1. Inv => TypeOK
  BY DEF Inv
<1>2. QED
  BY <1>1, InitInv, NextInv, PTL DEF Spec

\* However many tabs edit, load and pay at the same time, a tab that has nothing
\* left to save or to hear shows the saved cart.
THEOREM SettledTabs == Spec => []SettledTabShowsStore
<1>1. Inv => SettledTabShowsStore
  BY DEF Inv
<1>2. QED
  BY <1>1, InitInv, NextInv, PTL DEF Spec

\* No tab, event or order ever holds more of a product than was asked for.
THEOREM NothingIsConjured == Spec => []NothingConjured
<1>1. Inv => NothingConjured
  BY DEF Inv, NothingConjuredAnywhere
<1>2. QED
  BY <1>1, InitInv, NextInv, PTL DEF Spec
=============================================================================
