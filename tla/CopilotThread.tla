---------------------------- MODULE CopilotThread ----------------------------
(****************************************************************************)
(* One conversation of the shop's copilot: the browser tabs that show it,   *)
(* the HTTP requests they make, the agent graph each request runs and the   *)
(* saved thread (the checkpoint) the requests share.                        *)
(*                                                                          *)
(* A chat message starts a turn.  The model may ask for tools; a call of    *)
(* add_to_cart for a product that exists stops the turn until the shopper   *)
(* answers a card, and the answer is another request, which continues the   *)
(* turn.  Cart adds travel back in the response of the request that ran     *)
(* them and the browser puts them in its cart.                              *)
(*                                                                          *)
(* A run works on its own copy of the thread and saves it after every step, *)
(* so the thread is the copy of whoever saved last.                         *)
(****************************************************************************)
EXTENDS Naturals, FiniteSets, Sequences, FiniteSetsExt

CONSTANTS
    Requests,       \* HTTP requests of this conversation
    NoRequest,
    Tabs,           \* browser tabs that have the conversation open
    Products,       \* (ASIN, size) pairs add_to_cart can be called for
    Lookup,         \* a call of any tool that only reads
    Flag,           \* a call of flag_unanswered
    Batches,        \* the tool-call lists the model may produce in one message
    LineCap,        \* 99: the most a card row or one call may hold
    MaxModelCalls,  \* MAX_MODEL_CALLS
    MaxMessages,    \* bound: model messages with tool calls in a behaviour
    CatalogEvents,  \* "list", "delist": what the shop does meanwhile
    Faults          \* "fail", "restart", "lose", "reload"

Targets == Products \cup {Lookup, Flag}
MsgIds  == 1..MaxMessages

ASSUME NamesAssumption ==
    /\ NoRequest \notin Requests
    /\ Lookup \notin Products
    /\ Flag \notin Products
    /\ Lookup # Flag

ASSUME BoundsAssumption ==
    /\ LineCap \in Nat \ {0}
    /\ MaxModelCalls \in Nat \ {0}
    /\ MaxMessages \in Nat

ASSUME BatchesAssumption ==
    Batches \subseteq Seq([what : Targets, qty : Nat])

ASSUME EventsAssumption ==
    /\ CatalogEvents \subseteq {"list", "delist"}
    /\ Faults \subseteq {"fail", "restart", "lose", "reload"}

VARIABLES
    ckpt,      \* the saved thread
    run,       \* each request's run of the graph
    tab,       \* what each tab waits for and which card it shows
    saved,     \* the card in the chat history the tabs share (localStorage)
    catalog,   \* the products the shop has now
    asked,     \* model messages with tool calls so far; the newest id
    rows,      \* the copilot_turns row a request wrote
    cart,      \* cart adds the browser has applied
    \* history, read by the properties only
    shown,     \* items that were on a card
    consented, \* items on a card whose yes button was clicked
    approved,  \* items of a saved request, and the yes the server took for it
    added,     \* items add_to_cart ran for, by which request, for which turn
    llmUsed    \* model calls made for each turn

vars == <<ckpt, run, tab, saved, catalog, asked, rows, cart,
          shown, consented, approved, added, llmUsed>>

-----------------------------------------------------------------------------
(* An item is the arguments of a call, named by the message and place it was *)
(* asked at.  A yes puts a card's item in the call that hangs, so a call's   *)
(* item may come from another message than the call.                        *)
Item == [msg : MsgIds, pos : Nat, what : Targets, qty : Nat]

Call == [msg : MsgIds, turn : Requests \cup {NoRequest}, item : Item,
         status : {"open", "ran", "missing", "error", "orphan"}]

Approval == [item : Item, by : Requests]
Added    == [item : Item, by : Requests, turn : Requests \cup {NoRequest}]

State == [next  : {"none", "begin", "model", "pause", "tools", "end"},
          turn  : Requests \cup {NoRequest},
          msg   : MsgIds \cup {0},
          calls : SUBSET Call,
          pause : SUBSET Item,
          carry : Nat,
          how   : {"none", "guardrail", "capped", "answered"}]

Run == [pc      : {"idle", "resuming", "running", "replied", "failed",
                   "refused", "closed"},
        kind    : {"chat", "yes", "no"},
        st      : State,
        decided : SUBSET Item,
        carried : Nat,
        calls   : Nat,
        acts    : SUBSET Added]

Row   == [turn : Requests \cup {NoRequest}, used : Nat,
          outcome : {"none", "error", "guardrail", "cart", "unanswered",
                     "answered"}]
NoRow == [turn |-> NoRequest, used |-> 0, outcome |-> "none"]

Tab == [busy : Requests \cup {NoRequest}, card : SUBSET Item]

NoThread == [next |-> "none", turn |-> NoRequest, msg |-> 0, calls |-> {},
             pause |-> {}, carry |-> 0, how |-> "none"]

NoRun == [pc |-> "idle", kind |-> "chat", st |-> NoThread, decided |-> {},
          carried |-> 0, calls |-> 0, acts |-> {}]

\* What is left of a request nobody waits for any more.
Gone == [NoRun EXCEPT !.pc = "closed"]

Init ==
    /\ ckpt = NoThread
    /\ run = [r \in Requests |-> NoRun]
    /\ tab = [t \in Tabs |-> [busy |-> NoRequest, card |-> {}]]
    /\ saved = {}
    /\ catalog \in SUBSET Products
    /\ asked = 0
    /\ rows = [r \in Requests |-> NoRow]
    /\ cart = {}
    /\ shown = {}
    /\ consented = {}
    /\ approved = {}
    /\ added = {}
    /\ llmUsed = [r \in Requests |-> 0]

-----------------------------------------------------------------------------
IsCart(item) == item.what \in Products

Open(s) == {c \in s.calls : c.status = "open"}

\* The tool list of the newest model message: what the tools node works on.
Hanging(s) == {c \in Open(s) : c.msg = s.msg}

Heard(r) == \E t \in Tabs : tab[t].busy = r

\* Request r ends with outcome pc.
End(r, pc) ==
    run' = [run EXCEPT ![r] = IF Heard(r) THEN [@ EXCEPT !.pc = pc] ELSE Gone]

\* Mutant: the thread is saved only when a run stops.
SaveAtExit(r, x, s) ==
    /\ ckpt' = IF s.next \in {"begin", "pause", "end"} THEN s ELSE ckpt
    /\ run' = [run EXCEPT ![r] = [x EXCEPT !.st = s]]

\* One node of the graph ran for r: its copy is saved as the thread.
Save(r, x, s) ==
    /\ ckpt' = s
    /\ run' = [run EXCEPT ![r] = [x EXCEPT !.st = s]]

\* Mutant: a declined call counts as a tool the turn used.
ToolEvenDeclined(name, s) ==
    \E c \in s.calls : c.turn = s.turn /\ IF name = "cart" THEN IsCart(c.item)
                                          ELSE c.item.what = Flag

\* A call of this turn whose result is not an error.
Tool(name, s) ==
    \E c \in s.calls : /\ c.turn = s.turn
                       /\ c.status # "error"
                       /\ IF name = "cart" THEN IsCart(c.item)
                                           ELSE c.item.what = Flag

Outcome(s) ==
    IF s.how = "guardrail" THEN "guardrail"
    ELSE IF Tool("cart", s) THEN "cart"
    ELSE IF Tool("flag", s) \/ s.how = "capped" THEN "unanswered"
    ELSE "answered"

\* Mutant: only this request's calls.
TotalsOfRequest(x) == x.calls

\* Model calls of the whole turn, earlier requests included.
Totals(x) == x.carried + x.calls

-----------------------------------------------------------------------------
(* The browser: a message, an answer to a card, and what comes back.         *)

\* Mutant: a message may be sent while the tab waits.
SendChatAnyTime(t, r) ==
    /\ run[r].pc = "idle"
    /\ tab' = [tab EXCEPT ![t] = [busy |-> r, card |-> {}]]
    /\ saved' = {}
    /\ Save(r, [NoRun EXCEPT !.pc = "running"],
            [ckpt EXCEPT !.next = "begin", !.turn = r, !.pause = {}, !.how = "none"])
    /\ UNCHANGED <<catalog, asked, rows, cart, shown, consented, approved,
                   added, llmUsed>>

SendChat(t, r) ==
    LET s == [ckpt EXCEPT !.next = "begin", !.turn = r, !.pause = {},
                          !.how = "none"]
    IN  /\ tab[t].busy = NoRequest
        /\ run[r].pc = "idle"
        /\ tab' = [tab EXCEPT ![t] = [busy |-> r, card |-> {}]]
        /\ saved' = {}
        /\ Save(r, [NoRun EXCEPT !.pc = "running"], s)
        /\ UNCHANGED <<catalog, asked, rows, cart, shown, consented,
                       approved, added, llmUsed>>

\* The click, and the resume request reading the saved thread.  The decisions
\* it prepares are those of the request it finds there.
AnswerCard(t, r, yes) ==
    LET pending == ckpt.pause # {}
    IN  /\ tab[t].busy = NoRequest
        /\ tab[t].card # {}
        /\ run[r].pc = "idle"
        /\ tab' = [tab EXCEPT ![t].busy = r]
        /\ saved' = {}
        /\ run' = [run EXCEPT ![r] =
               [NoRun EXCEPT !.pc      = IF pending THEN "resuming" ELSE "refused",
                             !.kind    = IF yes THEN "yes" ELSE "no",
                             !.decided = ckpt.pause,
                             !.carried = ckpt.carry]]
        /\ consented' = IF yes THEN consented \cup tab[t].card ELSE consented
        /\ approved' = IF yes
                       THEN approved \cup {[item |-> i, by |-> r] : i \in ckpt.pause}
                       ELSE approved
        /\ UNCHANGED <<ckpt, catalog, asked, rows, cart, shown, added, llmUsed>>

\* A finished request reaches its tab.  A failed answer puts the card back, a
\* refused one expires it.
Deliver(t) ==
    LET r    == tab[t].busy
        x    == run[r]
        card == IF x.pc = "replied" THEN x.st.pause
                ELSE IF x.pc = "failed" THEN tab[t].card ELSE {}
    IN  /\ r # NoRequest
        /\ x.pc \in {"replied", "failed", "refused"}
        /\ tab' = [tab EXCEPT ![t] = [busy |-> NoRequest, card |-> card]]
        /\ saved' = card
        /\ run' = [run EXCEPT ![r] = Gone]
        /\ cart' = IF x.pc = "replied" THEN cart \cup x.acts ELSE cart
        /\ shown' = shown \cup card
        /\ UNCHANGED <<ckpt, catalog, asked, rows, consented, approved, added,
                       llmUsed>>

\* Nobody waits for what tab t was waiting for.
Leave(t) ==
    run' = [r \in Requests |->
               IF tab[t].busy = r /\ run[r].pc \in {"replied", "failed", "refused"}
               THEN Gone ELSE run[r]]

\* The connection breaks: the tab reports an error and the run goes on.
LoseReply(t) ==
    /\ "lose" \in Faults
    /\ tab[t].busy # NoRequest
    /\ tab' = [tab EXCEPT ![t].busy = NoRequest]
    /\ saved' = tab[t].card
    /\ Leave(t)
    /\ UNCHANGED <<ckpt, catalog, asked, rows, cart, shown, consented,
                   approved, added, llmUsed>>

\* The page is loaded (again): whatever it waited for is gone and the card is
\* the one in the shared history.
Reload(t) ==
    /\ "reload" \in Faults
    /\ tab' = [tab EXCEPT ![t] = [busy |-> NoRequest, card |-> saved]]
    /\ shown' = shown \cup saved
    /\ Leave(t)
    /\ UNCHANGED <<ckpt, saved, catalog, asked, rows, cart, consented,
                   approved, added, llmUsed>>

-----------------------------------------------------------------------------
(* The graph, one node or chain of nodes at a time.                          *)

At(r, next) == run[r].pc = "running" /\ run[r].st.next = next

GuardrailReplies(r) ==
    /\ At(r, "begin")
    /\ Save(r, run[r], [run[r].st EXCEPT !.next = "end", !.how = "guardrail"])
    /\ UNCHANGED <<tab, saved, catalog, asked, rows, cart, shown, consented,
                   approved, added, llmUsed>>

\* Mutant: a message some of whose calls have a result is left alone.
CleanedIfAllOpen(s) ==
    LET partly == {c.msg : c \in s.calls \ Open(s)}
    IN  [s EXCEPT !.calls = {c \in @ : c.status # "open" \/ c.msg \in partly}]

\* A model message with an unanswered call is replaced by a note: its calls
\* go, and the results some of them had stay behind.
Cleaned(s) ==
    LET dangling == {c.msg : c \in Open(s)}
    IN  [s EXCEPT
            !.calls = {IF c.msg \in dangling THEN [c EXCEPT !.status = "orphan"]
                                             ELSE c : c \in s.calls \ Open(s)},
            !.carry = IF dangling = {} THEN s.carry ELSE 0]

GuardrailPasses(r) ==
    /\ At(r, "begin")
    /\ Save(r, run[r], [Cleaned(run[r].st) EXCEPT !.next = "model"])
    /\ UNCHANGED <<tab, saved, catalog, asked, rows, cart, shown, consented,
                   approved, added, llmUsed>>

\* Mutants: the cap lets one call more through; there is none.
CappedLate(x) == x.calls > MaxModelCalls

Uncapped(x) == FALSE

\* The run has used up its model calls.  Only its own count: a turn that was
\* resumed starts over.
Capped(x) == x.calls >= MaxModelCalls

\* The model is called once more for this turn.
CallModel(r, s) ==
    /\ At(r, "model")
    /\ ~Capped(run[r])
    /\ Save(r, [run[r] EXCEPT !.calls = @ + 1], s)
    /\ llmUsed' = [llmUsed EXCEPT ![run[r].st.turn] = @ + 1]

ModelAnswers(r) ==
    /\ CallModel(r, [run[r].st EXCEPT !.next = "end", !.how = "answered",
                                      !.carry = 0])
    /\ UNCHANGED <<tab, saved, catalog, asked, rows, cart, shown, consented,
                   approved, added>>

LoopCapReplies(r) ==
    /\ At(r, "model")
    /\ Capped(run[r])
    /\ Save(r, run[r], [run[r].st EXCEPT !.next = "end", !.how = "capped",
                                         !.carry = 0])
    /\ UNCHANGED <<tab, saved, catalog, asked, rows, cart, shown, consented,
                   approved, added, llmUsed>>

\* The card quantity of a call: 1 to LineCap.
Clamp(q) == IF q < 1 THEN 1 ELSE IF q > LineCap THEN LineCap ELSE q

\* The arguments of the i-th call of a batch; those of a product the shop has
\* are resolved, and are what the card shows.
Asked(m, b, i) ==
    [msg |-> m, pos |-> i, what |-> b[i].what,
     qty |-> IF b[i].what \in catalog THEN Clamp(b[i].qty) ELSE b[i].qty]

\* The model asks for tools.  A batch with a cart call saves what the turn has
\* used, and stops at the approval if it names a product the shop has.
ModelAsksForTools(r, b) ==
    LET m     == asked + 1
        items == {Asked(m, b, i) : i \in 1..Len(b)}
        ask   == {i \in items : i.what \in catalog}
        s     == run[r].st
    IN  /\ asked < MaxMessages
        /\ b # <<>>
        /\ CallModel(r,
              [s EXCEPT
                 !.next  = IF ask = {} THEN "tools" ELSE "pause",
                 !.msg   = m,
                 !.calls = @ \cup {[msg |-> m, turn |-> s.turn, item |-> i,
                                    status |-> "open"] : i \in items},
                 !.pause = ask,
                 !.carry = IF \E i \in items : IsCart(i)
                           THEN Totals(run[r]) + 1 ELSE @])
        /\ asked' = m
        /\ UNCHANGED <<tab, saved, catalog, rows, cart, shown, consented,
                       approved, added>>

\* Mutant: the cart tool trusts the call.
ResultUnchecked(item) == "ran"

\* What a call's result says.  The cart tool reads the catalog again.
Result(item) ==
    IF ~IsCart(item) THEN "ran"
    ELSE IF item.qty \notin 1..LineCap THEN "error"
    ELSE IF item.what \in catalog THEN "ran"
    ELSE "missing"

RunTools(r) ==
    LET s    == run[r].st
        todo == Hanging(s)
        adds == {[item |-> c.item, by |-> r, turn |-> s.turn] :
                    c \in {d \in todo : IsCart(d.item) /\ Result(d.item) = "ran"}}
    IN  /\ At(r, "tools")
        /\ Save(r, [run[r] EXCEPT !.acts = @ \cup adds],
              [s EXCEPT !.next  = "model",
                        !.calls = (@ \ todo) \cup
                            {[c EXCEPT !.status = Result(c.item)] : c \in todo}])
        /\ added' = added \cup adds
        /\ UNCHANGED <<tab, saved, catalog, asked, rows, cart, shown,
                       consented, approved, llmUsed>>

-----------------------------------------------------------------------------
(* The end of a request.                                                     *)

\* Mutant: a resumed turn is not recorded.
RecordedChat(r) == run[r].kind = "chat" /\ Heard(r)

\* A streamed turn whose client left is not recorded; an answer always is.
Recorded(r) == run[r].kind # "chat" \/ Heard(r)

Finish(r) ==
    /\ At(r, "end")
    /\ End(r, "replied")
    /\ rows' = IF Recorded(r)
               THEN [rows EXCEPT ![r] = [turn    |-> run[r].st.turn,
                                         used    |-> Totals(run[r]),
                                         outcome |-> Outcome(run[r].st)]]
               ELSE rows
    /\ UNCHANGED <<ckpt, tab, saved, catalog, asked, cart, shown, consented,
                   approved, added, llmUsed>>

\* Mutants: a pause writes the turn's row; its response leaves out the adds that
\* ran; a second pause of a turn is not recognised.
ReplyWithCardRecorded(r) ==
    /\ At(r, "pause")
    /\ End(r, "replied")
    /\ rows' = [rows EXCEPT ![r] = [turn |-> run[r].st.turn, outcome |-> "cart",
                                    used |-> Totals(run[r])]]
    /\ UNCHANGED <<ckpt, tab, saved, catalog, asked, cart, shown, consented,
                   approved, added, llmUsed>>

ReplyWithCardOnly(r) ==
    /\ At(r, "pause")
    /\ run' = [run EXCEPT ![r].pc = "replied", ![r].acts = {}]
    /\ UNCHANGED <<ckpt, tab, saved, catalog, asked, rows, cart, shown,
                   consented, approved, added, llmUsed>>

ReplyWithFirstCard(r) ==
    /\ At(r, "pause")
    /\ run[r].kind = "chat"
    /\ End(r, "replied")
    /\ UNCHANGED <<ckpt, tab, saved, catalog, asked, rows, cart, shown,
                   consented, approved, added, llmUsed>>

ReplyWithCard(r) ==
    /\ At(r, "pause")
    /\ End(r, "replied")
    /\ UNCHANGED <<ckpt, tab, saved, catalog, asked, rows, cart, shown,
                   consented, approved, added, llmUsed>>

Fail(r) ==
    /\ End(r, "failed")
    /\ rows' = IF Recorded(r)
               THEN [rows EXCEPT ![r] = [turn    |-> run[r].st.turn,
                                         used    |-> Totals(run[r]),
                                         outcome |-> "error"]]
               ELSE rows
    /\ UNCHANGED <<ckpt, tab, saved, catalog, asked, cart, shown, consented,
                   approved, added, llmUsed>>

\* The model or the database fails in the middle of a node.
RunFails(r) ==
    /\ "fail" \in Faults
    /\ \/ run[r].pc = "resuming"
       \/ \E next \in {"begin", "model", "tools"} : At(r, next)
    /\ Fail(r)

\* The API process restarts: no run survives and none writes a row.
Restart ==
    /\ "restart" \in Faults
    /\ \E r \in Requests : run[r].pc \in {"resuming", "running"}
    /\ run' = [r \in Requests |->
                  IF run[r].pc \in {"resuming", "running"}
                  THEN IF Heard(r) THEN [run[r] EXCEPT !.pc = "failed"] ELSE Gone
                  ELSE run[r]]
    /\ UNCHANGED <<ckpt, tab, saved, catalog, asked, rows, cart, shown,
                   consented, approved, added, llmUsed>>

-----------------------------------------------------------------------------
(* The answer to a card: the paused node runs again from its start, on the   *)
(* thread as it is by then.                                                  *)

\* The n-th decision answers the n-th hanging call.
Zips(P, D) ==
    {z \in [P -> D] :
        /\ \A d \in D : \E p \in P : z[p] = d
        /\ \A p, q \in P : p.pos < q.pos => z[p].pos < z[q].pos}

IsPaused(c, P) == c.status = "open" /\ c.item \in P

\* Mutant: an approved call is answered without running it.
ApprovedStateSkips(s, z) == [s EXCEPT !.next = "model", !.pause = {}]

ApprovedState(s, z) ==
    [s EXCEPT !.next  = "tools",
              !.pause = {},
              !.calls = {IF IsPaused(c, s.pause)
                         THEN [c EXCEPT !.item = z[c.item]] ELSE c : c \in @}]

\* Mutant: a declined call gets no result.
DeclinedStateForgets(s) == [s EXCEPT !.next = "tools", !.pause = {}]

DeclinedState(s) ==
    LET calls == {IF IsPaused(c, s.pause)
                  THEN [c EXCEPT !.status = "error"] ELSE c : c \in s.calls}
    IN  [s EXCEPT !.next  = IF \E c \in calls : c.status = "open"
                                                /\ c.msg = s.msg
                            THEN "tools" ELSE "model",
                  !.pause = {},
                  !.calls = calls]

ResumeApproved(r) ==
    /\ run[r].pc = "resuming"
    /\ run[r].kind = "yes"
    /\ ckpt.next = "pause"
    /\ \E z \in Zips(ckpt.pause, run[r].decided) :
          Save(r, [run[r] EXCEPT !.pc = "running"], ApprovedState(ckpt, z))
    /\ UNCHANGED <<tab, saved, catalog, asked, rows, cart, shown, consented,
                   approved, added, llmUsed>>

ResumeDeclined(r) ==
    /\ run[r].pc = "resuming"
    /\ run[r].kind = "no"
    /\ ckpt.next = "pause"
    /\ Zips(ckpt.pause, run[r].decided) # {}
    /\ Save(r, [run[r] EXCEPT !.pc = "running"], DeclinedState(ckpt))
    /\ UNCHANGED <<tab, saved, catalog, asked, rows, cart, shown, consented,
                   approved, added, llmUsed>>

\* Another request was asked meanwhile, with another number of calls.
ResumeMismatch(r) ==
    /\ run[r].pc = "resuming"
    /\ ckpt.next = "pause"
    /\ Zips(ckpt.pause, run[r].decided) = {}
    /\ Fail(r)

\* The thread no longer waits: the run goes on from where the thread is.
ResumeElsewhere(r) ==
    /\ run[r].pc = "resuming"
    /\ ckpt.next # "pause"
    /\ Save(r, [run[r] EXCEPT !.pc = "running"], ckpt)
    /\ UNCHANGED <<tab, saved, catalog, asked, rows, cart, shown, consented,
                   approved, added, llmUsed>>

-----------------------------------------------------------------------------
ListProduct ==
    /\ "list" \in CatalogEvents
    /\ \E p \in Products \ catalog : catalog' = catalog \cup {p}
    /\ UNCHANGED <<ckpt, run, tab, saved, asked, rows, cart, shown, consented,
                   approved, added, llmUsed>>

DelistProduct ==
    /\ "delist" \in CatalogEvents
    /\ \E p \in catalog : catalog' = catalog \ {p}
    /\ UNCHANGED <<ckpt, run, tab, saved, asked, rows, cart, shown, consented,
                   approved, added, llmUsed>>

\* What the server does for a request by itself, whatever the model prefers.
ServerWorks(r) ==
    \/ GuardrailReplies(r)
    \/ GuardrailPasses(r)
    \/ LoopCapReplies(r)
    \/ \E b \in Batches : ModelAsksForTools(r, b)
    \/ RunTools(r)
    \/ Finish(r)
    \/ ReplyWithCard(r)
    \/ ResumeApproved(r)
    \/ ResumeDeclined(r)
    \/ ResumeMismatch(r)
    \/ ResumeElsewhere(r)

ServerStep(r) == ServerWorks(r) \/ ModelAnswers(r)

TabStep(t) ==
    \/ \E r \in Requests : SendChat(t, r)
    \/ \E r \in Requests, yes \in BOOLEAN : AnswerCard(t, r, yes)
    \/ Deliver(t)
    \/ LoseReply(t)
    \/ Reload(t)

Next ==
    \/ \E r \in Requests : ServerStep(r) \/ RunFails(r)
    \/ \E t \in Tabs : TabStep(t)
    \/ Restart
    \/ ListProduct
    \/ DelistProduct

Spec == Init /\ [][Next]_vars

\* The server runs each request it has taken; a tab handles what it receives.  The
\* model need not ever stop asking for tools: only the cap ends such a run.
FairSpec ==
    /\ Spec
    /\ \A r \in Requests : WF_vars(ServerWorks(r))
    /\ \A t \in Tabs : WF_vars(Deliver(t))
-----------------------------------------------------------------------------
(* Properties.                                                               *)

\* Type invariant: every variable keeps its shape.
TypeOK ==
    /\ ckpt \in State
    /\ run \in [Requests -> Run]
    /\ tab \in [Tabs -> Tab]
    /\ saved \subseteq Item
    /\ catalog \subseteq Products
    /\ asked \in 0..MaxMessages
    /\ rows \in [Requests -> Row]
    /\ cart \subseteq Added
    /\ shown \subseteq Item
    /\ consented \subseteq Item
    /\ approved \subseteq Approval
    /\ added \subseteq Added
    /\ llmUsed \in [Requests -> Nat]

\* Whatever the interleaving of tabs, failures and retries, an item is added
\* only if the server took a yes for a saved request that held this very item:
\* a new message, a decline or a failed run never lets a waiting call through.
\* (It needs a shop that lists nothing new between the question and the tool.)
AddsWereApproved == \A a \in added : \E y \in approved : y.item = a.item

\* What the shopper saw is what runs: every item added was on a card whose yes
\* was clicked.  Stronger than AddsWereApproved, for the server answers the
\* request it finds, not the card that was clicked.
AddsWereConsented == \A a \in added : a.item \in consented

\* An item runs in one request only: an answer that is retried after an error,
\* or given after the turn failed, does not add the item again.
EachAddOnce == \A a, b \in added : a.item = b.item => a = b

\* No call without a result is in the history when the model is called: the
\* provider would reject it.  A paused turn that was left, a declined call next
\* to one that was not asked about, and a failed tools step all leave some.
NoDanglingCallAtModel ==
    \A r \in Requests : At(r, "model") => Open(run[r].st) = {}

\* And no result without the call it answers.
NoOrphanResultAtModel ==
    \A r \in Requests :
        At(r, "model") => \A c \in run[r].st.calls : c.status # "orphan"

\* One row for a turn that ended, however many requests it took.
OneRowPerTurn ==
    \A q, r \in Requests :
        /\ rows[q].outcome \notin {"none", "error"}
        /\ rows[r].outcome \notin {"none", "error"}
        /\ rows[q].turn = rows[r].turn
        => q = r

\* The row counts the model calls of the whole turn: those made before each
\* pause, carried by the thread, and none of an earlier turn.
RowCountsWholeTurn ==
    \A r \in Requests :
        rows[r].outcome \notin {"none", "error"}
            => rows[r].used = llmUsed[rows[r].turn]

TurnAdded(turn) == \E a \in added : a.turn = turn

\* A turn whose add ran is counted as cart, also when the add ran in an earlier
\* request of the turn or the turn flagged a question or met the cap; and with
\* every product in the shop, a turn that added nothing is not.
OutcomeIsWhatHappened ==
    \A r \in Requests :
        rows[r].outcome \in {"cart", "unanswered", "answered"} =>
            /\ TurnAdded(rows[r].turn) => rows[r].outcome = "cart"
            /\ rows[r].outcome = "cart" /\ catalog = Products
                   => TurnAdded(rows[r].turn)

\* When nothing is under way, the browser's cart has every add that ran.
EveryAddDelivered ==
    (\A r \in Requests : run[r].pc \in {"idle", "closed"})
        => cart = added

Qty(items, p) ==
    MapThenSumSet(LAMBDA i : i.qty, {i \in items : i.what = p})

\* Mutant: the first call's quantity stands for all of them.
CardQtyOfFirst(items, p) == (CHOOSE i \in items : i.what = p).qty

\* The row a card shows for a product: the calls' quantities added up.
CardQty(items, p) ==
    IF Qty(items, p) > LineCap THEN LineCap ELSE Qty(items, p)

YesOf(r) == {y.item : y \in {a \in approved : a.by = r}}
Got(r)   == {a.item : a \in {d \in added : d.by = r /\ d.item \in YesOf(r)}}

\* What the cart gets of a product is never less than its row on the approved card
\* showed, whichever of the calls behind the row ran when, and more only where the
\* row is capped: each of its calls is run as it was asked for.
CartGetsTheCard ==
    \A r \in Requests, p \in Products :
        (\E i \in Got(r) : i.what = p) =>
            \/ Qty(Got(r), p) = CardQty(YesOf(r), p)
            \/ CardQty(YesOf(r), p) = LineCap /\ Qty(Got(r), p) > LineCap

\* In one tab, an answer finds the request it was prepared from.
AnswerFindsItsRequest ==
    \A r \in Requests :
        run[r].pc = "resuming" => ckpt.pause = run[r].decided

\* A turn that the saved thread shows as finished has written its row, once
\* nothing is under way.
EveryTurnRecorded ==
    ckpt.next = "end" /\ (\A r \in Requests : run[r].pc \in {"idle", "closed"})
        => \E r \in Requests : /\ rows[r].turn = ckpt.turn
                               /\ rows[r].outcome # "none"

\* The conversation implements what CartConsent promises: cards, answers, adds
\* and deliveries in this order, nothing taken back, and every step one of its steps.
Consent == INSTANCE CartConsent WITH
    Items   <- Item,
    offered <- shown,
    agreed  <- consented,
    ran     <- {a.item : a \in added},
    cart    <- {a.item : a \in cart}

RefinesCartConsent == Consent!Spec

\* A yes ends with the item in the cart, when nothing fails.
YesLeadsToCart ==
    \A m \in MsgIds :
        (\E i \in consented : i.msg = m)
            ~> {i \in consented : i.msg = m} \subseteq {a.item : a \in cart}

\* A request the server took gets an answer, even from a model that never stops
\* asking for tools, and after no more model calls than a run may make; a turn makes
\* more of them, because the count starts over when its card is answered.
RequestsEnd ==
    \A r \in Requests :
        /\ [](run[r].calls <= MaxModelCalls)
        /\ run[r].pc \in {"resuming", "running"}
              ~> run[r].pc \in {"replied", "failed", "closed"}

\* No tab waits forever.
TabsGetAnAnswer ==
    \A t \in Tabs : tab[t].busy # NoRequest ~> tab[t].busy = NoRequest
=============================================================================
