------------------------- MODULE CopilotOneTabProofs -------------------------
(****************************************************************************)
(* What the copilot promises a shopper who has the conversation open in one *)
(* tab and loses no response, for any number of requests, products, batches *)
(* and messages, and while runs fail.  With two tabs, or with responses     *)
(* lost, the promises do not hold: CopilotThread's other runs show how.     *)
(*                                                                          *)
(* The proofs go in two stages.  With one tab one request at a time is      *)
(* under way, so each run's copy is the saved thread (Solo), and a step is  *)
(* one of a few that say what happens to the thread, field by field (the    *)
(* section on steps).  The invariants are then about the thread alone.      *)
(****************************************************************************)
EXTENDS CopilotThreadProofs

\* One tab, which waits for every response.
OneTab ==
    /\ \A s, t \in Tabs : s = t
    /\ Faults \subseteq {"fail", "restart"}

Active(r) == run[r].pc \notin {"idle", "closed"}

\* The tab waits for every request that is under way.
Awaited == \A r \in Requests : Active(r) => Heard(r)

\* A run's copy is the thread, and an answer the one to what the thread asks.
InStep ==
    \A r \in Requests :
        /\ run[r].pc \in {"running", "replied"} => run[r].st = ckpt
        /\ run[r].pc = "replied" => ckpt.next \in {"pause", "end"}
        /\ run[r].pc = "resuming" =>
              /\ run[r].decided # {}
              /\ ckpt.pause = run[r].decided
              /\ run[r].carried = ckpt.carry
              /\ run[r].calls = 0
              /\ run[r].acts = {}

PauseShape == ckpt.pause # {} <=> ckpt.next = "pause"

\* A thread that was started is some request's turn.
TurnShape == ckpt.next # "none" => ckpt.turn \in Requests

Solo == Awaited /\ InStep /\ PauseShape /\ TurnShape

\* One request at a time is under way.
LEMMA OneActive ==
    ASSUME OneTab, Awaited, NEW q \in Requests, NEW r \in Requests,
           Active(q), Active(r)
    PROVE  q = r
  BY DEF OneTab, Awaited, Heard

\* At first nothing is under way.
LEMMA SoloInit == Init => Solo
  BY DEF Init, Solo, Awaited, InStep, PauseShape, TurnShape, Active, NoRun, NoThread

-----------------------------------------------------------------------------
(* Steps.                                                                    *)

Others(r) == \A q \in Requests \ {r} : run'[q] = run[q]

\* The calls of the thread are those of before, each rewritten by f.
Rewrites(kept, f) ==
    /\ ckpt'.calls = {f[c] : c \in kept}
    /\ \A c \in kept : f[c] \in Call /\ f[c].turn = c.turn

Sends(t, r) ==
    /\ tab[t].busy = NoRequest
    /\ run[r].pc = "idle"
    /\ tab'[t].busy = r /\ tab'[t].card = {} /\ saved' = {}
    /\ ckpt'.next = "begin" /\ ckpt'.turn = r /\ ckpt'.pause = {}
    /\ ckpt'.calls = ckpt.calls /\ ckpt'.how = "none"
    /\ run'[r].pc = "running" /\ run'[r].st = ckpt' /\ run'[r].carried = 0
    /\ run'[r].calls = 0 /\ run'[r].acts = {}
    /\ Others(r)
    /\ UNCHANGED <<catalog, asked, rows, cart, shown, consented, approved,
                   added, llmUsed>>

Answers(t, r, yes) ==
    /\ tab[t].busy = NoRequest /\ tab[t].card # {}
    /\ run[r].pc = "idle"
    /\ tab'[t].busy = r /\ tab'[t].card = tab[t].card /\ saved' = {}
    /\ run'[r].pc = IF ckpt.pause # {} THEN "resuming" ELSE "refused"
    /\ run'[r].kind = IF yes THEN "yes" ELSE "no"
    /\ run'[r].decided = ckpt.pause /\ run'[r].carried = ckpt.carry
    /\ run'[r].calls = 0 /\ run'[r].acts = {}
    /\ Others(r)
    /\ consented' = IF yes THEN consented \cup tab[t].card ELSE consented
    /\ UNCHANGED <<ckpt, catalog, asked, rows, cart, shown, added, llmUsed>>

Delivers(t, r) ==
    LET card == IF run[r].pc = "replied" THEN ckpt.pause
                ELSE IF run[r].pc = "failed" THEN tab[t].card ELSE {}
    IN  /\ tab[t].busy = r
        /\ run[r].pc \in {"replied", "failed", "refused"}
        /\ tab'[t].busy = NoRequest /\ tab'[t].card = card /\ saved' = card
        /\ run'[r].pc = "closed" /\ run'[r].acts = {}
        /\ Others(r)
        /\ cart' = IF run[r].pc = "replied" THEN cart \cup run[r].acts ELSE cart
        /\ shown' = shown \cup card
        /\ UNCHANGED <<ckpt, catalog, asked, rows, consented, approved, added,
                       llmUsed>>

\* Request r ends: it keeps all but its pc, and rows other than its own stay.
Ends(r, pc) ==
    /\ run'[r].pc = pc /\ run'[r].st = run[r].st /\ run'[r].acts = run[r].acts
    /\ Others(r)
    /\ \A q \in Requests \ {r} : rows'[q] = rows[q]
    /\ UNCHANGED <<ckpt, tab, saved, catalog, asked, cart, shown, consented,
                   approved, added, llmUsed>>

Finishes(r) ==
    /\ run[r].pc = "running" /\ ckpt.next = "end"
    /\ Ends(r, "replied")
    /\ rows'[r].turn = ckpt.turn /\ rows'[r].used = Totals(run[r])
    /\ rows'[r].outcome = Outcome(ckpt)

Pauses(r) ==
    /\ run[r].pc = "running" /\ ckpt.next = "pause"
    /\ Ends(r, "replied")
    /\ UNCHANGED rows

Fails(r) ==
    /\ "fail" \in Faults
    /\ \/ run[r].pc = "resuming"
       \/ run[r].pc = "running" /\ ckpt.next \notin {"pause", "end"}
    /\ Ends(r, "failed")
    /\ rows'[r].outcome = "error"

Restarts ==
    /\ "restart" \in Faults
    /\ \A r \in Requests :
          /\ run[r].pc \in {"resuming", "running"} => run'[r].pc = "failed"
          /\ run[r].pc \notin {"resuming", "running"} => run'[r] = run[r]
          /\ run'[r].acts = run[r].acts
    /\ UNCHANGED <<ckpt, tab, saved, catalog, asked, rows, cart, shown,
                   consented, approved, added, llmUsed>>

\* The shop changes its catalog, or nothing happens.
Shops ==
    /\ "list" \notin CatalogEvents => catalog' \subseteq catalog
    /\ UNCHANGED <<ckpt, run, tab, saved, asked, rows, cart, shown, consented,
                   approved, added, llmUsed>>

\* A node of the graph ran for r.
Graph(r) ==
    /\ ckpt'.turn = ckpt.turn
    /\ run'[r].pc = "running" /\ run'[r].st = ckpt'
    /\ run'[r].carried = run[r].carried
    /\ Others(r)
    /\ UNCHANGED <<tab, saved, catalog, rows, cart, shown, consented, approved>>

Guards(r) ==
    /\ run[r].pc = "running" /\ ckpt.next = "begin" /\ Graph(r)
    /\ ckpt'.next = "end" /\ ckpt'.how = "guardrail"
    /\ ckpt'.calls = ckpt.calls /\ ckpt'.pause = ckpt.pause
    /\ run'[r].calls = run[r].calls /\ run'[r].acts = run[r].acts
    /\ UNCHANGED <<asked, added, llmUsed>>

Passes(r) ==
    /\ run[r].pc = "running" /\ ckpt.next = "begin" /\ Graph(r)
    /\ ckpt'.next = "model" /\ ckpt'.pause = ckpt.pause /\ ckpt'.how = ckpt.how
    /\ \E f : /\ Rewrites(ckpt.calls \ Open(ckpt), f)
              /\ \A c \in ckpt.calls \ Open(ckpt) :
                    f[c].item = c.item /\ f[c].status # "open"
    /\ run'[r].calls = run[r].calls /\ run'[r].acts = run[r].acts
    /\ UNCHANGED <<asked, added, llmUsed>>

\* The model answers, or the cap on its calls is met.
Concludes(r) ==
    /\ run[r].pc = "running" /\ ckpt.next = "model" /\ Graph(r)
    /\ ckpt'.next = "end" /\ ckpt'.how \in {"answered", "capped"}
    /\ ckpt'.calls = ckpt.calls /\ ckpt'.pause = ckpt.pause
    /\ run'[r].acts = run[r].acts
    /\ \/ /\ run'[r].calls = run[r].calls + 1
          /\ llmUsed' = [llmUsed EXCEPT ![ckpt.turn] = @ + 1]
       \/ /\ run'[r].calls = run[r].calls
          /\ UNCHANGED llmUsed
    /\ UNCHANGED <<asked, added>>

Items(b) == {Asked(asked + 1, b, i) : i \in 1..Len(b)}

Asks(r, b) ==
    /\ run[r].pc = "running" /\ ckpt.next = "model" /\ Graph(r)
    /\ ckpt'.pause = {i \in Items(b) : i.what \in catalog}
    /\ ckpt'.next = IF ckpt'.pause = {} THEN "tools" ELSE "pause"
    /\ ckpt'.calls = ckpt.calls \cup
          {[msg |-> asked + 1, turn |-> ckpt.turn, item |-> i, status |-> "open"]
              : i \in Items(b)}
    /\ ckpt'.how = ckpt.how
    /\ (\E i \in Items(b) : IsCart(i)) => ckpt'.carry = Totals(run[r]) + 1
    /\ run'[r].calls = run[r].calls + 1 /\ run'[r].acts = run[r].acts
    /\ llmUsed' = [llmUsed EXCEPT ![ckpt.turn] = @ + 1]
    /\ asked' = asked + 1
    /\ UNCHANGED added

\* What the tools node adds to the cart.
Adds(r) ==
    {[item |-> c.item, by |-> r, turn |-> ckpt.turn] :
        c \in {d \in Open(ckpt) : IsCart(d.item) /\ Result(d.item) = "ran"}}

Works(r) ==
    /\ run[r].pc = "running" /\ ckpt.next = "tools" /\ Graph(r)
    /\ ckpt'.next = "model" /\ ckpt'.pause = ckpt.pause /\ ckpt'.how = ckpt.how
    /\ \E f : /\ Rewrites(ckpt.calls, f)
              /\ \A c \in ckpt.calls : f[c].item = c.item
              /\ \A c \in Open(ckpt) : f[c].status = Result(c.item)
              /\ \A c \in ckpt.calls \ Open(ckpt) : f[c] = c
    /\ run'[r].calls = run[r].calls
    /\ run'[r].acts = run[r].acts \cup Adds(r)
    /\ added' = added \cup Adds(r)
    /\ UNCHANGED <<asked, llmUsed>>

\* The paused call c gets the decision z gives it.
GoesOn(r, z) ==
    /\ run[r].pc = "resuming" /\ run[r].kind = "yes" /\ Graph(r)
    /\ ckpt.next = "pause" /\ ckpt'.next = "tools" /\ ckpt'.pause = {}
    /\ ckpt'.how = ckpt.how
    /\ \A i \in ckpt.pause : z[i] \in ckpt.pause
    /\ \A i, j \in ckpt.pause : i.pos < j.pos => z[i].pos < z[j].pos
    /\ \E f : /\ Rewrites(ckpt.calls, f)
              /\ \A c \in ckpt.calls :
                    /\ f[c].status = c.status
                    /\ IsPaused(c, ckpt.pause) => f[c].item = z[c.item]
                    /\ ~IsPaused(c, ckpt.pause) => f[c] = c
    /\ run'[r].calls = run[r].calls /\ run'[r].acts = run[r].acts
    /\ UNCHANGED <<asked, added, llmUsed>>

Skips(r) ==
    /\ run[r].pc = "resuming" /\ Graph(r)
    /\ ckpt.next = "pause" /\ ckpt'.next \in {"tools", "model"} /\ ckpt'.pause = {}
    /\ ckpt'.next = "model" => Open(ckpt') = {}
    /\ ckpt'.how = ckpt.how
    /\ \E f : /\ Rewrites(ckpt.calls, f)
              /\ \A c \in ckpt.calls :
                    /\ f[c].item = c.item
                    /\ IsPaused(c, ckpt.pause) => f[c].status = "error"
                    /\ ~IsPaused(c, ckpt.pause) => f[c] = c
    /\ run'[r].calls = run[r].calls /\ run'[r].acts = run[r].acts
    /\ UNCHANGED <<asked, added, llmUsed>>

GraphStep(r) ==
    \/ Guards(r) \/ Passes(r) \/ Concludes(r) \/ Works(r) \/ Skips(r)
    \/ \E b \in Batches : Asks(r, b)
    \/ \E z : GoesOn(r, z)

Step ==
    \/ \E t \in Tabs, r \in Requests : Sends(t, r) \/ Delivers(t, r)
    \/ \E t \in Tabs, r \in Requests, yes \in BOOLEAN : Answers(t, r, yes)
    \/ \E r \in Requests : Finishes(r) \/ Pauses(r) \/ Fails(r) \/ GraphStep(r)
    \/ Restarts
    \/ Shops

\* A run is saved with the copy s.
LEMMA SaveDoes ==
    ASSUME TypeOK, NEW r \in Requests, NEW x \in Run, NEW s, Save(r, x, s)
    PROVE  /\ ckpt' = s
           /\ run'[r].pc = x.pc /\ run'[r].st = s /\ run'[r].carried = x.carried
           /\ run'[r].calls = x.calls /\ run'[r].acts = x.acts
           /\ Others(r)
<1>1. run'[r] = [x EXCEPT !.st = s] /\ ckpt' = s /\ Others(r)
  BY DEF Save, TypeOK, Others
<1>2. QED
  BY <1>1 DEF Run

\* A request that the tab waits for ends with its outcome.
LEMMA EndDoes ==
    ASSUME TypeOK, NEW r \in Requests, NEW pc, End(r, pc), Heard(r)
    PROVE  /\ run'[r].pc = pc /\ run'[r].st = run[r].st
           /\ run'[r].acts = run[r].acts
           /\ Others(r)
<1>1. run'[r] = [run[r] EXCEPT !.pc = pc] /\ Others(r)
  BY DEF End, TypeOK, Others
<1>2. run[r] \in Run
  BY DEF TypeOK
<1>3. QED
  BY <1>1, <1>2 DEF Run

\* With one tab every step is one of these.
LEMMA NextIsStep ==
    ASSUME OneTab, TypeOK, HistoryInv, Solo, [Next]_vars
    PROVE  Step
<1>0. \A r \in Requests : run[r] \in Run /\ run[r].st \in State
  BY DEF TypeOK, Run
<1>c. ckpt \in State
  BY DEF TypeOK
<1>h. \A r \in Requests : Active(r) => Heard(r)
  BY DEF Solo, Awaited
<1>r. \A r \in Requests : run[r].pc = "running" => run[r].st = ckpt
  BY DEF Solo, InStep
<1>1. ASSUME NEW t \in Tabs, NEW r \in Requests, SendChat(t, r)
      PROVE  Sends(t, r)
  <2> DEFINE s == [ckpt EXCEPT !.next = "begin", !.turn = r, !.pause = {},
                               !.how = "none"]
             x == [NoRun EXCEPT !.pc = "running"]
  <2>1. Save(r, x, s)
    BY <1>1 DEF SendChat
  <2>2. /\ x \in Run /\ x.pc = "running" /\ x.carried = 0 /\ x.calls = 0
        /\ x.acts = {}
    BY EmptyTypes DEF Run, NoRun
  <2>3. /\ s.next = "begin" /\ s.turn = r /\ s.pause = {} /\ s.how = "none"
        /\ s.calls = ckpt.calls
    BY <1>c DEF State
  <2>4. tab'[t].busy = r /\ tab'[t].card = {}
    BY <1>1 DEF SendChat, TypeOK
  <2> HIDE DEF s, x
  <2>5. QED
    BY <1>1, <2>1, <2>2, <2>3, <2>4, SaveDoes DEF SendChat, Sends
<1>2. ASSUME NEW t \in Tabs, NEW r \in Requests, NEW yes \in BOOLEAN,
             AnswerCard(t, r, yes)
      PROVE  Answers(t, r, yes)
  <2> DEFINE x == [NoRun EXCEPT
                     !.pc      = IF ckpt.pause # {} THEN "resuming" ELSE "refused",
                     !.kind    = IF yes THEN "yes" ELSE "no",
                     !.decided = ckpt.pause,
                     !.carried = ckpt.carry]
  <2>1. run' = [run EXCEPT ![r] = x]
    BY <1>2 DEF AnswerCard
  <2>2. /\ x.pc = IF ckpt.pause # {} THEN "resuming" ELSE "refused"
        /\ x.kind = IF yes THEN "yes" ELSE "no"
        /\ x.decided = ckpt.pause /\ x.carried = ckpt.carry
        /\ x.calls = 0 /\ x.acts = {}
    BY DEF NoRun
  <2> HIDE DEF x
  <2>3. run'[r] = x /\ Others(r)
    BY <2>1 DEF TypeOK, Others
  <2>4. tab'[t].busy = r /\ tab'[t].card = tab[t].card
    BY <1>2 DEF AnswerCard, TypeOK, Tab
  <2>5. QED
    BY <1>2, <2>2, <2>3, <2>4 DEF AnswerCard, Answers
<1>3. ASSUME NEW t \in Tabs, Deliver(t)
      PROVE  \E r \in Requests : Delivers(t, r)
  <2> DEFINE r == tab[t].busy
  <2>1. r \in Requests
    BY <1>3 DEF Deliver, TypeOK, Tab
  <2>2. run'[r] = Gone /\ Others(r)
    BY <1>3, <2>1 DEF Deliver, TypeOK, Others
  <2>3. Gone.pc = "closed" /\ Gone.acts = {}
    BY DEF Gone, NoRun
  <2>4. run[r].pc = "replied" => run[r].st = ckpt
    BY <2>1 DEF Solo, InStep
  <2>5. /\ tab'[t].busy = NoRequest
        /\ tab'[t].card = IF run[r].pc = "replied" THEN run[r].st.pause
                          ELSE IF run[r].pc = "failed" THEN tab[t].card ELSE {}
    BY <1>3 DEF Deliver, TypeOK
  <2>6. QED
    BY <1>3, <2>1, <2>2, <2>3, <2>4, <2>5 DEF Deliver, Delivers
<1>4. ASSUME NEW r \in Requests, GuardrailReplies(r) PROVE Guards(r)
  <2> DEFINE s == [ckpt EXCEPT !.next = "end", !.how = "guardrail"]
  <2>1. run[r].pc = "running" /\ ckpt.next = "begin" /\ Save(r, run[r], s)
    BY <1>r, <1>4 DEF GuardrailReplies, At
  <2>2. /\ s.next = "end" /\ s.how = "guardrail" /\ s.turn = ckpt.turn
        /\ s.calls = ckpt.calls /\ s.pause = ckpt.pause
    BY <1>c DEF State
  <2> HIDE DEF s
  <2>3. QED
    BY <1>0, <1>4, <2>1, <2>2, SaveDoes DEF GuardrailReplies, Guards, Graph
<1>5. ASSUME NEW r \in Requests, GuardrailPasses(r) PROVE Passes(r)
  <2> DEFINE dangling == {c.msg : c \in Open(ckpt)}
             kept == ckpt.calls \ Open(ckpt)
             g(c) == IF c.msg \in dangling THEN [c EXCEPT !.status = "orphan"]
                                           ELSE c
             f == [c \in kept |-> g(c)]
             s == [Cleaned(ckpt) EXCEPT !.next = "model"]
  <2>1. run[r].pc = "running" /\ ckpt.next = "begin" /\ Save(r, run[r], s)
    BY <1>r, <1>5 DEF GuardrailPasses, At
  <2>2. /\ s.next = "model" /\ s.how = ckpt.how /\ s.turn = ckpt.turn
        /\ s.calls = {g(c) : c \in kept} /\ s.pause = ckpt.pause
    BY <1>c DEF State, Cleaned
  <2>3. ASSUME NEW c \in kept
        PROVE  /\ g(c) \in Call /\ g(c).turn = c.turn
               /\ g(c).item = c.item /\ g(c).status # "open"
    BY <1>c DEF State, Call, Open
  <2> HIDE DEF s, g, kept
  <2>4. \A c \in kept : f[c] = g(c)
    OBVIOUS
  <2> HIDE DEF f
  <2>5. ckpt'.calls = {f[c] : c \in kept}
    BY <1>0, <2>1, <2>2, <2>4, SaveDoes
  <2>6. /\ Rewrites(kept, f)
        /\ \A c \in kept : f[c].item = c.item /\ f[c].status # "open"
    BY <2>3, <2>4, <2>5 DEF Rewrites
  <2>7. QED
    BY <1>0, <1>5, <2>1, <2>2, <2>6, SaveDoes DEF GuardrailPasses, Passes, Graph, kept
<1>6. ASSUME NEW r \in Requests, ModelAnswers(r) PROVE Concludes(r)
  <2> DEFINE s == [ckpt EXCEPT !.next = "end", !.how = "answered", !.carry = 0]
             x == [run[r] EXCEPT !.calls = @ + 1]
  <2>1. run[r].pc = "running" /\ ckpt.next = "model"
    BY <1>r, <1>6 DEF ModelAnswers, CallModel, At
  <2>2. Save(r, x, s) /\ llmUsed' = [llmUsed EXCEPT ![ckpt.turn] = @ + 1]
    BY <1>r, <1>6, <2>1 DEF ModelAnswers, CallModel
  <2>3. /\ s.next = "end" /\ s.how = "answered" /\ s.turn = ckpt.turn
        /\ s.calls = ckpt.calls /\ s.pause = ckpt.pause
    BY <1>c DEF State
  <2>4. /\ x \in Run /\ x.pc = run[r].pc /\ x.carried = run[r].carried
        /\ x.calls = run[r].calls + 1 /\ x.acts = run[r].acts
    BY <1>0 DEF Run
  <2> HIDE DEF s, x
  <2>5. Graph(r) /\ ckpt' = s /\ run'[r].acts = run[r].acts
        /\ run'[r].calls = run[r].calls + 1
    BY <1>6, <2>1, <2>2, <2>3, <2>4, SaveDoes DEF ModelAnswers, Graph
  <2>6. QED
    BY <1>6, <2>1, <2>2, <2>3, <2>5 DEF ModelAnswers, Concludes
<1>7. ASSUME NEW r \in Requests, LoopCapReplies(r) PROVE Concludes(r)
  <2> DEFINE s == [ckpt EXCEPT !.next = "end", !.how = "capped", !.carry = 0]
  <2>1. run[r].pc = "running" /\ ckpt.next = "model" /\ Save(r, run[r], s)
    BY <1>r, <1>7 DEF LoopCapReplies, At
  <2>2. /\ s.next = "end" /\ s.how = "capped" /\ s.turn = ckpt.turn
        /\ s.calls = ckpt.calls /\ s.pause = ckpt.pause
    BY <1>c DEF State
  <2> HIDE DEF s
  <2>3. QED
    BY <1>0, <1>7, <2>1, <2>2, SaveDoes DEF LoopCapReplies, Concludes, Graph
<1>8. ASSUME NEW r \in Requests, NEW b \in Batches, ModelAsksForTools(r, b)
      PROVE  Asks(r, b)
  <2> DEFINE items == Items(b)
             ask   == {i \in items : i.what \in catalog}
             new   == {[msg |-> asked + 1, turn |-> ckpt.turn, item |-> i,
                        status |-> "open"] : i \in items}
             carry == IF \E i \in items : IsCart(i)
                      THEN Totals(run[r]) + 1 ELSE ckpt.carry
             s     == [ckpt EXCEPT !.next = IF ask = {} THEN "tools" ELSE "pause",
                                   !.msg = asked + 1,
                                   !.calls = @ \cup new,
                                   !.pause = ask, !.carry = carry]
             x     == [run[r] EXCEPT !.calls = @ + 1]
  <2>1. run[r].pc = "running" /\ ckpt.next = "model"
    BY <1>r, <1>8 DEF ModelAsksForTools, CallModel, At
  <2>2. Save(r, x, s) /\ llmUsed' = [llmUsed EXCEPT ![ckpt.turn] = @ + 1]
    BY <1>r, <1>8, <2>1 DEF ModelAsksForTools, CallModel, Items
  <2> HIDE DEF items, new, carry
  <2>3. /\ s.next = IF ask = {} THEN "tools" ELSE "pause"
        /\ s.pause = ask /\ s.calls = ckpt.calls \cup new
        /\ s.carry = carry /\ s.how = ckpt.how /\ s.turn = ckpt.turn
    BY <1>c DEF State
  <2>4. /\ x \in Run /\ x.pc = run[r].pc /\ x.carried = run[r].carried
        /\ x.calls = run[r].calls + 1 /\ x.acts = run[r].acts
    BY <1>0 DEF Run
  <2> HIDE DEF s, x, ask
  <2>5. /\ Graph(r) /\ ckpt' = s /\ run'[r].acts = run[r].acts
        /\ run'[r].calls = run[r].calls + 1
    BY <1>8, <2>1, <2>2, <2>3, <2>4, SaveDoes DEF ModelAsksForTools, Graph
  <2>6. QED
    BY <1>8, <2>1, <2>2, <2>3, <2>5
       DEF ModelAsksForTools, Asks, items, ask, new, carry
<1>9. ASSUME NEW r \in Requests, RunTools(r) PROVE Works(r)
  <2> DEFINE todo == Open(ckpt)
             g(c) == IF c \in todo THEN [c EXCEPT !.status = Result(c.item)] ELSE c
             f    == [c \in ckpt.calls |-> g(c)]
             done == {[c EXCEPT !.status = Result(c.item)] : c \in todo}
             s    == [ckpt EXCEPT !.next = "model",
                                  !.calls = (@ \ todo) \cup done]
             x    == [run[r] EXCEPT !.acts = @ \cup Adds(r)]
  <2>1. run[r].pc = "running" /\ ckpt.next = "tools"
    BY <1>r, <1>9 DEF RunTools, At
  <2>2. Hanging(run[r].st) = todo
    BY <1>r, <2>1 DEF HistoryInv, History, Hanging, Open
  <2>3. Save(r, x, s) /\ added' = added \cup Adds(r)
    BY <1>r, <1>9, <2>1, <2>2 DEF RunTools, Adds
  <2>4. \A c \in ckpt.calls :
           c \in Call /\ Result(c.item) \in {"ran", "missing", "error"}
    BY <1>c DEF State, Result
  <2>5. ASSUME NEW c \in ckpt.calls
        PROVE  /\ g(c) \in Call /\ g(c).turn = c.turn /\ g(c).item = c.item
               /\ c \in todo => g(c).status = Result(c.item)
               /\ c \notin todo => g(c) = c
    BY <2>4 DEF Call
  <2>6. {g(c) : c \in ckpt.calls} = (ckpt.calls \ todo) \cup done
    BY DEF Open
  <2>7. Adds(r) \subseteq Added
    <3>1. ckpt.turn \in Requests \cup {NoRequest}
      BY <1>c DEF State
    <3>2. QED
      BY <2>4, <3>1 DEF Adds, Added, Open, Call
  <2> HIDE DEF g, done, todo
  <2>8. \A c \in ckpt.calls : f[c] = g(c)
    OBVIOUS
  <2> HIDE DEF f
  <2>9. /\ s.next = "model" /\ s.how = ckpt.how /\ s.turn = ckpt.turn
        /\ s.calls = {f[c] : c \in ckpt.calls} /\ s.pause = ckpt.pause
    BY <1>c, <2>6, <2>8 DEF State
  <2>10. /\ x \in Run /\ x.pc = run[r].pc /\ x.carried = run[r].carried
         /\ x.calls = run[r].calls /\ x.acts = run[r].acts \cup Adds(r)
    BY <1>0, <2>7 DEF Run
  <2> HIDE DEF s, x
  <2>11. /\ Graph(r) /\ ckpt' = s /\ run'[r].calls = run[r].calls
         /\ run'[r].acts = run[r].acts \cup Adds(r)
    BY <1>9, <2>1, <2>3, <2>9, <2>10, SaveDoes DEF RunTools, Graph
  <2>12. /\ Rewrites(ckpt.calls, f)
         /\ \A c \in ckpt.calls : f[c].item = c.item
         /\ \A c \in Open(ckpt) : f[c].status = Result(c.item)
         /\ \A c \in ckpt.calls \ Open(ckpt) : f[c] = c
    BY <2>5, <2>8, <2>9, <2>11 DEF Rewrites, todo, Open
  <2>13. QED
    BY <1>9, <2>1, <2>3, <2>9, <2>11, <2>12 DEF RunTools, Works
<1>10. ASSUME NEW r \in Requests, Finish(r) PROVE Finishes(r)
  <2>1. run[r].pc = "running" /\ ckpt.next = "end" /\ run[r].st = ckpt /\ Heard(r)
    BY <1>h, <1>r, <1>10 DEF Finish, At, Active
  <2>2. rows' = [rows EXCEPT ![r] = [turn |-> ckpt.turn, used |-> Totals(run[r]),
                                     outcome |-> Outcome(ckpt)]]
    BY <1>10, <2>1 DEF Finish, Recorded
  <2>3. QED
    BY <1>10, <2>1, <2>2, EndDoes DEF Finish, Finishes, Ends, TypeOK
<1>11. ASSUME NEW r \in Requests, ReplyWithCard(r) PROVE Pauses(r)
  <2>1. run[r].pc = "running" /\ ckpt.next = "pause" /\ Heard(r)
    BY <1>h, <1>r, <1>11 DEF ReplyWithCard, At, Active
  <2>2. QED
    BY <1>11, <2>1, EndDoes DEF ReplyWithCard, Pauses, Ends
<1>12. ASSUME NEW r \in Requests, Fail(r), Heard(r)
       PROVE  Ends(r, "failed") /\ rows'[r].outcome = "error"
  <2>1. rows' = [rows EXCEPT ![r] = [turn |-> run[r].st.turn,
                                     used |-> Totals(run[r]), outcome |-> "error"]]
    BY <1>12 DEF Fail, Recorded
  <2>2. QED
    BY <1>12, <2>1, EndDoes DEF Fail, Ends, TypeOK
<1>13. ASSUME NEW r \in Requests, RunFails(r) PROVE Fails(r)
  <2>1. /\ Fail(r) /\ "fail" \in Faults
        /\ run[r].pc = "resuming" \/ run[r].pc = "running"
        /\ run[r].pc = "running" => run[r].st.next \in {"begin", "model", "tools"}
    BY <1>13 DEF RunFails, At
  <2>2. QED
    BY <1>12, <1>h, <1>r, <2>1 DEF Fails, Active
<1>14. ASSUME NEW r \in Requests, run[r].pc = "resuming"
       PROVE  /\ ckpt.next = "pause" /\ run[r].decided = ckpt.pause
              /\ [i \in ckpt.pause |-> i] \in Zips(ckpt.pause, ckpt.pause)
  BY <1>14 DEF Solo, InStep, PauseShape, Zips
<1>15. ASSUME NEW r \in Requests, NEW s,
              Save(r, [run[r] EXCEPT !.pc = "running"], s)
       PROVE  /\ ckpt' = s
              /\ run'[r].pc = "running" /\ run'[r].st = s
              /\ run'[r].carried = run[r].carried
              /\ run'[r].calls = run[r].calls /\ run'[r].acts = run[r].acts
              /\ Others(r)
  <2> DEFINE x == [run[r] EXCEPT !.pc = "running"]
  <2>1. /\ x \in Run /\ x.pc = "running" /\ x.carried = run[r].carried
        /\ x.calls = run[r].calls /\ x.acts = run[r].acts
    BY <1>0 DEF Run
  <2>2. Save(r, x, s)
    BY <1>15
  <2> HIDE DEF x
  <2>3. QED
    BY <2>1, <2>2, SaveDoes
<1>16. ASSUME NEW r \in Requests, ResumeApproved(r) PROVE \E z : GoesOn(r, z)
  <2>1. PICK z \in Zips(ckpt.pause, ckpt.pause) :
           Save(r, [run[r] EXCEPT !.pc = "running"], ApprovedState(ckpt, z))
    BY <1>14, <1>16 DEF ResumeApproved
  <2> DEFINE g(c) == IF IsPaused(c, ckpt.pause) THEN [c EXCEPT !.item = z[c.item]]
                                                ELSE c
             f == [c \in ckpt.calls |-> g(c)]
             s == ApprovedState(ckpt, z)
  <2>2. /\ s.next = "tools" /\ s.pause = {} /\ s.how = ckpt.how
        /\ s.turn = ckpt.turn /\ s.calls = {g(c) : c \in ckpt.calls}
    BY <1>c DEF ApprovedState, State
  <2>3. /\ z \in [ckpt.pause -> ckpt.pause]
        /\ \A i, j \in ckpt.pause : i.pos < j.pos => z[i].pos < z[j].pos
    BY <2>1 DEF Zips
  <2>4. \A c \in ckpt.calls : c \in Call /\ c.item \in Item
    BY <1>c DEF State, Call
  <2>5. ckpt.pause \subseteq Item
    BY <1>c DEF State
  <2>6. ASSUME NEW c \in ckpt.calls
        PROVE  /\ g(c) \in Call /\ g(c).turn = c.turn /\ g(c).status = c.status
               /\ IsPaused(c, ckpt.pause) => g(c).item = z[c.item]
               /\ ~IsPaused(c, ckpt.pause) => g(c) = c
    <3>1. IsPaused(c, ckpt.pause) => z[c.item] \in Item
      BY <2>3, <2>5 DEF IsPaused
    <3>2. QED
      BY <2>4, <3>1 DEF Call
  <2> HIDE DEF g
  <2>7. \A c \in ckpt.calls : f[c] = g(c)
    OBVIOUS
  <2> HIDE DEF f, s
  <2>8. /\ ckpt' = s
        /\ run'[r].pc = "running" /\ run'[r].st = s
        /\ run'[r].carried = run[r].carried
        /\ run'[r].calls = run[r].calls /\ run'[r].acts = run[r].acts
        /\ Others(r)
    BY <1>15, <2>1 DEF s
  <2>9. /\ Rewrites(ckpt.calls, f)
        /\ \A c \in ckpt.calls :
              /\ f[c].status = c.status
              /\ IsPaused(c, ckpt.pause) => f[c].item = z[c.item]
              /\ ~IsPaused(c, ckpt.pause) => f[c] = c
    BY <2>2, <2>6, <2>7, <2>8 DEF Rewrites
  <2>10. GoesOn(r, z)
    BY <1>16, <2>2, <2>3, <2>8, <2>9 DEF ResumeApproved, GoesOn, Graph
  <2>11. QED
    BY <2>10
<1>17. ASSUME NEW r \in Requests, ResumeDeclined(r) PROVE Skips(r)
  <2> DEFINE g(c) == IF IsPaused(c, ckpt.pause) THEN [c EXCEPT !.status = "error"]
                                                ELSE c
             calls == {g(c) : c \in ckpt.calls}
             f == [c \in ckpt.calls |-> g(c)]
             s == DeclinedState(ckpt)
  <2>1. Save(r, [run[r] EXCEPT !.pc = "running"], s)
    BY <1>17 DEF ResumeDeclined
  <2>2. /\ s.next \in {"tools", "model"} /\ s.pause = {} /\ s.how = ckpt.how
        /\ s.turn = ckpt.turn /\ s.calls = calls
    BY <1>c DEF DeclinedState, State
  <2>3. ASSUME NEW c \in ckpt.calls
        PROVE  /\ g(c) \in Call /\ g(c).turn = c.turn /\ g(c).item = c.item
               /\ IsPaused(c, ckpt.pause) => g(c).status = "error"
               /\ ~IsPaused(c, ckpt.pause) => g(c) = c
    BY <1>c DEF State, Call
  <2> HIDE DEF g
  <2>4. s.next = "model" => Open(s) = {}
    <3>1. ASSUME NEW d \in calls, d.status = "open", s.next = "model" PROVE FALSE
      <4>1. PICK c \in ckpt.calls : d = g(c)
        OBVIOUS
      <4>2. d = c /\ d \in Open(ckpt)
        BY <2>3, <3>1, <4>1 DEF Open
      <4>3. d.msg = ckpt.msg
        BY <1>17, <4>2 DEF ResumeDeclined, HistoryInv, History
      <4>4. s.next = IF \E e \in calls : e.status = "open" /\ e.msg = ckpt.msg
                     THEN "tools" ELSE "model"
        BY <1>c DEF DeclinedState, State, g
      <4>5. QED
        BY <3>1, <4>3, <4>4
    <3>2. QED
      BY <2>2, <3>1 DEF Open
  <2>5. \A c \in ckpt.calls : f[c] = g(c)
    OBVIOUS
  <2> HIDE DEF f, s
  <2>6. /\ ckpt' = s
        /\ run'[r].pc = "running" /\ run'[r].st = s
        /\ run'[r].carried = run[r].carried
        /\ run'[r].calls = run[r].calls /\ run'[r].acts = run[r].acts
        /\ Others(r)
    BY <1>15, <2>1
  <2>7. /\ Rewrites(ckpt.calls, f)
        /\ \A c \in ckpt.calls :
              /\ f[c].item = c.item
              /\ IsPaused(c, ckpt.pause) => f[c].status = "error"
              /\ ~IsPaused(c, ckpt.pause) => f[c] = c
    BY <2>2, <2>3, <2>5, <2>6 DEF Rewrites
  <2>8. QED
    BY <1>17, <2>2, <2>4, <2>6, <2>7 DEF ResumeDeclined, Skips, Graph
<1>18. ASSUME NEW r \in Requests PROVE ~ResumeMismatch(r) /\ ~ResumeElsewhere(r)
  BY <1>14 DEF ResumeMismatch, ResumeElsewhere
<1>19. CASE Restart
  <2>1. \A r \in Requests :
          /\ [run[r] EXCEPT !.pc = "failed"].pc = "failed"
          /\ [run[r] EXCEPT !.pc = "failed"].acts = run[r].acts
    BY <1>0 DEF Run
  <2>2. \A r \in Requests :
           /\ run[r].pc \in {"resuming", "running"}
                  => run'[r] = [run[r] EXCEPT !.pc = "failed"]
           /\ run[r].pc \notin {"resuming", "running"} => run'[r] = run[r]
    BY <1>19, <1>h DEF Restart, Active
  <2>3. Restarts
    <3>1. ASSUME NEW r \in Requests
          PROVE  /\ run[r].pc \in {"resuming", "running"} => run'[r].pc = "failed"
                 /\ run[r].pc \notin {"resuming", "running"} => run'[r] = run[r]
                 /\ run'[r].acts = run[r].acts
      BY <2>1, <2>2, Zenon
    <3>2. QED
      BY <1>19, <3>1 DEF Restart, Restarts
  <2>4. QED
    BY <2>3 DEF Step
<1>20. CASE ListProduct \/ DelistProduct \/ UNCHANGED vars
  BY <1>20 DEF ListProduct, DelistProduct, vars, Shops, Step
<1>21. ASSUME NEW t \in Tabs PROVE ~LoseReply(t) /\ ~Reload(t)
  BY DEF OneTab, LoseReply, Reload
<1>22. ASSUME NEW r \in Requests, ServerStep(r) \/ RunFails(r) PROVE Step
  <2>1. Finishes(r) \/ Pauses(r) \/ Fails(r) \/ GraphStep(r)
    BY <1>4, <1>5, <1>6, <1>7, <1>8, <1>9, <1>10, <1>11, <1>13, <1>16, <1>17,
       <1>18, <1>22 DEF ServerStep, ServerWorks, GraphStep
  <2>2. QED
    BY <2>1 DEF Step
<1>23. ASSUME NEW t \in Tabs, TabStep(t) PROVE Step
  BY <1>1, <1>2, <1>3, <1>21, <1>23 DEF TabStep, Step
<1>24. QED
  BY <1>19, <1>20, <1>22, <1>23 DEF Next

\* While a request is under way, or the tab waits for none, no other is.
LEMMA OthersRest ==
    ASSUME OneTab, TypeOK, Awaited, NEW r \in Requests,
           Active(r) \/ \E t \in Tabs : tab[t].busy = NoRequest
    PROVE  \A q \in Requests \ {r} : ~Active(q)
  BY NamesAssumption DEF OneTab, Awaited, Heard

\* Steps of one request keep Solo when they do for that request.
LEMMA SoloOfOne ==
    ASSUME OneTab, TypeOK, Awaited, NEW r \in Requests,
           Active(r) \/ \E t \in Tabs : tab[t].busy = NoRequest,
           Others(r),
           Active(r)' => Heard(r)',
           /\ run'[r].pc \in {"running", "replied"} => run'[r].st = ckpt'
           /\ run'[r].pc = "replied" => ckpt'.next \in {"pause", "end"}
           /\ run'[r].pc = "resuming" =>
                 /\ run'[r].decided # {}
                 /\ ckpt'.pause = run'[r].decided
                 /\ run'[r].carried = ckpt'.carry
                 /\ run'[r].calls = 0
                 /\ run'[r].acts = {},
           PauseShape', TurnShape'
    PROVE  Solo'
<1>1. \A q \in Requests \ {r} : run'[q] = run[q] /\ ~Active(q)
  BY OthersRest DEF Others
<1>2. \A q \in Requests \ {r} : run'[q].pc \in {"idle", "closed"}
  BY <1>1 DEF Active
<1>3. Awaited'
  BY <1>2 DEF Awaited, Active
<1>4. InStep'
  BY <1>2 DEF InStep
<1>5. QED
  BY <1>3, <1>4 DEF Solo

\* Every class of steps leaves one request at a time, in step with the thread.
LEMMA StepSolo == OneTab /\ TypeOK /\ Solo /\ Step => Solo'
<1> SUFFICES ASSUME OneTab, TypeOK, Solo, Step PROVE Solo'
  OBVIOUS
<1> USE DEF Solo
<1>1. ASSUME NEW t \in Tabs, NEW r \in Requests, Sends(t, r) PROVE Solo'
  <2>1. Heard(r)'
    BY <1>1 DEF Sends, Heard
  <2>2. PauseShape' /\ TurnShape'
    BY <1>1 DEF Sends, PauseShape, TurnShape
  <2>3. QED
    BY <1>1, <2>1, <2>2, SoloOfOne DEF Sends
<1>2. ASSUME NEW t \in Tabs, NEW r \in Requests, NEW yes \in BOOLEAN,
             Answers(t, r, yes)
      PROVE  Solo'
  <2>1. Heard(r)'
    BY <1>2 DEF Answers, Heard
  <2>2. PauseShape' /\ TurnShape'
    BY <1>2 DEF Answers, PauseShape, TurnShape
  <2>3. QED
    BY <1>2, <2>1, <2>2, SoloOfOne DEF Answers
<1>3. ASSUME NEW t \in Tabs, NEW r \in Requests, Delivers(t, r) PROVE Solo'
  <2>1. Active(r) /\ ~Active(r)'
    BY <1>3 DEF Delivers, Active
  <2>2. PauseShape' /\ TurnShape'
    BY <1>3 DEF Delivers, PauseShape, TurnShape
  <2>3. QED
    BY <1>3, <2>1, <2>2, SoloOfOne DEF Delivers
<1>4. ASSUME NEW r \in Requests, NEW pc \in {"replied", "failed"}, Ends(r, pc),
             run[r].pc \in {"running", "resuming"},
             pc = "replied" => /\ run[r].pc = "running"
                               /\ ckpt.next \in {"pause", "end"}
      PROVE  Solo'
  <2>1. Active(r) /\ Heard(r)
    BY <1>4 DEF Active, Awaited
  <2>2. Heard(r)'
    BY <1>4, <2>1 DEF Ends, Heard
  <2>3. PauseShape' /\ TurnShape'
    BY <1>4 DEF Ends, PauseShape, TurnShape
  <2>4. pc = "replied" => run'[r].st = ckpt'
    BY <1>4 DEF Ends, InStep
  <2>5. QED
    BY <1>4, <2>1, <2>2, <2>3, <2>4, SoloOfOne DEF Ends
<1>5. ASSUME NEW r \in Requests, Graph(r), run[r].pc \in {"running", "resuming"},
             ckpt.next # "none", PauseShape'
      PROVE  Solo'
  <2>1. Active(r) /\ Heard(r)
    BY <1>5 DEF Active, Awaited
  <2>2. Heard(r)'
    BY <1>5, <2>1 DEF Graph, Heard
  <2>3. TurnShape'
    BY <1>5 DEF Graph, TurnShape
  <2>4. QED
    BY <1>5, <2>1, <2>2, <2>3, SoloOfOne DEF Graph
<1>6. ASSUME NEW r \in Requests, GraphStep(r) PROVE Solo'
  <2>1. /\ Graph(r) /\ run[r].pc \in {"running", "resuming"}
        /\ ckpt.next # "none"
        /\ ckpt'.pause # {} <=> ckpt'.next = "pause"
    BY <1>6 DEF GraphStep, Guards, Passes, Concludes, Asks, Works, GoesOn, Skips,
                PauseShape
  <2>2. QED
    BY <1>5, <2>1 DEF PauseShape
<1>7. ASSUME Restarts PROVE Solo'
  <2>1. \A r \in Requests : Active(r)' => Active(r)
    BY <1>7 DEF Restarts, Active
  <2>2. Awaited'
    BY <1>7, <2>1 DEF Restarts, Awaited, Heard
  <2>3. InStep'
    BY <1>7 DEF Restarts, InStep
  <2>4. QED
    BY <1>7, <2>2, <2>3 DEF Restarts, PauseShape, TurnShape
<1>8. ASSUME Shops PROVE Solo'
  BY <1>8 DEF Shops, Awaited, InStep, PauseShape, TurnShape, Active, Heard
<1>9. QED
  BY <1>1, <1>2, <1>3, <1>4, <1>6, <1>7, <1>8
     DEF Step, Finishes, Pauses, Fails

\* So does every step of the conversation.
LEMMA SoloNext ==
    ASSUME OneTab
    PROVE  TypeOK /\ HistoryInv /\ Solo /\ [Next]_vars => Solo'
  BY NextIsStep, StepSolo

\* In one tab an answer finds the request it was prepared from, whatever fails.
THEOREM AnswersFindTheirRequest ==
    ASSUME OneTab
    PROVE  Spec => []AnswerFindsItsRequest
<1>1. Solo => AnswerFindsItsRequest
  BY DEF Solo, InStep, AnswerFindsItsRequest
<1>2. TypeOK /\ HistoryInv /\ Solo /\ [Next]_vars => Solo'
  BY SoloNext
<1>3. QED
  BY <1>1, <1>2, InitType, NextType, HistoryInit, HistoryNext, SoloInit,
     PTL DEF Spec

-----------------------------------------------------------------------------
(* An item is added once.                                                    *)

\* Items are asked for under growing numbers.
Numbered ==
    /\ \A c \in ckpt.calls : c.item.msg <= asked
    /\ \A a \in added : a.item.msg <= asked

\* The thread's calls have different items, and what is still to run was not
\* added.  What is waited for is asked at different places of one message.
Distinct ==
    /\ \A c, d \in ckpt.calls : c.item = d.item => c = d
    /\ \A c \in Open(ckpt), a \in added : c.item # a.item
    /\ \A i \in ckpt.pause : \E c \in Open(ckpt) : c.item = i
    /\ \A i, j \in ckpt.pause : i.pos = j.pos => i = j

OnceInv == Numbered /\ Distinct /\ EachAddOnce

\* Nothing is asked or shown at first.
LEMMA OnceInit == Init => OnceInv
  BY DEF Init, NoThread, OnceInv, Numbered, Distinct, EachAddOnce, Open

\* A step that touches neither the calls nor the adds, and asks for nothing new.
LEMMA OnceSame ==
    ASSUME OnceInv, ckpt'.calls = ckpt.calls, ckpt'.pause \in {ckpt.pause, {}},
           UNCHANGED <<asked, added>>
    PROVE  OnceInv'
  BY DEF OnceInv, Numbered, Distinct, EachAddOnce, Open

\* A step that rewrites calls under their own items, none of them waiting.
LEMMA OnceRewritten ==
    ASSUME OnceInv, NEW kept, kept \subseteq ckpt.calls, NEW f, Rewrites(kept, f),
           \A c \in kept : /\ f[c].item = c.item
                           /\ f[c].status = "open" => c.status = "open",
           ckpt'.pause = {}, UNCHANGED <<asked, added>>
    PROVE  OnceInv'
<1>1. \A d \in ckpt'.calls : \E c \in kept : d = f[c]
  BY DEF Rewrites
<1>2. Numbered'
  BY <1>1 DEF OnceInv, Numbered
<1>3. \A c, d \in ckpt'.calls : c.item = d.item => c = d
  BY <1>1 DEF OnceInv, Distinct
<1>4. \A c \in Open(ckpt)', a \in added : c.item # a.item
  BY <1>1 DEF OnceInv, Distinct, Open
<1>5. QED
  BY <1>2, <1>3, <1>4 DEF OnceInv, Distinct, EachAddOnce

\* No step asks two things under one number or adds one twice.
LEMMA StepOnce ==
    TypeOK /\ HistoryInv /\ Solo /\ OnceInv /\ Step => OnceInv'
<1> SUFFICES ASSUME TypeOK, HistoryInv, Solo, OnceInv, Step PROVE OnceInv'
  OBVIOUS
<1>0. \A c \in ckpt.calls : c \in Call
  BY DEF TypeOK, State
<1>1. ASSUME NEW t \in Tabs, NEW r \in Requests, Sends(t, r) PROVE OnceInv'
  BY <1>1, OnceSame DEF Sends
<1>2. CASE UNCHANGED <<ckpt, asked, added>>
  BY <1>2, OnceSame
<1>3. ASSUME NEW r \in Requests, Guards(r) \/ Concludes(r) PROVE OnceInv'
  BY <1>3, OnceSame DEF Guards, Concludes
<1>4. ASSUME NEW r \in Requests, Passes(r) PROVE OnceInv'
  <2>1. ckpt'.pause = {}
    BY <1>4 DEF Passes, Solo, PauseShape
  <2>2. PICK f : /\ Rewrites(ckpt.calls \ Open(ckpt), f)
                 /\ \A c \in ckpt.calls \ Open(ckpt) :
                       f[c].item = c.item /\ f[c].status # "open"
    BY <1>4 DEF Passes
  <2>3. QED
    BY <1>4, <2>1, <2>2, OnceRewritten DEF Passes
<1>5. ASSUME NEW r \in Requests, Skips(r) PROVE OnceInv'
  <2>1. PICK f : /\ Rewrites(ckpt.calls, f)
                 /\ \A c \in ckpt.calls :
                       /\ f[c].item = c.item
                       /\ IsPaused(c, ckpt.pause) => f[c].status = "error"
                       /\ ~IsPaused(c, ckpt.pause) => f[c] = c
    BY <1>5 DEF Skips
  <2>2. \A c \in ckpt.calls : f[c].status = "open" => c.status = "open"
    BY <2>1
  <2>3. QED
    BY <1>5, <2>1, <2>2, OnceRewritten DEF Skips
<1>6. ASSUME NEW r \in Requests, NEW b \in Batches, Asks(r, b) PROVE OnceInv'
  <2> DEFINE call(i) == [msg |-> asked + 1, turn |-> ckpt.turn, item |-> i,
                         status |-> "open"]
             new == {call(i) : i \in Items(b)}
  <2>1. /\ ckpt'.calls = ckpt.calls \cup new /\ asked' = asked + 1
        /\ added' = added /\ ckpt'.pause \subseteq Items(b) /\ asked \in Nat
    BY <1>6, BoundsAssumption DEF Asks, TypeOK
  <2>2. \A c \in ckpt.calls : c.status # "open"
    BY <1>6 DEF Asks, HistoryInv, History, Open
  <2>3. \A i \in Items(b) : i.msg = asked + 1
    BY DEF Items, Asked
  <2>4. \A i, j \in Items(b) : i.pos = j.pos => i = j
    BY DEF Items, Asked
  <2>5. /\ \A c \in new : c.item \in Items(b)
        /\ \A c, d \in new : c.item = d.item => c = d
        /\ \A i \in Items(b) : \E c \in new : c.item = i /\ c.status = "open"
    <3>1. \A i \in Items(b) : call(i).item = i /\ call(i).status = "open"
      OBVIOUS
    <3> HIDE DEF call
    <3>2. QED
      BY <3>1
  <2> HIDE DEF new
  <2>6. \A c \in ckpt.calls : c.item.msg \in Nat /\ c.item.msg <= asked
    BY <1>0 DEF OnceInv, Numbered, Call, Item, MsgIds
  <2>7. \A a \in added : a.item.msg \in Nat /\ a.item.msg <= asked
    BY DEF OnceInv, Numbered, TypeOK, Added, Item, MsgIds
  <2>8. Numbered'
    BY <2>1, <2>3, <2>5, <2>6, <2>7 DEF Numbered
  <2>9. \A c, d \in ckpt'.calls : c.item = d.item => c = d
    BY <2>1, <2>3, <2>5, <2>6 DEF OnceInv, Distinct
  <2>10. \A c \in Open(ckpt)', a \in added' : c.item # a.item
    BY <2>1, <2>2, <2>3, <2>5, <2>7 DEF Open
  <2>11. \A i \in ckpt'.pause : \E c \in Open(ckpt)' : c.item = i
    BY <2>1, <2>5 DEF Open
  <2>12. QED
    BY <2>1, <2>4, <2>8, <2>9, <2>10, <2>11 DEF OnceInv, Distinct, EachAddOnce
<1>7. ASSUME NEW r \in Requests, Works(r) PROVE OnceInv'
  <2>1. PICK f : /\ Rewrites(ckpt.calls, f)
                 /\ \A c \in ckpt.calls : f[c].item = c.item
                 /\ \A c \in Open(ckpt) : f[c].status = Result(c.item)
                 /\ \A c \in ckpt.calls \ Open(ckpt) : f[c] = c
    BY <1>7 DEF Works
  <2>2. /\ added' = added \cup Adds(r) /\ asked' = asked /\ ckpt'.pause = {}
    BY <1>7 DEF Works, Solo, PauseShape
  <2>3. \A d \in ckpt'.calls : \E c \in ckpt.calls : d = f[c]
    BY <2>1 DEF Rewrites
  <2>4. \A c \in ckpt.calls : f[c].status # "open"
    BY <2>1 DEF Open, Result
  <2>5. \A a \in Adds(r) : \E c \in Open(ckpt) : 
           a = [item |-> c.item, by |-> r, turn |-> ckpt.turn]
    BY DEF Adds
  <2>6. \A a \in Adds(r) : /\ \E c \in Open(ckpt) : a.item = c.item
                           /\ \A b \in Adds(r) : a.item = b.item => a = b
    BY <2>5
  <2>7. Numbered'
    BY <2>1, <2>2, <2>3, <2>6 DEF OnceInv, Numbered, Open
  <2>8. Distinct'
    BY <2>1, <2>2, <2>3, <2>4 DEF OnceInv, Distinct, Open
  <2>9. \A a \in Adds(r), b \in added : a.item # b.item
    BY <2>6 DEF OnceInv, Distinct
  <2>10. EachAddOnce'
    BY <2>2, <2>6, <2>9 DEF OnceInv, EachAddOnce
  <2>11. QED
    BY <2>7, <2>8, <2>10 DEF OnceInv
<1>8. ASSUME NEW r \in Requests, NEW z, GoesOn(r, z) PROVE OnceInv'
  <2>1. PICK f : /\ Rewrites(ckpt.calls, f)
                 /\ \A c \in ckpt.calls :
                       /\ f[c].status = c.status
                       /\ IsPaused(c, ckpt.pause) => f[c].item = z[c.item]
                       /\ ~IsPaused(c, ckpt.pause) => f[c] = c
    BY <1>8 DEF GoesOn
  <2>2. /\ UNCHANGED <<asked, added>> /\ ckpt'.pause = {}
        /\ \A i \in ckpt.pause : z[i] \in ckpt.pause
        /\ \A i, j \in ckpt.pause : i.pos < j.pos => z[i].pos < z[j].pos
    BY <1>8 DEF GoesOn
  <2>3. \A d \in ckpt'.calls : \E c \in ckpt.calls : d = f[c]
    BY <2>1 DEF Rewrites
  <2>4. ckpt.pause \subseteq Item
    BY DEF TypeOK, State
  <2>5. \A i, j \in ckpt.pause : z[i] = z[j] => i = j
    <3>1. SUFFICES ASSUME NEW i \in ckpt.pause, NEW j \in ckpt.pause, z[i] = z[j]
                   PROVE  i.pos = j.pos
      BY DEF OnceInv, Distinct
    <3>2. i.pos \in Nat /\ j.pos \in Nat /\ z[i].pos \in Nat
      BY <2>2, <2>4 DEF Item
    <3>3. ~(i.pos < j.pos) /\ ~(j.pos < i.pos)
      BY <2>2, <3>1, <3>2
    <3>4. QED
      BY <3>2, <3>3
  <2>6. \A c \in ckpt.calls : c.item \in ckpt.pause => IsPaused(c, ckpt.pause)
    BY DEF OnceInv, Distinct, IsPaused, Open
  <2>7. ASSUME NEW c \in ckpt.calls, IsPaused(c, ckpt.pause)
        PROVE  \E d \in Open(ckpt) : f[c].item = d.item
    BY <2>1, <2>2, <2>7 DEF OnceInv, Distinct, IsPaused
  <2>8. Numbered'
    BY <2>1, <2>2, <2>3, <2>7 DEF OnceInv, Numbered, Open
  <2>9. ASSUME NEW c \in ckpt.calls, NEW d \in ckpt.calls, f[c].item = f[d].item
        PROVE  c = d
    <3>1. CASE IsPaused(c, ckpt.pause) /\ IsPaused(d, ckpt.pause)
      BY <2>1, <2>5, <2>9, <3>1 DEF OnceInv, Distinct, IsPaused
    <3>2. CASE IsPaused(c, ckpt.pause) /\ ~IsPaused(d, ckpt.pause)
      BY <2>1, <2>2, <2>6, <2>9, <3>2 DEF IsPaused
    <3>3. CASE ~IsPaused(c, ckpt.pause) /\ IsPaused(d, ckpt.pause)
      BY <2>1, <2>2, <2>6, <2>9, <3>3 DEF IsPaused
    <3>4. CASE ~IsPaused(c, ckpt.pause) /\ ~IsPaused(d, ckpt.pause)
      BY <2>1, <2>9, <3>4 DEF OnceInv, Distinct
    <3>5. QED
      BY <3>1, <3>2, <3>3, <3>4
  <2>10. \A c \in Open(ckpt)', a \in added' : c.item # a.item
    BY <2>1, <2>2, <2>3, <2>7 DEF OnceInv, Distinct, Open
  <2>11. QED
    BY <2>2, <2>3, <2>8, <2>9, <2>10 DEF OnceInv, Distinct, EachAddOnce
<1>9. ASSUME NEW r \in Requests, GraphStep(r) PROVE OnceInv'
  BY <1>3, <1>4, <1>5, <1>6, <1>7, <1>8, <1>9 DEF GraphStep
<1>10. QED
  BY <1>1, <1>2, <1>9 DEF Step, Answers, Delivers, Finishes, Pauses, Fails, Ends,
                          Restarts, Shops

\* In one tab an item is added in one request only: an answer given again after
\* an error, a failure or a restart adds nothing a second time.
THEOREM EveryAddIsOnce ==
    ASSUME OneTab
    PROVE  Spec => []EachAddOnce
<1>1. OnceInv => EachAddOnce
  BY DEF OnceInv
<1>2. TypeOK /\ HistoryInv /\ Solo /\ [Next]_vars => Solo'
  BY SoloNext
<1>3. TypeOK /\ HistoryInv /\ Solo /\ OnceInv /\ [Next]_vars => OnceInv'
  BY NextIsStep, StepOnce
<1>4. QED
  BY <1>1, <1>2, <1>3, InitType, NextType, HistoryInit, HistoryNext, SoloInit,
     OnceInit, PTL DEF Spec

-----------------------------------------------------------------------------
(* What the turns' rows say.                                                 *)

Used(q) == run[q].pc # "idle"

\* A row that says how its turn ended.
Final(r) == rows[r].outcome \notin {"none", "error"}

\* Whatever bears a turn's name came after the turn's request.
Started ==
    /\ ckpt.turn # NoRequest => Used(ckpt.turn)
    /\ \A r \in Requests : Final(r) => rows[r].turn \in Requests /\ Used(rows[r].turn)
    /\ \A r \in Requests : llmUsed[r] # 0 => Used(r)
    /\ \A a \in added : a.turn \in Requests /\ Used(a.turn)
    /\ \A c \in ckpt.calls : c.turn \in Requests /\ Used(c.turn)

\* A turn that has its row is over.
Ended ==
    \A r \in Requests :
        Final(r) /\ rows[r].turn = ckpt.turn =>
            ckpt.next = "end" /\ \A q \in Requests : run[q].pc # "running"

\* A run counts the model calls of the whole turn, and so does a paused thread.
Counted ==
    /\ \A r \in Requests :
          run[r].pc = "running" => run[r].carried + run[r].calls = llmUsed[ckpt.turn]
    /\ ckpt.next = "pause" => ckpt.carry = llmUsed[ckpt.turn]

RowsInv == Started /\ Ended /\ Counted /\ OneRowPerTurn /\ RowCountsWholeTurn

\* At first there is no row.
LEMMA RowsInit == Init => RowsInv
  BY DEF Init, NoThread, NoRun, NoRow, RowsInv, Started, Ended, Counted, Used,
         Final, OneRowPerTurn, RowCountsWholeTurn

\* What every step of the graph does.
LEMMA GraphDoes ==
    ASSUME NEW r \in Requests, GraphStep(r)
    PROVE  /\ Graph(r) /\ ckpt.next # "none"
           /\ run[r].pc \in {"running", "resuming"}
           /\ \/ llmUsed' = llmUsed
              \/ llmUsed' = [llmUsed EXCEPT ![ckpt.turn] = @ + 1]
           /\ \/ added' = added
              \/ added' = added \cup Adds(r)
<1>1. CASE Guards(r) \/ Passes(r) \/ Skips(r)
  BY <1>1 DEF Guards, Passes, Skips
<1>2. CASE Concludes(r) \/ Works(r)
  BY <1>2 DEF Concludes, Works
<1>3. CASE (\E b \in Batches : Asks(r, b)) \/ \E z : GoesOn(r, z)
  BY <1>3 DEF Asks, GoesOn
<1>4. QED
  BY <1>1, <1>2, <1>3 DEF GraphStep

\* Steps that leave the thread and what is counted about it alone.
Quiet ==
    /\ UNCHANGED <<ckpt, rows, added, llmUsed>>
    /\ \A q \in Requests : Used(q) => Used(q)'
    /\ \A q \in Requests : run'[q].pc = "running" => run'[q] = run[q]

\* What a step does that neither replies nor starts or resumes a turn: the rows
\* stay, and so do the turns that are under way.
LEMMA QuietSteps ==
    ASSUME Step
    PROVE  \/ Quiet
           \/ \E t \in Tabs, r \in Requests : Sends(t, r)
           \/ \E r \in Requests : Finishes(r) \/ Fails(r) \/ GraphStep(r)
<1>1. ASSUME NEW t \in Tabs, NEW r \in Requests, NEW yes \in BOOLEAN,
             Answers(t, r, yes)
      PROVE  Quiet
  BY <1>1 DEF Answers, Others, Quiet, Used
<1>2. ASSUME NEW t \in Tabs, NEW r \in Requests, Delivers(t, r) PROVE Quiet
  BY <1>2 DEF Delivers, Others, Quiet, Used
<1>3. ASSUME NEW r \in Requests, Pauses(r) PROVE Quiet
  BY <1>3 DEF Pauses, Ends, Others, Quiet, Used
<1>4. ASSUME Restarts PROVE Quiet
  <2>1. \A q \in Requests : run'[q] = run[q] \/ run'[q].pc = "failed"
    BY <1>4 DEF Restarts
  <2>2. QED
    BY <1>4, <2>1 DEF Restarts, Quiet, Used
<1>5. ASSUME Shops PROVE Quiet
  BY <1>5 DEF Shops, Quiet, Used
<1>6. QED
  BY <1>1, <1>2, <1>3, <1>4, <1>5 DEF Step

\* The calls a step of the graph leaves are of turns there were calls of, or of this one.
LEMMA StepCalls ==
    ASSUME NEW r \in Requests, GraphStep(r), NEW d \in ckpt'.calls
    PROVE  \/ \E c \in ckpt.calls : d.turn = c.turn
           \/ d.turn = ckpt.turn /\ ckpt.next = "model"
<1>1. CASE ckpt'.calls = ckpt.calls
  BY <1>1
<1>2. ASSUME NEW kept, kept \subseteq ckpt.calls, NEW f, Rewrites(kept, f)
      PROVE  \E c \in ckpt.calls : d.turn = c.turn
  BY <1>2 DEF Rewrites
<1>3. CASE Guards(r) \/ Concludes(r)
  BY <1>1, <1>3 DEF Guards, Concludes
<1>4. CASE Passes(r)
  BY <1>2, <1>4 DEF Passes
<1>5. CASE Works(r) \/ Skips(r) \/ \E z : GoesOn(r, z)
  BY <1>2, <1>5 DEF Works, Skips, GoesOn
<1>6. CASE \E b \in Batches : Asks(r, b)
  BY <1>6 DEF Asks
<1>7. QED
  BY <1>3, <1>4, <1>5, <1>6 DEF GraphStep

\* A row is of a turn that was started.
LEMMA StepStarted ==
    TypeOK /\ Solo /\ Started /\ Step => Started'
<1> SUFFICES ASSUME TypeOK, Solo, Started, Step PROVE Started'
  OBVIOUS
<1>1. ckpt.turn \in Requests \cup {NoRequest}
  BY DEF TypeOK, State
<1>2. ckpt.next # "none" => ckpt.turn \in Requests /\ Used(ckpt.turn)
  BY NamesAssumption DEF Solo, TurnShape, Started
<1>3. CASE Quiet
  BY <1>1, <1>3 DEF Quiet, Started, Final, Used
<1>4. ASSUME NEW t \in Tabs, NEW r \in Requests, Sends(t, r) PROVE Started'
  <2>1. Used(r)' /\ \A q \in Requests : Used(q) => Used(q)'
    BY <1>4 DEF Sends, Others, Used
  <2>2. QED
    BY <1>4, <2>1 DEF Sends, Started, Final, Used
<1>5. ASSUME NEW r \in Requests, Finishes(r) \/ Fails(r) PROVE Started'
  <2>1. \A q \in Requests : Used(q) => Used(q)'
    BY <1>5 DEF Finishes, Fails, Ends, Others, Used
  <2>2. \A q \in Requests : \/ rows'[q] = rows[q]
                            \/ rows'[q].outcome = "error"
                            \/ rows'[q].turn = ckpt.turn /\ ckpt.next = "end"
    BY <1>5 DEF Finishes, Fails, Ends
  <2>3. \A q \in Requests : Final(q)' => rows'[q].turn \in Requests /\ Used(rows[q].turn)'
    BY <1>2, <2>1, <2>2 DEF Started, Final, Used
  <2>4. UNCHANGED <<ckpt, added, llmUsed>>
    BY <1>5 DEF Finishes, Fails, Ends
  <2>5. QED
    BY <1>1, <2>1, <2>3, <2>4 DEF Started, Final, Used
<1>6. ASSUME NEW r \in Requests, GraphStep(r) PROVE Started'
  <2>1. \A q \in Requests : Used(q) => Used(q)'
    BY <1>6, GraphDoes DEF Graph, Others, Used
  <2>2. ckpt'.turn = ckpt.turn /\ rows' = rows /\ ckpt.next # "none"
    BY <1>6, GraphDoes DEF Graph
  <2>3. ckpt'.turn # NoRequest => Used(ckpt.turn)'
    BY <1>1, <2>1, <2>2 DEF Started, Used
  <2>4. \A q \in Requests : Final(q)' => rows'[q].turn \in Requests /\ Used(rows[q].turn)'
    BY <2>1, <2>2 DEF Started, Final, Used
  <2>5. \A q \in Requests : llmUsed'[q] # 0 => Used(q)'
    BY <1>2, <1>6, <2>1, <2>2, GraphDoes DEF Started, TypeOK
  <2>6. \A a \in Adds(r) : a.turn = ckpt.turn
    BY DEF Adds
  <2>7. \A a \in added' : a.turn \in Requests /\ Used(a.turn)'
    BY <1>2, <1>6, <2>1, <2>2, <2>6, GraphDoes DEF Started, Used
  <2>8. \A d \in ckpt'.calls : d.turn \in Requests /\ Used(d.turn)'
    BY <1>2, <1>6, <2>1, <2>2, StepCalls DEF Started, Used
  <2>9. QED
    BY <2>3, <2>4, <2>5, <2>7, <2>8 DEF Started, Final, Used
<1>7. QED
  BY <1>3, <1>4, <1>5, <1>6, QuietSteps

\* No row of the turn that is under way says how it ended.
LEMMA NotEnded ==
    ASSUME Solo, Ended, NEW r \in Requests,
           run[r].pc \in {"running", "resuming"}
    PROVE  \A q \in Requests : Final(q) => rows[q].turn # ckpt.turn
<1>1. CASE run[r].pc = "running"
  BY <1>1 DEF Ended
<1>2. CASE run[r].pc = "resuming"
  <2>1. ckpt.next = "pause"
    BY <1>2 DEF Solo, InStep, PauseShape
  <2>2. QED
    BY <2>1 DEF Ended
<1>3. QED
  BY <1>1, <1>2

\* A row ends its turn, and only a new turn goes on.
LEMMA StepEnded ==
    OneTab /\ TypeOK /\ Solo /\ Started /\ Ended /\ Step => Ended'
<1> SUFFICES ASSUME OneTab, TypeOK, Solo, Started, Ended, Step PROVE Ended'
  OBVIOUS
<1>1. CASE Quiet
  BY <1>1 DEF Quiet, Ended, Final
<1>2. ASSUME NEW t \in Tabs, NEW r \in Requests, Sends(t, r) PROVE Ended'
  BY <1>2 DEF Sends, Started, Ended, Final, Used
<1>3. ASSUME NEW r \in Requests, GraphStep(r) PROVE Ended'
  <2>1. \A q \in Requests : Final(q) => rows[q].turn # ckpt.turn
    BY <1>3, GraphDoes, NotEnded
  <2>2. QED
    BY <1>3, <2>1, GraphDoes DEF Graph, Ended, Final
<1>4. ASSUME NEW r \in Requests, Finishes(r) \/ Fails(r) PROVE Ended'
  <2>1. Active(r) /\ run'[r].pc # "running" /\ ckpt' = ckpt
    BY <1>4 DEF Finishes, Fails, Ends, Active
  <2>2. \A q \in Requests \ {r} : ~Active(q) /\ run'[q] = run[q]
    BY <1>4, <2>1, OthersRest DEF Solo, Finishes, Fails, Ends, Others
  <2>3. \A q \in Requests : run'[q].pc # "running"
    BY <2>1, <2>2 DEF Active
  <2>4. CASE Finishes(r)
    BY <2>1, <2>3, <2>4 DEF Finishes, Ended
  <2>5. CASE Fails(r)
    BY <2>1, <2>3, <2>5 DEF Fails, Ends, Ended, Final
  <2>6. QED
    BY <1>4, <2>4, <2>5
<1>5. QED
  BY <1>1, <1>2, <1>3, <1>4, QuietSteps

\* What a run carries is what its turn called of the model.
LEMMA StepCounted ==
    OneTab /\ TypeOK /\ Solo /\ Started /\ Counted /\ Step => Counted'
<1> SUFFICES ASSUME OneTab, TypeOK, Solo, Started, Counted, Step PROVE Counted'
  OBVIOUS
<1>1. CASE Quiet
  BY <1>1 DEF Quiet, Counted
<1>2. \A q \in Requests : /\ run[q].carried \in Nat /\ run[q].calls \in Nat
                          /\ llmUsed[q] \in Nat
  BY DEF TypeOK, Run
<1>3. ASSUME NEW t \in Tabs, NEW r \in Requests, Sends(t, r) PROVE Counted'
  <2>1. \A q \in Requests \ {r} : run'[q].pc # "running"
    BY <1>3, OthersRest DEF Sends, Solo, Others, Active
  <2>2. llmUsed[r] = 0
    BY <1>3 DEF Sends, Started, Used
  <2>3. QED
    BY <1>3, <2>1, <2>2 DEF Sends, Counted
<1>4. ASSUME NEW r \in Requests, Finishes(r) \/ Fails(r) PROVE Counted'
  BY <1>4 DEF Finishes, Fails, Ends, Others, Counted
<1>5. ASSUME NEW r \in Requests, GraphStep(r) PROVE Counted'
  <2>1. Active(r)
    BY <1>5, GraphDoes DEF Active
  <2>2. \A q \in Requests \ {r} : run'[q].pc # "running"
    BY <1>5, <2>1, OthersRest, GraphDoes DEF Solo, Graph, Others, Active
  <2>3. /\ ckpt.turn \in Requests /\ ckpt'.turn = ckpt.turn
        /\ run'[r].carried = run[r].carried
    BY <1>5, GraphDoes DEF Solo, TurnShape, Graph
  <2>4. run[r].carried + run[r].calls = llmUsed[ckpt.turn]
    <3>1. CASE run[r].pc = "running"
      BY <3>1 DEF Counted
    <3>2. CASE run[r].pc = "resuming"
      BY <1>2, <2>3, <3>2 DEF Solo, InStep, PauseShape, Counted
    <3>3. QED
      BY <1>5, <3>1, <3>2, GraphDoes
  <2>5. run'[r].carried + run'[r].calls = llmUsed'[ckpt'.turn]
    <3>1. CASE Guards(r) \/ Passes(r) \/ Works(r) \/ Skips(r) \/ \E z : GoesOn(r, z)
      BY <2>3, <2>4, <3>1 DEF Guards, Passes, Works, Skips, GoesOn
    <3>2. ASSUME run'[r].calls = run[r].calls + 1,
                 llmUsed' = [llmUsed EXCEPT ![ckpt.turn] = @ + 1]
          PROVE  run'[r].carried + run'[r].calls = llmUsed'[ckpt'.turn]
      BY <1>2, <2>3, <2>4, <3>2 DEF TypeOK
    <3>3. CASE Concludes(r)
      BY <2>3, <2>4, <3>2, <3>3 DEF Concludes
    <3>4. CASE \E b \in Batches : Asks(r, b)
      BY <3>2, <3>4 DEF Asks
    <3>5. QED
      BY <1>5, <3>1, <3>3, <3>4 DEF GraphStep
  <2>6. ckpt'.next = "pause" => ckpt'.carry = run'[r].carried + run'[r].calls
    <3>1. CASE Guards(r) \/ Passes(r) \/ Concludes(r) \/ Works(r)
      BY <3>1 DEF Guards, Passes, Concludes, Works
    <3>2. CASE Skips(r) \/ \E z : GoesOn(r, z)
      BY <3>2 DEF Skips, GoesOn
    <3>3. ASSUME NEW b \in Batches, Asks(r, b), ckpt'.next = "pause"
          PROVE  ckpt'.carry = run'[r].carried + run'[r].calls
      <4>1. \E i \in Items(b) : i.what \in catalog
        BY <3>3 DEF Asks
      <4>2. ckpt'.carry = Totals(run[r]) + 1
        BY <3>3, <4>1 DEF Asks, TypeOK, IsCart
      <4>3. QED
        BY <1>2, <2>3, <3>3, <4>2 DEF Asks, Totals
    <3>4. QED
      BY <1>5, <3>1, <3>2, <3>3 DEF GraphStep
  <2>7. QED
    BY <2>2, <2>5, <2>6 DEF Counted
<1>6. QED
  BY <1>1, <1>3, <1>4, <1>5, QuietSteps

\* The parts together.
LEMMA StepRows ==
    OneTab /\ TypeOK /\ Solo /\ RowsInv /\ Step => RowsInv'
<1> SUFFICES ASSUME OneTab, TypeOK, Solo, RowsInv, Step PROVE RowsInv'
  OBVIOUS
<1> USE DEF RowsInv
<1>1. Started' /\ Ended' /\ Counted'
  BY StepStarted, StepEnded, StepCounted
<1>2. CASE UNCHANGED <<rows, llmUsed>>
  BY <1>1, <1>2 DEF OneRowPerTurn, RowCountsWholeTurn
<1>3. ASSUME NEW r \in Requests, GraphStep(r) PROVE RowsInv'
  <2>1. \A q \in Requests : Final(q) => rows[q].turn # ckpt.turn
    BY <1>3, GraphDoes, NotEnded
  <2>2. rows' = rows /\ \A q \in Requests \ {ckpt.turn} : llmUsed'[q] = llmUsed[q]
    BY <1>3, GraphDoes DEF Graph, TypeOK
  <2>3. \A q \in Requests : Final(q) => rows[q].turn \in Requests
    BY DEF Started
  <2>4. OneRowPerTurn'
    BY <2>2 DEF OneRowPerTurn
  <2>5. RowCountsWholeTurn'
    BY <2>1, <2>2, <2>3 DEF RowCountsWholeTurn, Final
  <2>6. QED
    BY <1>1, <2>4, <2>5
<1>4. ASSUME NEW r \in Requests, Finishes(r) PROVE RowsInv'
  <2>1. /\ run[r].pc = "running" /\ llmUsed' = llmUsed
        /\ \A q \in Requests \ {r} : rows'[q] = rows[q]
        /\ rows'[r].turn = ckpt.turn /\ rows'[r].used = Totals(run[r])
    BY <1>4 DEF Finishes, Ends
  <2>2. \A q \in Requests : Final(q) => rows[q].turn # ckpt.turn
    BY <2>1, NotEnded
  <2>3. OneRowPerTurn'
    BY <2>1, <2>2 DEF OneRowPerTurn, Final
  <2>4. rows'[r].used = llmUsed[ckpt.turn]
    BY <2>1 DEF Counted, Totals
  <2>5. RowCountsWholeTurn'
    BY <2>1, <2>4 DEF RowCountsWholeTurn
  <2>6. QED
    BY <1>1, <2>3, <2>5
<1>5. ASSUME NEW r \in Requests, Fails(r) PROVE RowsInv'
  <2>1. /\ llmUsed' = llmUsed /\ rows'[r].outcome = "error"
        /\ \A q \in Requests \ {r} : rows'[q] = rows[q]
    BY <1>5 DEF Fails, Ends
  <2>2. OneRowPerTurn' /\ RowCountsWholeTurn'
    BY <2>1 DEF OneRowPerTurn, RowCountsWholeTurn
  <2>3. QED
    BY <1>1, <2>2
<1>6. QED
  BY <1>2, <1>3, <1>4, <1>5, QuietSteps DEF Quiet, Sends

\* What the theorems about rows rest on, from one step to the next.
LEMMA RowsNext ==
    ASSUME OneTab
    PROVE  TypeOK /\ HistoryInv /\ Solo /\ RowsInv /\ [Next]_vars => RowsInv'
  BY NextIsStep, StepRows

\* In one tab a turn that ended has one row, however many requests it took and
\* whichever of them failed.
THEOREM TurnsHaveOneRow ==
    ASSUME OneTab
    PROVE  Spec => []OneRowPerTurn
<1>1. RowsInv => OneRowPerTurn
  BY DEF RowsInv
<1>2. TypeOK /\ HistoryInv /\ Solo /\ [Next]_vars => Solo'
  BY SoloNext
<1>3. TypeOK /\ HistoryInv /\ Solo /\ RowsInv /\ [Next]_vars => RowsInv'
  BY RowsNext
<1>4. QED
  BY <1>1, <1>2, <1>3, InitType, NextType, HistoryInit, HistoryNext, SoloInit,
     RowsInit, PTL DEF Spec

\* And that row counts the model calls of all the turn's requests and of no
\* other turn.
THEOREM RowsCountWholeTurns ==
    ASSUME OneTab
    PROVE  Spec => []RowCountsWholeTurn
<1>1. RowsInv => RowCountsWholeTurn
  BY DEF RowsInv
<1>2. TypeOK /\ HistoryInv /\ Solo /\ [Next]_vars => Solo'
  BY SoloNext
<1>3. TypeOK /\ HistoryInv /\ Solo /\ RowsInv /\ [Next]_vars => RowsInv'
  BY RowsNext
<1>4. QED
  BY <1>1, <1>2, <1>3, InitType, NextType, HistoryInit, HistoryNext, SoloInit,
     RowsInit, PTL DEF Spec

-----------------------------------------------------------------------------
(* A turn's outcome is what happened in it.                                  *)

\* The calls of the turn the thread is at.
Mine == {c \in ckpt.calls : c.turn = ckpt.turn}

\* The results of the turn's cart calls say what was added.
Ran ==
    /\ ckpt.next = "begin" => Mine = {} /\ ~TurnAdded(ckpt.turn)
    /\ ckpt.next \in {"model", "end"} => Mine \cap Open(ckpt) = {}
    /\ ckpt.next \in {"pause", "tools"} => Open(ckpt) \subseteq Mine
    /\ \A a \in added : a.turn = ckpt.turn =>
          \E c \in Mine : IsCart(c.item) /\ c.status = "ran"
    /\ \A c \in Mine : /\ c.status # "orphan"
                       /\ c.status = "ran" /\ IsCart(c.item) => TurnAdded(ckpt.turn)
                       /\ catalog = Products => c.status # "missing"

OutcomeInv == Ran /\ OutcomeIsWhatHappened

\* Nothing ran at first.
LEMMA OutcomeInit == Init => OutcomeInv
  BY DEF Init, NoThread, NoRow, OutcomeInv, Ran, Mine, Open, TurnAdded,
         OutcomeIsWhatHappened

\* The calls of the turn after a step of the graph that rewrites calls.
LEMMA MineRewritten ==
    ASSUME NEW kept, kept \subseteq ckpt.calls, NEW f, Rewrites(kept, f),
           ckpt'.turn = ckpt.turn
    PROVE  /\ \A d \in Mine' : \E c \in Mine \cap kept : d = f[c]
           /\ \A c \in Mine \cap kept : f[c] \in Mine'
  BY DEF Rewrites, Mine

\* A step of the graph other than the tools keeps the turn's results, and adds
\* nothing.
LEMMA RanKept ==
    ASSUME Ran, ckpt'.turn = ckpt.turn, UNCHANGED <<catalog, added>>,
           \A c \in Mine : c.status = "ran" => c \in Mine',
           \A d \in Mine' : /\ d.status # "orphan"
                            /\ d.status \in {"ran", "missing"} => d \in Mine,
           ckpt'.next # "begin",
           ckpt'.next \in {"model", "end"} => Mine' \cap Open(ckpt)' = {},
           ckpt'.next \in {"pause", "tools"} => Open(ckpt)' \subseteq Mine'
    PROVE  Ran'
  BY DEF Ran, TurnAdded

\* What a copy of the thread says ran did run.
LEMMA StepRan ==
    ASSUME "list" \notin CatalogEvents
    PROVE  TypeOK /\ HistoryInv /\ Solo /\ Started /\ Ran /\ Step => Ran'
<1> SUFFICES ASSUME TypeOK, HistoryInv, Solo, Started, Ran, Step PROVE Ran'
  OBVIOUS
<1>1. CASE UNCHANGED <<ckpt, added>> /\ catalog' \subseteq catalog
  <2>1. catalog' = Products => catalog = Products
    BY <1>1 DEF TypeOK
  <2>2. Mine' = Mine /\ Open(ckpt)' = Open(ckpt)
    BY <1>1 DEF Mine, Open
  <2>3. QED
    BY <1>1, <2>1, <2>2 DEF Ran, TurnAdded
<1>2. ASSUME NEW t \in Tabs, NEW r \in Requests, Sends(t, r) PROVE Ran'
  <2>1. /\ ckpt'.next = "begin" /\ ckpt'.turn = r /\ ckpt'.calls = ckpt.calls
        /\ ~Used(r) /\ added' = added
    BY <1>2 DEF Sends, Used
  <2>2. Mine' = {} /\ \A a \in added' : a.turn # ckpt'.turn
    BY <2>1 DEF Started, Mine
  <2>3. QED
    BY <2>1, <2>2 DEF Ran, TurnAdded
<1>3. ASSUME NEW r \in Requests, GraphStep(r) PROVE ckpt'.turn = ckpt.turn /\ catalog' = catalog
  BY <1>3, GraphDoes DEF Graph
<1>4. ASSUME NEW r \in Requests, Guards(r) PROVE Ran'
  <2>1. /\ Mine = {} /\ Mine' = {} /\ ckpt'.next = "end" /\ ckpt'.turn = ckpt.turn
        /\ UNCHANGED <<catalog, added>>
    BY <1>4 DEF Guards, Graph, Ran, Mine
  <2>2. QED
    BY <2>1, RanKept
<1>5. ASSUME NEW r \in Requests, Passes(r) PROVE Ran'
  <2>1. PICK f : Rewrites(ckpt.calls \ Open(ckpt), f)
    BY <1>5 DEF Passes
  <2>2. /\ Mine = {} /\ ckpt'.next = "model" /\ ckpt'.turn = ckpt.turn
        /\ UNCHANGED <<catalog, added>>
    BY <1>5 DEF Passes, Graph, Ran
  <2>3. Mine' = {}
    BY <2>1, <2>2, MineRewritten
  <2>4. QED
    BY <2>2, <2>3, RanKept
<1>6. ASSUME NEW r \in Requests, Concludes(r) PROVE Ran'
  <2>1. /\ ckpt'.calls = ckpt.calls /\ ckpt'.turn = ckpt.turn /\ ckpt'.next = "end"
        /\ ckpt.next = "model" /\ UNCHANGED <<catalog, added>>
    BY <1>6 DEF Concludes, Graph
  <2>2. Mine' = Mine /\ Open(ckpt)' = Open(ckpt)
    BY <2>1 DEF Mine, Open
  <2>3. QED
    BY <2>1, <2>2, RanKept DEF Ran
<1>7. ASSUME NEW r \in Requests, NEW b \in Batches, Asks(r, b) PROVE Ran'
  <2> DEFINE call(i) == [msg |-> asked + 1, turn |-> ckpt.turn, item |-> i,
                         status |-> "open"]
             new == {call(i) : i \in Items(b)}
  <2>1. /\ ckpt'.calls = ckpt.calls \cup new /\ ckpt'.turn = ckpt.turn
        /\ ckpt'.next \in {"pause", "tools"} /\ UNCHANGED <<catalog, added>>
    BY <1>7 DEF Asks, Graph
  <2>2. \A i \in Items(b) : call(i).turn = ckpt.turn /\ call(i).status = "open"
    OBVIOUS
  <2>3. Open(ckpt) = {}
    BY <1>7 DEF Asks, HistoryInv, History
  <2> HIDE DEF call
  <2>4. \A c \in new : c.turn = ckpt.turn /\ c.status = "open"
    BY <2>2
  <2> HIDE DEF new
  <2>5. Mine' = Mine \cup new /\ Open(ckpt)' \subseteq Mine'
    BY <2>1, <2>3, <2>4 DEF Mine, Open
  <2>6. QED
    BY <2>1, <2>4, <2>5, RanKept DEF Ran
<1>8. ASSUME NEW r \in Requests, Skips(r) PROVE Ran'
  <2>1. PICK f : /\ Rewrites(ckpt.calls, f)
                 /\ \A c \in ckpt.calls :
                       /\ f[c].item = c.item
                       /\ IsPaused(c, ckpt.pause) => f[c].status = "error"
                       /\ ~IsPaused(c, ckpt.pause) => f[c] = c
    BY <1>8 DEF Skips
  <2>2. /\ ckpt'.next \in {"tools", "model"} /\ ckpt'.turn = ckpt.turn
        /\ ckpt.next = "pause" /\ UNCHANGED <<catalog, added>>
    BY <1>8 DEF Skips, Graph
  <2>3. /\ \A d \in Mine' : \E c \in Mine : d = f[c]
        /\ \A c \in Mine : f[c] \in Mine'
    BY <2>1, <2>2, MineRewritten DEF Mine
  <2>4. \A c \in Mine : c.status = "ran" => c \in Mine'
    BY <2>1, <2>3 DEF IsPaused, Mine
  <2>5. \A d \in Mine' : d.status = "error" \/ d \in Mine
    BY <2>1, <2>3 DEF Mine
  <2>6. Open(ckpt)' \subseteq Mine'
    <3>1. ASSUME NEW d \in Open(ckpt)' PROVE d \in Mine'
      <4>1. PICK c \in ckpt.calls : d = f[c]
        BY <2>1 DEF Open, Rewrites
      <4>2. c \in Open(ckpt)
        BY <2>1, <4>1 DEF Open
      <4>3. QED
        BY <2>2, <2>3, <4>1, <4>2 DEF Ran
    <3>2. QED
      BY <3>1
  <2>7. ckpt'.next = "model" => Open(ckpt)' = {}
    BY <1>8 DEF Skips
  <2>8. QED
    BY <2>2, <2>4, <2>5, <2>6, <2>7, RanKept DEF Ran
<1>9. ASSUME NEW r \in Requests, NEW z, GoesOn(r, z) PROVE Ran'
  <2>1. PICK f : /\ Rewrites(ckpt.calls, f)
                 /\ \A c \in ckpt.calls :
                       /\ f[c].status = c.status
                       /\ ~IsPaused(c, ckpt.pause) => f[c] = c
    BY <1>9 DEF GoesOn
  <2>2. /\ ckpt'.next = "tools" /\ ckpt'.turn = ckpt.turn
        /\ ckpt.next = "pause" /\ UNCHANGED <<catalog, added>>
    BY <1>9 DEF GoesOn, Graph
  <2>3. /\ \A d \in Mine' : \E c \in Mine : d = f[c]
        /\ \A c \in Mine : f[c] \in Mine'
    BY <2>1, <2>2, MineRewritten DEF Mine
  <2>4. \A c \in Mine : c.status = "ran" => c \in Mine'
    BY <2>1, <2>3 DEF IsPaused, Mine
  <2>5. \A d \in Mine' : d.status = "open" \/ d \in Mine
    BY <2>1, <2>3 DEF Mine, IsPaused
  <2>6. Open(ckpt)' \subseteq Mine'
    <3>1. ASSUME NEW d \in Open(ckpt)' PROVE d \in Mine'
      <4>1. PICK c \in ckpt.calls : d = f[c]
        BY <2>1 DEF Open, Rewrites
      <4>2. c \in Open(ckpt)
        BY <2>1, <4>1 DEF Open
      <4>3. QED
        BY <2>2, <2>3, <4>1, <4>2 DEF Ran
    <3>2. QED
      BY <3>1
  <2>7. QED
    BY <2>2, <2>4, <2>5, <2>6, RanKept DEF Ran
<1>10. ASSUME NEW r \in Requests, Works(r) PROVE Ran'
  <2>1. PICK f : /\ Rewrites(ckpt.calls, f)
                 /\ \A c \in ckpt.calls : f[c].item = c.item
                 /\ \A c \in Open(ckpt) : f[c].status = Result(c.item)
                 /\ \A c \in ckpt.calls \ Open(ckpt) : f[c] = c
    BY <1>10 DEF Works
  <2>2. /\ ckpt'.next = "model" /\ ckpt'.turn = ckpt.turn /\ ckpt.next = "tools"
        /\ added' = added \cup Adds(r) /\ catalog' = catalog
    BY <1>10 DEF Works, Graph
  <2>3. /\ \A d \in Mine' : \E c \in Mine : d = f[c]
        /\ \A c \in Mine : f[c] \in Mine'
    BY <2>1, <2>2, MineRewritten DEF Mine
  <2>4. \A a \in Adds(r) : \E c \in Open(ckpt) :
           a.item = c.item /\ IsCart(c.item) /\ Result(c.item) = "ran"
    BY DEF Adds
  <2>5. ASSUME NEW a \in added', a.turn = ckpt'.turn
        PROVE  \E d \in Mine' : IsCart(d.item) /\ d.status = "ran"
    <3>1. CASE a \in added
      <4>1. PICK c \in Mine : IsCart(c.item) /\ c.status = "ran"
        BY <2>2, <2>5, <3>1 DEF Ran
      <4>2. f[c] = c
        BY <2>1, <4>1 DEF Mine, Open
      <4>3. QED
        BY <2>3, <4>1, <4>2
    <3>2. CASE a \in Adds(r)
      <4>1. PICK c \in Open(ckpt) : IsCart(c.item) /\ Result(c.item) = "ran"
        BY <2>4, <3>2
      <4>2. c \in Mine /\ c \in ckpt.calls
        BY <2>2 DEF Ran, Open
      <4>3. f[c].status = "ran" /\ f[c].item = c.item
        BY <2>1, <4>1, <4>2
      <4>4. QED
        BY <2>3, <4>1, <4>2, <4>3
    <3>3. QED
      BY <2>2, <2>5, <3>1, <3>2
  <2>6. ASSUME NEW d \in Mine'
        PROVE  /\ d.status \notin {"open", "orphan"}
               /\ d.status = "ran" /\ IsCart(d.item) => TurnAdded(ckpt.turn)'
               /\ catalog' = Products => d.status # "missing"
    <3>1. PICK c \in Mine : d = f[c]
      BY <2>3
    <3>2. c \in ckpt.calls
      BY DEF Mine
    <3>3. CASE c \in Open(ckpt)
      <4>1. d.status = Result(c.item) /\ d.item = c.item
        BY <2>1, <3>1, <3>2, <3>3
      <4>2. Result(c.item) = "ran" /\ IsCart(c.item) =>
               [item |-> c.item, by |-> r, turn |-> ckpt.turn] \in added'
        BY <2>2, <3>3 DEF Adds
      <4>3. Result(c.item) = "ran" /\ IsCart(c.item) => TurnAdded(ckpt.turn)'
        BY <2>2, <4>2 DEF TurnAdded
      <4>4. QED
        BY <2>2, <4>1, <4>3 DEF Result, IsCart
    <3>4. CASE c \notin Open(ckpt)
      <4>1. d = c /\ d.status # "open"
        BY <2>1, <3>1, <3>2, <3>4 DEF Open
      <4>2. TurnAdded(ckpt.turn) => TurnAdded(ckpt.turn)'
        BY <2>2 DEF TurnAdded
      <4>3. QED
        BY <2>2, <4>1, <4>2 DEF Ran
    <3>5. QED
      BY <3>3, <3>4
  <2>7. QED
    BY <2>2, <2>5, <2>6 DEF Ran, Open
<1>11. ASSUME NEW r \in Requests, GraphStep(r) PROVE Ran'
  BY <1>4, <1>5, <1>6, <1>7, <1>8, <1>9, <1>10, <1>11 DEF GraphStep
<1>12. QED
  BY <1>1, <1>2, <1>11
     DEF Step, Answers, Delivers, Finishes, Pauses, Fails, Ends, Restarts, Shops

\* With it the rows say what happened.
LEMMA StepOutcome ==
    ASSUME OneTab, "list" \notin CatalogEvents
    PROVE  TypeOK /\ HistoryInv /\ Solo /\ RowsInv /\ OutcomeInv /\ Step => OutcomeInv'
<1> SUFFICES ASSUME TypeOK, HistoryInv, Solo, RowsInv, OutcomeInv, Step
             PROVE  OutcomeInv'
  OBVIOUS
<1>1. Ran'
  BY StepRan DEF RowsInv, OutcomeInv
<1>2. CASE UNCHANGED <<rows, added>> /\ catalog' \subseteq catalog
  <2>1. catalog' = Products => catalog = Products
    BY <1>2 DEF TypeOK
  <2>2. QED
    BY <1>1, <1>2, <2>1 DEF OutcomeInv, OutcomeIsWhatHappened, TurnAdded
<1>3. ASSUME NEW r \in Requests, GraphStep(r) PROVE OutcomeInv'
  <2>1. \A q \in Requests : Final(q) => rows[q].turn # ckpt.turn
    BY <1>3, GraphDoes, NotEnded DEF RowsInv
  <2>2. /\ rows' = rows /\ catalog' = catalog
        /\ added' = added \/ added' = added \cup Adds(r)
        /\ \A a \in Adds(r) : a.turn = ckpt.turn
    BY <1>3, GraphDoes DEF Graph, Adds
  <2>3. \A q \in Requests : Final(q) =>
           (TurnAdded(rows[q].turn)' <=> TurnAdded(rows[q].turn))
    BY <2>1, <2>2 DEF TurnAdded
  <2>4. OutcomeIsWhatHappened'
    BY <2>2, <2>3 DEF OutcomeInv, OutcomeIsWhatHappened, Final
  <2>5. QED
    BY <1>1, <2>4 DEF OutcomeInv
<1>4. ASSUME NEW r \in Requests, Finishes(r) PROVE OutcomeInv'
  <2>1. /\ ckpt.next = "end" /\ UNCHANGED <<ckpt, catalog, added>>
        /\ rows'[r].turn = ckpt.turn /\ rows'[r].outcome = Outcome(ckpt)
        /\ \A q \in Requests \ {r} : rows'[q] = rows[q]
    BY <1>4 DEF Finishes, Ends
  <2>2. ASSUME Outcome(ckpt) # "guardrail", TurnAdded(ckpt.turn)
        PROVE  Outcome(ckpt) = "cart"
    <3>1. Tool("cart", ckpt)
      BY <2>2 DEF OutcomeInv, Ran, Mine, TurnAdded, Tool
    <3>2. QED
      BY <2>2, <3>1 DEF Outcome
  <2>3. ASSUME Outcome(ckpt) = "cart", catalog = Products
        PROVE  TurnAdded(ckpt.turn)
    <3>1. PICK c \in Mine : c.status # "error" /\ IsCart(c.item)
      BY <2>3 DEF Outcome, Tool, Mine
    <3>2. c.status \in {"open", "ran", "missing", "error", "orphan"}
      BY DEF Mine, TypeOK, State, Call
    <3>3. c.status # "open"
      BY <2>1 DEF OutcomeInv, Ran, Mine, Open
    <3>4. QED
      BY <2>3, <3>1, <3>2, <3>3 DEF OutcomeInv, Ran
  <2>4. OutcomeIsWhatHappened'
    BY <2>1, <2>2, <2>3 DEF OutcomeInv, OutcomeIsWhatHappened, TurnAdded
  <2>5. QED
    BY <1>1, <2>4 DEF OutcomeInv
<1>5. ASSUME NEW r \in Requests, Fails(r) PROVE OutcomeInv'
  <2>1. /\ UNCHANGED <<catalog, added>> /\ rows'[r].outcome = "error"
        /\ \A q \in Requests \ {r} : rows'[q] = rows[q]
    BY <1>5 DEF Fails, Ends
  <2>2. OutcomeIsWhatHappened'
    BY <2>1 DEF OutcomeInv, OutcomeIsWhatHappened, TurnAdded
  <2>3. QED
    BY <1>1, <2>2 DEF OutcomeInv
<1>6. QED
  BY <1>2, <1>3, <1>4, <1>5
     DEF Step, Sends, Answers, Delivers, Pauses, Ends, Restarts, Shops

\* In one tab, and while the shop lists nothing new, the outcome a turn is
\* recorded with is cart if an add of the turn ran, in whichever of its requests,
\* and, with every product in the shop, only then.
THEOREM OutcomesAreWhatHappened ==
    ASSUME OneTab, "list" \notin CatalogEvents
    PROVE  Spec => []OutcomeIsWhatHappened
<1>1. OutcomeInv => OutcomeIsWhatHappened
  BY DEF OutcomeInv
<1>2. TypeOK /\ HistoryInv /\ Solo /\ [Next]_vars => Solo'
  BY SoloNext
<1>3. TypeOK /\ HistoryInv /\ Solo /\ RowsInv /\ [Next]_vars => RowsInv'
  BY RowsNext
<1>4. TypeOK /\ HistoryInv /\ Solo /\ RowsInv /\ OutcomeInv /\ [Next]_vars
         => OutcomeInv'
  BY NextIsStep, StepOutcome
<1>5. QED
  BY <1>1, <1>2, <1>3, <1>4, InitType, NextType, HistoryInit, HistoryNext, SoloInit,
     RowsInit, OutcomeInit, PTL DEF Spec

-----------------------------------------------------------------------------
(* What is added was on a card and agreed to.                                *)

\* The tab shows the card the thread waits for, unless a request of its own is
\* about to change it, and what may run was on a card that was agreed to.
ConsentInv ==
    /\ \A t \in Tabs : tab[t].card \subseteq shown
    /\ consented \subseteq shown
    /\ \A t \in Tabs : tab[t].card # {} /\ ckpt.pause # {} =>
          \/ tab[t].card = ckpt.pause
          \/ \E r \in Requests : tab[t].busy = r
                                 /\ run[r].pc \in {"running", "replied"}
    /\ \A r \in Requests :
          run[r].pc = "resuming" /\ run[r].kind = "yes" => run[r].decided \subseteq consented
    /\ ckpt.next = "tools" => Loose(ckpt, consented) = {}
    /\ ckpt.next = "pause" => Loose(ckpt, ckpt.pause) = {}
    /\ AddsWereConsented

\* Nothing is added at first.
LEMMA ConsentInit == Init => ConsentInv
  BY DEF Init, NoThread, NoRun, ConsentInv, AddsWereConsented

\* A step adds what the shopper agreed to.
LEMMA StepConsent ==
    ASSUME OneTab, "list" \notin CatalogEvents, "restart" \notin Faults
    PROVE  TypeOK /\ HistoryInv /\ Solo /\ ConsentInv /\ Step => ConsentInv'
<1> SUFFICES ASSUME TypeOK, HistoryInv, Solo, ConsentInv, Step PROVE ConsentInv'
  OBVIOUS
<1>1. ASSUME NEW t \in Tabs, NEW r \in Requests, Sends(t, r) PROVE ConsentInv'
  <2>1. \A u \in Tabs : u = t
    BY DEF OneTab
  <2>2. \A q \in Requests : run'[q].pc = "resuming" => run'[q] = run[q]
    BY <1>1 DEF Sends, Others
  <2>3. QED
    BY <1>1, <2>1, <2>2 DEF Sends, ConsentInv, AddsWereConsented
<1>2. ASSUME NEW t \in Tabs, NEW r \in Requests, NEW yes \in BOOLEAN,
             Answers(t, r, yes)
      PROVE  ConsentInv'
  <2>1. \A u \in Tabs : u = t
    BY DEF OneTab
  <2>2. ckpt.pause # {} => tab[t].card = ckpt.pause
    BY <1>2, NamesAssumption DEF Answers, ConsentInv
  <2>3. /\ ckpt' = ckpt /\ shown' = shown /\ catalog' = catalog /\ added' = added
        /\ tab'[t].card = tab[t].card /\ consented \subseteq consented'
        /\ consented' \subseteq consented \cup tab[t].card
    BY <1>2 DEF Answers
  <2>4. ASSUME NEW q \in Requests, run'[q].pc = "resuming", run'[q].kind = "yes"
        PROVE  run'[q].decided \subseteq consented'
    <3>1. CASE q = r
      BY <1>2, <2>2, <2>4, <3>1 DEF Answers
    <3>2. CASE q # r
      BY <1>2, <2>3, <2>4, <3>2 DEF Answers, Others, ConsentInv
    <3>3. QED
      BY <3>1, <3>2
  <2>5. Loose(ckpt, consented) = {} => Loose(ckpt, consented)' = {}
    BY <2>3 DEF Loose, Open
  <2>6. Loose(ckpt, ckpt.pause)' = Loose(ckpt, ckpt.pause)
    BY <2>3 DEF Loose, Open
  <2>7. AddsWereConsented'
    BY <2>3 DEF ConsentInv, AddsWereConsented
  <2>8. consented' \subseteq shown' /\ \A u \in Tabs : tab'[u].card \subseteq shown'
    BY <2>1, <2>3 DEF ConsentInv
  <2>9. QED
    BY <2>1, <2>2, <2>3, <2>4, <2>5, <2>6, <2>7, <2>8 DEF ConsentInv
<1>3. ASSUME NEW t \in Tabs, NEW r \in Requests, Delivers(t, r) PROVE ConsentInv'
  <2>1. \A u \in Tabs : u = t
    BY DEF OneTab
  <2>2. /\ UNCHANGED <<ckpt, catalog, added, consented>>
        /\ tab'[t].card \subseteq shown' /\ shown \subseteq shown'
    BY <1>3 DEF Delivers
  <2>3. ckpt.pause # {} /\ tab'[t].card # {} => tab'[t].card = ckpt.pause
    BY <1>3 DEF Delivers, ConsentInv
  <2>4. \A q \in Requests : run'[q].pc = "resuming" => run'[q] = run[q]
    BY <1>3 DEF Delivers, Others
  <2>5. /\ Loose(ckpt, consented)' = Loose(ckpt, consented)
        /\ Loose(ckpt, ckpt.pause)' = Loose(ckpt, ckpt.pause)
    BY <2>2 DEF Loose, Open
  <2>6. QED
    BY <2>1, <2>2, <2>3, <2>4, <2>5 DEF ConsentInv, AddsWereConsented
<1>4. ASSUME NEW r \in Requests, Finishes(r) \/ Pauses(r) PROVE ConsentInv'
  <2>1. /\ UNCHANGED <<ckpt, tab, shown, catalog, added, consented>>
        /\ run'[r].pc = "replied" /\ run[r].pc = "running" /\ Others(r)
    BY <1>4 DEF Finishes, Pauses, Ends
  <2>2. \A q \in Requests :
           /\ run'[q].pc = "resuming" => run'[q] = run[q]
           /\ run[q].pc \in {"running", "replied"}
                 => run'[q].pc \in {"running", "replied"}
    BY <2>1 DEF Others
  <2>3. /\ Loose(ckpt, consented)' = Loose(ckpt, consented)
        /\ Loose(ckpt, ckpt.pause)' = Loose(ckpt, ckpt.pause)
    BY <2>1 DEF Loose, Open
  <2>4. QED
    BY <2>1, <2>2, <2>3 DEF ConsentInv, AddsWereConsented
<1>5. ASSUME NEW r \in Requests, Fails(r) PROVE ConsentInv'
  <2>1. /\ UNCHANGED <<ckpt, tab, shown, catalog, added, consented>>
        /\ run'[r].pc = "failed" /\ Others(r)
        /\ \/ run[r].pc = "resuming"
           \/ run[r].pc = "running" /\ ckpt.next # "pause"
    BY <1>5 DEF Fails, Ends
  <2>2. \A q \in Requests \ {r} : ~Active(q)
    BY <2>1, OthersRest DEF Solo, Active
  <2>3. ASSUME NEW t \in Tabs, tab[t].card # {}, ckpt.pause # {}
        PROVE  tab[t].card = ckpt.pause
    <3>1. run[r].pc = "resuming"
      BY <2>1, <2>3 DEF Solo, PauseShape
    <3>2. \A q \in Requests : run[q].pc \notin {"running", "replied"}
      BY <2>2, <3>1 DEF Active
    <3>3. QED
      BY <2>3, <3>2 DEF ConsentInv
  <2>4. \A q \in Requests : run'[q].pc = "resuming" => run'[q] = run[q]
    BY <2>1 DEF Others
  <2>5. /\ Loose(ckpt, consented)' = Loose(ckpt, consented)
        /\ Loose(ckpt, ckpt.pause)' = Loose(ckpt, ckpt.pause)
    BY <2>1 DEF Loose, Open
  <2>6. QED
    BY <2>1, <2>3, <2>4, <2>5 DEF ConsentInv, AddsWereConsented
<1>6. ASSUME Shops PROVE ConsentInv'
  <2>1. /\ UNCHANGED <<ckpt, run, tab, shown, added, consented>>
        /\ catalog' \subseteq catalog
    BY <1>6 DEF Shops
  <2>3. /\ ckpt.next = "tools" => Loose(ckpt, consented)' = {}
        /\ ckpt.next = "pause" => Loose(ckpt, ckpt.pause)' = {}
    <3>1. /\ Loose(ckpt, consented)' \subseteq Loose(ckpt, consented)
          /\ Loose(ckpt, ckpt.pause)' \subseteq Loose(ckpt, ckpt.pause)
      BY <2>1 DEF Loose, Open
    <3>2. QED
      BY <3>1 DEF ConsentInv
  <2>4. QED
    BY <2>1, <2>3 DEF ConsentInv, AddsWereConsented
<1>7. ASSUME NEW r \in Requests, GraphStep(r), AddsWereConsented',
             ckpt'.next = "tools" => Loose(ckpt, consented)' = {},
             ckpt'.next = "pause" => Loose(ckpt, ckpt.pause)' = {}
      PROVE  ConsentInv'
  <2>1. /\ UNCHANGED <<tab, shown, catalog, consented>>
        /\ run'[r].pc = "running" /\ Others(r) /\ Active(r)
    BY <1>7, GraphDoes DEF Graph, Active
  <2>2. \A t \in Tabs : tab[t].busy = r
    BY <2>1 DEF Solo, Awaited, Heard, OneTab
  <2>3. \A q \in Requests : run'[q].pc = "resuming" => run'[q] = run[q]
    BY <2>1 DEF Others
  <2>4. QED
    BY <1>7, <2>1, <2>2, <2>3 DEF ConsentInv
<1>8. ASSUME NEW r \in Requests, Guards(r) \/ Passes(r) \/ Concludes(r)
      PROVE  ConsentInv'
  <2>1. ckpt'.next \notin {"tools", "pause"} /\ UNCHANGED <<added, consented>>
    BY <1>8 DEF Guards, Passes, Concludes, Graph
  <2>2. AddsWereConsented'
    BY <2>1 DEF ConsentInv, AddsWereConsented
  <2>3. QED
    BY <1>7, <1>8, <2>1, <2>2 DEF GraphStep
<1>9. ASSUME NEW r \in Requests, NEW b \in Batches, Asks(r, b) PROVE ConsentInv'
  <2> DEFINE call(i) == [msg |-> asked + 1, turn |-> ckpt.turn, item |-> i,
                         status |-> "open"]
             new == {call(i) : i \in Items(b)}
  <2>1. /\ ckpt'.calls = ckpt.calls \cup new
        /\ ckpt'.pause = {i \in Items(b) : i.what \in catalog}
        /\ ckpt'.next = IF ckpt'.pause = {} THEN "tools" ELSE "pause"
        /\ UNCHANGED <<catalog, added, consented>>
    BY <1>9 DEF Asks, Graph
  <2>2. Open(ckpt) = {}
    BY <1>9 DEF Asks, HistoryInv, History
  <2>3. \A i \in Items(b) : call(i).item = i
    OBVIOUS
  <2> HIDE DEF call
  <2>4. \A c \in new : c.item \in Items(b)
    BY <2>3
  <2> HIDE DEF new
  <2>5. \A c \in Open(ckpt)' : c.item.what \in catalog => c.item \in ckpt'.pause
    BY <2>1, <2>2, <2>4 DEF Open
  <2>6. /\ ckpt'.next = "tools" => Loose(ckpt, consented)' = {}
        /\ ckpt'.next = "pause" => Loose(ckpt, ckpt.pause)' = {}
    BY <2>1, <2>5 DEF Loose
  <2>7. AddsWereConsented'
    BY <2>1 DEF ConsentInv, AddsWereConsented
  <2>8. GraphStep(r)
    BY <1>9 DEF GraphStep
  <2>9. QED
    BY <1>7, <2>6, <2>7, <2>8
<1>10. ASSUME NEW r \in Requests, Works(r) PROVE ConsentInv'
  <2>1. /\ ckpt'.next = "model" /\ ckpt.next = "tools"
        /\ added' = added \cup Adds(r) /\ consented' = consented
    BY <1>10 DEF Works, Graph
  <2>2. \A a \in Adds(r) : \E c \in Open(ckpt) :
           a.item = c.item /\ IsCart(c.item) /\ c.item.what \in catalog
    BY DEF Adds, Result
  <2>3. \A a \in Adds(r) : a.item \in consented
    BY <2>1, <2>2 DEF ConsentInv, Loose
  <2>4. AddsWereConsented'
    BY <2>1, <2>3 DEF ConsentInv, AddsWereConsented
  <2>5. QED
    BY <1>7, <1>10, <2>1, <2>4 DEF GraphStep
<1>11. ASSUME NEW r \in Requests, Skips(r) PROVE ConsentInv'
  <2>1. PICK f : /\ Rewrites(ckpt.calls, f)
                 /\ \A c \in ckpt.calls :
                       /\ f[c].item = c.item
                       /\ IsPaused(c, ckpt.pause) => f[c].status = "error"
                       /\ ~IsPaused(c, ckpt.pause) => f[c] = c
    BY <1>11 DEF Skips
  <2>2. /\ ckpt'.next # "pause" /\ ckpt.next = "pause"
        /\ UNCHANGED <<catalog, added, consented>>
    BY <1>11 DEF Skips, Graph
  <2>3. \A d \in Open(ckpt)' : d \in Open(ckpt) /\ ~IsPaused(d, ckpt.pause)
    BY <2>1 DEF Open, Rewrites
  <2>4. Loose(ckpt, consented)' = {}
    BY <2>2, <2>3 DEF ConsentInv, Loose, IsPaused, Open
  <2>5. AddsWereConsented'
    BY <2>2 DEF ConsentInv, AddsWereConsented
  <2>6. QED
    BY <1>7, <1>11, <2>2, <2>4, <2>5 DEF GraphStep
<1>12. ASSUME NEW r \in Requests, NEW z, GoesOn(r, z) PROVE ConsentInv'
  <2>1. PICK f : /\ Rewrites(ckpt.calls, f)
                 /\ \A c \in ckpt.calls :
                       /\ f[c].status = c.status
                       /\ IsPaused(c, ckpt.pause) => f[c].item = z[c.item]
                       /\ ~IsPaused(c, ckpt.pause) => f[c] = c
    BY <1>12 DEF GoesOn
  <2>2. /\ ckpt'.next = "tools" /\ ckpt.next = "pause"
        /\ UNCHANGED <<catalog, added, consented>>
        /\ \A i \in ckpt.pause : z[i] \in ckpt.pause
    BY <1>12 DEF GoesOn, Graph
  <2>3. ckpt.pause \subseteq consented
    BY <1>12 DEF GoesOn, Solo, InStep, ConsentInv
  <2>4. ASSUME NEW d \in Open(ckpt)', IsCart(d.item), d.item.what \in catalog
        PROVE  d.item \in consented
    <3>1. PICK c \in ckpt.calls : d = f[c]
      BY <2>1 DEF Open, Rewrites
    <3>2. c.status = "open"
      BY <2>1, <3>1 DEF Open
    <3>3. CASE IsPaused(c, ckpt.pause)
      BY <2>1, <2>2, <2>3, <3>1, <3>3 DEF IsPaused
    <3>4. CASE ~IsPaused(c, ckpt.pause)
      BY <2>1, <2>2, <2>4, <3>1, <3>2, <3>4 DEF IsPaused, ConsentInv, Loose, Open
    <3>5. QED
      BY <3>3, <3>4
  <2>5. Loose(ckpt, consented)' = {}
    BY <2>2, <2>4 DEF Loose
  <2>6. AddsWereConsented'
    BY <2>2 DEF ConsentInv, AddsWereConsented
  <2>7. GraphStep(r)
    BY <1>12 DEF GraphStep
  <2>8. QED
    BY <1>7, <2>2, <2>5, <2>6, <2>7
<1>13. ASSUME NEW r \in Requests, GraphStep(r) PROVE ConsentInv'
  BY <1>8, <1>9, <1>10, <1>11, <1>12, <1>13 DEF GraphStep
<1>14. QED
  BY <1>1, <1>2, <1>3, <1>4, <1>5, <1>6, <1>13 DEF Step, Restarts

\* In one tab, with no restart and nothing new in the shop, every item added was
\* on a card the shopper said yes to: what was seen is what runs.
THEOREM NoAddWithoutConsent ==
    ASSUME OneTab, "list" \notin CatalogEvents, "restart" \notin Faults
    PROVE  Spec => []AddsWereConsented
<1>1. ConsentInv => AddsWereConsented
  BY DEF ConsentInv
<1>2. TypeOK /\ HistoryInv /\ Solo /\ [Next]_vars => Solo'
  BY SoloNext
<1>3. TypeOK /\ HistoryInv /\ Solo /\ ConsentInv /\ [Next]_vars => ConsentInv'
  BY NextIsStep, StepConsent
<1>4. QED
  BY <1>1, <1>2, <1>3, InitType, NextType, HistoryInit, HistoryNext, SoloInit,
     ConsentInit, PTL DEF Spec

-----------------------------------------------------------------------------
(* What was added reaches the cart.                                          *)

\* What the cart has, and what a run brings to it, was added.
Brought ==
    /\ cart \subseteq added
    /\ \A r \in Requests : run[r].acts \subseteq added

\* Nothing has to be brought at first.
LEMMA BroughtInit == Init => Brought
  BY DEF Init, NoRun, Brought

\* What a step of the graph does to the adds and to what its run brings.
LEMMA GraphAdds ==
    ASSUME NEW r \in Requests, GraphStep(r)
    PROVE  \/ added' = added /\ run'[r].acts = run[r].acts
           \/ added' = added \cup Adds(r) /\ run'[r].acts = run[r].acts \cup Adds(r)
<1>1. CASE Guards(r) \/ Passes(r) \/ Skips(r)
  BY <1>1 DEF Guards, Passes, Skips
<1>2. CASE Concludes(r) \/ Works(r)
  BY <1>2 DEF Concludes, Works
<1>3. CASE (\E b \in Batches : Asks(r, b)) \/ \E z : GoesOn(r, z)
  BY <1>3 DEF Asks, GoesOn
<1>4. QED
  BY <1>1, <1>2, <1>3 DEF GraphStep

\* No step puts in the cart, or brings, what was not added.
LEMMA StepBrought == TypeOK /\ Solo /\ Brought /\ Step => Brought'
<1> SUFFICES ASSUME TypeOK, Solo, Brought, Step PROVE Brought'
  OBVIOUS
<1>1. ASSUME NEW t \in Tabs, NEW r \in Requests, Sends(t, r) PROVE Brought'
  BY <1>1 DEF Sends, Others, Brought
<1>2. ASSUME NEW t \in Tabs, NEW r \in Requests, NEW yes \in BOOLEAN,
             Answers(t, r, yes)
      PROVE  Brought'
  BY <1>2 DEF Answers, Others, Brought
<1>3. ASSUME NEW t \in Tabs, NEW r \in Requests, Delivers(t, r) PROVE Brought'
  BY <1>3 DEF Delivers, Others, Brought
<1>4. ASSUME NEW r \in Requests, Finishes(r) \/ Pauses(r) \/ Fails(r)
      PROVE  Brought'
  BY <1>4 DEF Finishes, Pauses, Fails, Ends, Others, Brought
<1>5. ASSUME NEW r \in Requests, GraphStep(r) PROVE Brought'
  <2>1. Others(r) /\ cart' = cart
    BY <1>5, GraphDoes DEF Graph
  <2>2. QED
    BY <1>5, <2>1, GraphAdds DEF Others, Brought
<1>6. CASE Restarts \/ Shops
  BY <1>6 DEF Restarts, Shops, Brought
<1>7. QED
  BY <1>1, <1>2, <1>3, <1>4, <1>5, <1>6 DEF Step

\* An add that is not in the cart is on its way there.
OnItsWay ==
    \A a \in added :
        a \in cart \/ \E r \in Requests : run[r].pc \in {"running", "replied"}
                                          /\ a \in run[r].acts

\* So a request that is answered brings it.
LEMMA StepOnItsWay ==
    ASSUME OneTab, Faults = {}
    PROVE  TypeOK /\ Solo /\ OnItsWay /\ Step => OnItsWay'
<1> SUFFICES ASSUME TypeOK, Solo, OnItsWay, Step PROVE OnItsWay'
  OBVIOUS
<1>1. ASSUME NEW t \in Tabs, NEW r \in Requests, tab[t].busy = NoRequest,
             UNCHANGED <<added, cart>>
      PROVE  OnItsWay'
  <2>1. \A q \in Requests : ~Active(q)
    BY <1>1, NamesAssumption DEF Solo, Awaited, Heard, OneTab
  <2>2. added \subseteq cart
    BY <2>1 DEF OnItsWay, Active
  <2>3. QED
    BY <1>1, <2>2 DEF OnItsWay
<1>2. ASSUME NEW t \in Tabs, NEW r \in Requests, Delivers(t, r) PROVE OnItsWay'
  <2>1. Active(r)
    BY <1>2 DEF Delivers, Active
  <2>2. \A q \in Requests : run[q].pc \in {"running", "replied"} => q = r
    BY <2>1, OthersRest DEF Solo, Active
  <2>3. added' \subseteq cart'
    BY <1>2, <2>2 DEF Delivers, OnItsWay
  <2>4. QED
    BY <2>3 DEF OnItsWay
<1>3. ASSUME NEW r \in Requests, Finishes(r) \/ Pauses(r) PROVE OnItsWay'
  <2>1. /\ run'[r].pc = "replied" /\ run'[r].acts = run[r].acts /\ Others(r)
        /\ UNCHANGED <<added, cart>>
    BY <1>3 DEF Finishes, Pauses, Ends
  <2>2. QED
    BY <2>1 DEF OnItsWay, Others
<1>4. ASSUME NEW r \in Requests, GraphStep(r) PROVE OnItsWay'
  <2>1. Others(r) /\ run'[r].pc = "running" /\ cart' = cart
    BY <1>4, GraphDoes DEF Graph
  <2>2. run[r].acts \subseteq run'[r].acts /\ added' \subseteq added \cup run'[r].acts
    BY <1>4, GraphAdds
  <2>3. QED
    BY <2>1, <2>2 DEF OnItsWay, Others
<1>5. CASE Shops
  BY <1>5 DEF Shops, OnItsWay
<1>6. QED
  BY <1>1, <1>2, <1>3, <1>4, <1>5 DEF Step, Sends, Answers, Fails, Restarts

\* When nothing fails, one tab's cart has every add that ran as soon as nothing is
\* under way.
THEOREM AddsAreDelivered ==
    ASSUME OneTab, Faults = {}
    PROVE  Spec => []EveryAddDelivered
<1>1. Init => OnItsWay
  BY DEF Init, OnItsWay
<1>2. Brought /\ OnItsWay => EveryAddDelivered
  BY DEF Brought, OnItsWay, EveryAddDelivered
<1>3. TypeOK /\ HistoryInv /\ Solo /\ [Next]_vars => Solo'
  BY SoloNext
<1>4. TypeOK /\ HistoryInv /\ Solo /\ Brought /\ [Next]_vars => Brought'
  BY NextIsStep, StepBrought
<1>5. TypeOK /\ HistoryInv /\ Solo /\ OnItsWay /\ [Next]_vars => OnItsWay'
  BY NextIsStep, StepOnItsWay
<1>6. QED
  BY <1>1, <1>2, <1>3, <1>4, <1>5, InitType, NextType, HistoryInit, HistoryNext,
     SoloInit, BroughtInit, PTL DEF Spec

\* A turn that is over has a run that writes its row, or the row.
Written ==
    ckpt.next = "end" =>
        \/ \E r \in Requests : run[r].pc = "running"
        \/ \E r \in Requests : rows[r].turn = ckpt.turn /\ rows[r].outcome # "none"

\* Only a restart ends a turn's run before its row.
LEMMA StepWritten ==
    ASSUME "restart" \notin Faults
    PROVE  Solo /\ Written /\ Step => Written'
<1> SUFFICES ASSUME Solo, Written, Step PROVE Written'
  OBVIOUS
<1>1. ASSUME NEW t \in Tabs, NEW r \in Requests, Sends(t, r) PROVE Written'
  BY <1>1 DEF Sends, Written
<1>2. ASSUME NEW t \in Tabs, NEW r \in Requests, NEW yes \in BOOLEAN,
             Answers(t, r, yes)
      PROVE  Written'
  <2>1. \A q \in Requests : run[q].pc = "running" => run'[q] = run[q]
    BY <1>2 DEF Answers, Others
  <2>2. QED
    BY <1>2, <2>1 DEF Answers, Written
<1>3. ASSUME NEW t \in Tabs, NEW r \in Requests, Delivers(t, r) PROVE Written'
  <2>1. \A q \in Requests : run[q].pc = "running" => run'[q] = run[q]
    BY <1>3 DEF Delivers, Others
  <2>2. QED
    BY <1>3, <2>1 DEF Delivers, Written
<1>4. ASSUME NEW r \in Requests, Finishes(r) PROVE Written'
  <2>1. ckpt' = ckpt /\ rows'[r].turn = ckpt.turn /\ rows'[r].outcome # "none"
    BY <1>4 DEF Finishes, Ends, Outcome
  <2>2. QED
    BY <2>1 DEF Written
<1>5. ASSUME NEW r \in Requests, Pauses(r) \/ Fails(r) PROVE Written'
  <2>1. ckpt' = ckpt /\ ckpt.next # "end"
    BY <1>5 DEF Pauses, Fails, Ends, Solo, InStep, PauseShape
  <2>2. QED
    BY <2>1 DEF Written
<1>6. ASSUME NEW r \in Requests, GraphStep(r) PROVE Written'
  BY <1>6, GraphDoes DEF Graph, Written
<1>7. CASE Shops
  BY <1>7 DEF Shops, Written
<1>8. QED
  BY <1>1, <1>2, <1>3, <1>4, <1>5, <1>6, <1>7 DEF Step, Restarts

\* In one tab and without a restart, a turn the thread shows as finished has
\* written its row once nothing is under way, also when runs of it failed.
THEOREM TurnsAreRecorded ==
    ASSUME OneTab, "restart" \notin Faults
    PROVE  Spec => []EveryTurnRecorded
<1>1. Init => Written
  BY DEF Init, NoThread, Written
<1>2. Written => EveryTurnRecorded
  BY DEF Written, EveryTurnRecorded
<1>3. TypeOK /\ HistoryInv /\ Solo /\ [Next]_vars => Solo'
  BY SoloNext
<1>4. TypeOK /\ HistoryInv /\ Solo /\ Written /\ [Next]_vars => Written'
  BY NextIsStep, StepWritten
<1>5. QED
  BY <1>1, <1>2, <1>3, <1>4, InitType, NextType, HistoryInit, HistoryNext,
     SoloInit, PTL DEF Spec

-----------------------------------------------------------------------------
(* The conversation implements CartConsent.                                  *)

\* A step is one of the abstract steps, or changes nothing the abstract
\* specification sees.
LEMMA StepRefines ==
    TypeOK /\ TypeOK' /\ ConsentInv /\ ConsentInv' /\ Brought /\ Brought' /\ Step
        => [Consent!Next]_(Consent!vars)
<1> SUFFICES ASSUME TypeOK, TypeOK', ConsentInv, ConsentInv', Brought, Brought', Step
             PROVE  Consent!Next \/ UNCHANGED Consent!vars
  OBVIOUS
<1>1. CASE UNCHANGED <<shown, consented, added, cart>>
  BY <1>1 DEF Consent!vars
<1>2. ASSUME NEW t \in Tabs, NEW r \in Requests, NEW yes \in BOOLEAN,
             Answers(t, r, yes)
      PROVE  Consent!Agree
  <2>1. UNCHANGED <<shown, added, cart>> /\ consented \subseteq consented'
    BY <1>2 DEF Answers
  <2>2. consented' \subseteq shown
    BY <2>1 DEF ConsentInv
  <2>3. QED
    BY <2>1, <2>2 DEF Consent!Agree
<1>3. ASSUME NEW t \in Tabs, NEW r \in Requests, Delivers(t, r)
      PROVE  Consent!Receive
  <2>1. /\ UNCHANGED <<consented, added>> /\ cart \subseteq cart'
        /\ shown \subseteq shown'
    BY <1>3 DEF Delivers
  <2>2. cart' \subseteq added /\ shown' \subseteq Item
    BY <2>1 DEF Brought, TypeOK
  <2>3. QED
    BY <2>1, <2>2 DEF Consent!Receive
<1>4. ASSUME NEW r \in Requests, GraphStep(r)
      PROVE  Consent!Add
  <2>1. UNCHANGED <<shown, consented, cart>> /\ added \subseteq added'
    BY <1>4, GraphDoes DEF Graph
  <2>2. \A a \in added' : a.item \in consented
    BY <2>1 DEF ConsentInv, AddsWereConsented
  <2>3. QED
    BY <2>1, <2>2 DEF Consent!Add
<1>5. QED
  BY <1>1, <1>2, <1>3, <1>4
     DEF Consent!Next, Step, Sends, Finishes, Pauses, Fails, Ends, Restarts, Shops

\* In one tab, with no restart and nothing new in the shop, every behaviour of the
\* conversation is one CartConsent allows: an item is offered, agreed to, added and
\* put in the cart, in this order, and nothing is taken back.
THEOREM ImplementsCartConsent ==
    ASSUME OneTab, "list" \notin CatalogEvents, "restart" \notin Faults
    PROVE  Spec => RefinesCartConsent
<1>1. Init => Consent!Init
  BY DEF Init, Consent!Init
<1>2. TypeOK /\ HistoryInv /\ Solo /\ [Next]_vars => Solo'
  BY SoloNext
<1>3. TypeOK /\ HistoryInv /\ Solo /\ ConsentInv /\ [Next]_vars => ConsentInv'
  BY NextIsStep, StepConsent
<1>4. TypeOK /\ HistoryInv /\ Solo /\ Brought /\ [Next]_vars => Brought'
  BY NextIsStep, StepBrought
<1>5. TypeOK /\ HistoryInv /\ Solo /\ ConsentInv /\ Brought /\ [Next]_vars
      /\ TypeOK' /\ ConsentInv' /\ Brought'
         => [Consent!Next]_(Consent!vars)
  BY NextIsStep, StepRefines
<1>6. QED
  BY <1>1, <1>2, <1>3, <1>4, <1>5, InitType, NextType, HistoryInit, HistoryNext,
     SoloInit, ConsentInit, BroughtInit, PTL DEF Spec, RefinesCartConsent, Consent!Spec
=============================================================================
