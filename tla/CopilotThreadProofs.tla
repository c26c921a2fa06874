------------------------- MODULE CopilotThreadProofs -------------------------
(* Theorems about CopilotThread, for any requests, tabs, products, batches    *)
(* and bounds.                                                               *)
EXTENDS CopilotThread, TLAPS

\* Saving a well-formed copy keeps the thread and the runs well formed.
LEMMA SaveType ==
    ASSUME TypeOK, NEW r \in Requests, NEW x \in Run, NEW s \in State,
           Save(r, x, s)
    PROVE  ckpt' \in State /\ run' \in [Requests -> Run]
<1>1. [x EXCEPT !.st = s] \in Run
  BY DEF Run
<1>2. QED
  BY <1>1 DEF Save, TypeOK

\* A thread, a run and a finished run start well formed.
LEMMA EmptyTypes == NoThread \in State /\ NoRun \in Run /\ Gone \in Run
<1>1. NoThread \in State
  BY DEF NoThread, State
<1>2. NoRun \in Run
  BY <1>1 DEF NoRun, Run
<1>3. QED
  BY <1>1, <1>2 DEF Gone, Run

\* Every variable has its shape at the start.
LEMMA InitType == Init => TypeOK
<1> SUFFICES ASSUME Init PROVE TypeOK
  OBVIOUS
<1>1. NoRow \in Row
  BY DEF NoRow, Row
<1>2. QED
  BY <1>1, EmptyTypes, BoundsAssumption DEF Init, TypeOK, Tab

\* Ending a run keeps the runs well formed.
LEMMA EndType ==
    ASSUME TypeOK, NEW r \in Requests, NEW pc \in {"replied", "failed"},
           End(r, pc)
    PROVE  run' \in [Requests -> Run]
<1>1. run[r] \in Run
  BY DEF TypeOK
<1>2. [run[r] EXCEPT !.pc = pc] \in Run
  BY <1>1 DEF Run
<1>3. QED
  BY <1>2, EmptyTypes DEF End, TypeOK

\* Removing dangling calls keeps a copy well formed.
LEMMA CleanedType ==
    ASSUME NEW s \in State
    PROVE  Cleaned(s) \in State
<1> DEFINE dangling == {c.msg : c \in Open(s)}
           kept == {IF c.msg \in dangling THEN [c EXCEPT !.status = "orphan"]
                                          ELSE c : c \in s.calls \ Open(s)}
           carry == IF dangling = {} THEN s.carry ELSE 0
<1>1. \A c \in s.calls : c \in Call /\ [c EXCEPT !.status = "orphan"] \in Call
  BY DEF State, Call
<1>2. kept \in SUBSET Call
  BY <1>1
<1>3. carry \in Nat
  BY DEF State
<1>4. Cleaned(s) = [s EXCEPT !.calls = kept, !.carry = carry]
  BY DEF Cleaned
<1> HIDE DEF kept, carry
<1>5. QED
  BY <1>2, <1>3, <1>4 DEF State

\* Every argument a model message is given is a well-formed item.
LEMMA AskedType ==
    ASSUME NEW m \in MsgIds, NEW b \in Batches, NEW i \in 1..Len(b)
    PROVE  Asked(m, b, i) \in Item
<1> DEFINE T == [what : Targets, qty : Nat]
<1>1. b \in Seq(T)
  BY BatchesAssumption
<1>2. b[i] \in T
  <2> HIDE DEF T
  <2>1. QED
    BY <1>1
<1>3. Clamp(b[i].qty) \in Nat
  BY <1>2, BoundsAssumption DEF Clamp
<1>4. i \in Nat
  OBVIOUS
<1>5. QED
  BY <1>2, <1>3, <1>4 DEF Asked, Item

\* Answering the calls that wait, with yes or with no, keeps the thread well
\* formed.
LEMMA ResumeTypes ==
    ASSUME NEW s \in State
    PROVE  /\ DeclinedState(s) \in State
           /\ \A D \in SUBSET Item : \A z \in Zips(s.pause, D) :
                 ApprovedState(s, z) \in State
<1> DEFINE declined == {IF IsPaused(c, s.pause)
                        THEN [c EXCEPT !.status = "error"] ELSE c : c \in s.calls}
<1>1. \A c \in s.calls : c \in Call /\ [c EXCEPT !.status = "error"] \in Call
  BY DEF State, Call
<1>2. declined \in SUBSET Call
  BY <1>1
<1>3. DeclinedState(s) \in State
  <2>1. DeclinedState(s) =
          [s EXCEPT !.next  = IF \E c \in declined : c.status = "open"
                                                     /\ c.msg = s.msg
                              THEN "tools" ELSE "model",
                    !.pause = {}, !.calls = declined]
    BY DEF DeclinedState
  <2> HIDE DEF declined
  <2>2. QED
    BY <1>2, <2>1 DEF State
<1>4. ASSUME NEW D \in SUBSET Item, NEW z \in Zips(s.pause, D)
      PROVE  ApprovedState(s, z) \in State
  <2> DEFINE calls == {IF IsPaused(c, s.pause)
                       THEN [c EXCEPT !.item = z[c.item]] ELSE c : c \in s.calls}
  <2>1. z \in [s.pause -> D]
    BY DEF Zips
  <2>2. ASSUME NEW c \in s.calls, IsPaused(c, s.pause)
        PROVE  [c EXCEPT !.item = z[c.item]] \in Call
    BY <2>1, <2>2 DEF State, Call, IsPaused
  <2>3. calls \in SUBSET Call
    BY <2>2 DEF State
  <2>4. ApprovedState(s, z) =
          [s EXCEPT !.next = "tools", !.pause = {}, !.calls = calls]
    BY DEF ApprovedState
  <2> HIDE DEF calls
  <2>5. QED
    BY <2>3, <2>4 DEF State
<1>5. QED
  BY <1>3, <1>4

\* A step keeps every variable's shape: one step of the proof per action.
LEMMA NextType == TypeOK /\ [Next]_vars => TypeOK'
<1> SUFFICES ASSUME TypeOK, [Next]_vars PROVE TypeOK'
  OBVIOUS
<1> USE EmptyTypes
<1>1. ASSUME NEW r \in Requests, NEW t \in Tabs, SendChat(t, r) PROVE TypeOK'
  <2> DEFINE s == [ckpt EXCEPT !.next = "begin", !.turn = r, !.pause = {},
                               !.how = "none"]
             x == [NoRun EXCEPT !.pc = "running"]
  <2>1. s \in State
    BY DEF TypeOK, State
  <2>2. x \in Run
    BY DEF Run
  <2>3. Save(r, x, s)
    BY <1>1 DEF SendChat
  <2>4. tab' \in [Tabs -> Tab] /\ saved' \subseteq Item
    BY <1>1 DEF SendChat, TypeOK, Tab
  <2> HIDE DEF s, x
  <2>5. QED
    BY <1>1, <2>1, <2>2, <2>3, <2>4, SaveType DEF SendChat, TypeOK
<1>2. ASSUME NEW r \in Requests, NEW t \in Tabs, NEW yes \in BOOLEAN,
             AnswerCard(t, r, yes)
      PROVE  TypeOK'
  <2> DEFINE pc == IF ckpt.pause # {} THEN "resuming" ELSE "refused"
             kind == IF yes THEN "yes" ELSE "no"
             x == [NoRun EXCEPT !.pc = pc, !.kind = kind,
                                !.decided = ckpt.pause, !.carried = ckpt.carry]
             mine == {[item |-> i, by |-> r] : i \in ckpt.pause}
  <2>1. ckpt.pause \in SUBSET Item /\ ckpt.carry \in Nat
    BY DEF TypeOK, State
  <2>2. x \in Run
    BY <2>1 DEF Run
  <2>3. run' = [run EXCEPT ![r] = x]
    BY <1>2 DEF AnswerCard
  <2> HIDE DEF x
  <2>4. run' \in [Requests -> Run]
    BY <2>2, <2>3 DEF TypeOK
  <2>5. mine \subseteq Approval
    BY <2>1 DEF Approval
  <2>6. approved' \subseteq Approval
    BY <1>2, <2>5 DEF AnswerCard, TypeOK
  <2>7. tab' \in [Tabs -> Tab] /\ saved' \subseteq Item
    BY <1>2 DEF AnswerCard, TypeOK, Tab
  <2>8. consented' \subseteq Item
    BY <1>2 DEF AnswerCard, TypeOK, Tab
  <2>9. QED
    BY <1>2, <2>4, <2>6, <2>7, <2>8 DEF AnswerCard, TypeOK
<1>3. ASSUME NEW t \in Tabs, Deliver(t) PROVE TypeOK'
  <2> DEFINE r == tab[t].busy
             card == IF run[r].pc = "replied" THEN run[r].st.pause
                     ELSE IF run[r].pc = "failed" THEN tab[t].card ELSE {}
  <2>1. r \in Requests
    BY <1>3 DEF Deliver, TypeOK, Tab
  <2>2. run[r] \in Run /\ tab[t] \in Tab
    BY <2>1 DEF TypeOK
  <2>3. card \subseteq Item
    BY <2>2 DEF Run, State, Tab
  <2>4. /\ tab' = [tab EXCEPT ![t] = [busy |-> NoRequest, card |-> card]]
        /\ saved' = card
        /\ shown' = shown \cup card
        /\ run' = [run EXCEPT ![r] = Gone]
    BY <1>3 DEF Deliver
  <2>5. cart' \subseteq Added
    BY <1>3, <2>2 DEF Deliver, TypeOK, Run
  <2> HIDE DEF card, r
  <2>6. run' \in [Requests -> Run]
    BY <2>1, <2>4 DEF TypeOK
  <2>7. tab' \in [Tabs -> Tab] /\ saved' \subseteq Item /\ shown' \subseteq Item
    BY <2>3, <2>4 DEF TypeOK, Tab
  <2>8. QED
    BY <1>3, <2>5, <2>6, <2>7 DEF Deliver, TypeOK
<1>4. ASSUME NEW t \in Tabs, LoseReply(t) PROVE TypeOK'
  <2>1. run' \in [Requests -> Run]
    BY <1>4 DEF LoseReply, Leave, TypeOK
  <2>2. tab' \in [Tabs -> Tab] /\ saved' \subseteq Item
    BY <1>4 DEF LoseReply, TypeOK, Tab
  <2>3. QED
    BY <1>4, <2>1, <2>2 DEF LoseReply, TypeOK
<1>5. ASSUME NEW t \in Tabs, Reload(t) PROVE TypeOK'
  <2>1. run' \in [Requests -> Run]
    BY <1>5 DEF Reload, Leave, TypeOK
  <2>2. tab' \in [Tabs -> Tab] /\ shown' \subseteq Item
    BY <1>5 DEF Reload, TypeOK, Tab
  <2>3. QED
    BY <1>5, <2>1, <2>2 DEF Reload, TypeOK
<1>6. \A r \in Requests : run[r] \in Run /\ run[r].st \in State
  BY DEF TypeOK, Run
<1>7. ASSUME NEW r \in Requests, GuardrailReplies(r) PROVE TypeOK'
  <2> DEFINE s == [run[r].st EXCEPT !.next = "end", !.how = "guardrail"]
  <2>1. s \in State /\ Save(r, run[r], s)
    BY <1>6, <1>7 DEF GuardrailReplies, State
  <2> HIDE DEF s
  <2>2. QED
    BY <1>6, <1>7, <2>1, SaveType DEF GuardrailReplies, TypeOK
<1>8. ASSUME NEW r \in Requests, GuardrailPasses(r) PROVE TypeOK'
  <2> DEFINE s == [Cleaned(run[r].st) EXCEPT !.next = "model"]
  <2>1. Cleaned(run[r].st) \in State
    BY <1>6, CleanedType
  <2>2. s \in State /\ Save(r, run[r], s)
    BY <1>8, <2>1 DEF GuardrailPasses, State
  <2> HIDE DEF s
  <2>3. QED
    BY <1>6, <1>8, <2>2, SaveType DEF GuardrailPasses, TypeOK
<1>9. ASSUME NEW r \in Requests, NEW s \in State, CallModel(r, s)
      PROVE  /\ ckpt' \in State /\ run' \in [Requests -> Run]
             /\ llmUsed' \in [Requests -> Nat]
  <2> DEFINE x == [run[r] EXCEPT !.calls = @ + 1]
  <2>1. x \in Run
    BY <1>6 DEF Run
  <2>2. Save(r, x, s)
    BY <1>9 DEF CallModel
  <2>3. llmUsed' \in [Requests -> Nat]
    <3> DEFINE q == run[r].st.turn
    <3>1. llmUsed' = [llmUsed EXCEPT ![q] = llmUsed[q] + 1]
      BY <1>9 DEF CallModel
    <3>2. llmUsed \in [Requests -> Nat]
      BY DEF TypeOK
    <3> HIDE DEF q
    <3>3. CASE q \in Requests
      BY <3>1, <3>2, <3>3
    <3>4. CASE q \notin Requests
      <4>1. llmUsed' = llmUsed
        BY <3>1, <3>2, <3>4
      <4>2. QED
        BY <3>2, <4>1
    <3>5. QED
      BY <3>3, <3>4
  <2> HIDE DEF x
  <2>4. QED
    BY <2>1, <2>2, <2>3, SaveType
<1>10. ASSUME NEW r \in Requests, ModelAnswers(r) PROVE TypeOK'
  <2> DEFINE s == [run[r].st EXCEPT !.next = "end", !.how = "answered",
                                    !.carry = 0]
  <2>1. s \in State /\ CallModel(r, s)
    BY <1>6, <1>10 DEF ModelAnswers, State
  <2> HIDE DEF s
  <2>2. QED
    BY <1>9, <1>10, <2>1 DEF ModelAnswers, TypeOK
<1>11. ASSUME NEW r \in Requests, LoopCapReplies(r) PROVE TypeOK'
  <2> DEFINE s == [run[r].st EXCEPT !.next = "end", !.how = "capped",
                                    !.carry = 0]
  <2>1. s \in State /\ Save(r, run[r], s)
    BY <1>6, <1>11 DEF LoopCapReplies, State
  <2> HIDE DEF s
  <2>2. QED
    BY <1>6, <1>11, <2>1, SaveType DEF LoopCapReplies, TypeOK
<1>12. ASSUME NEW r \in Requests, NEW b \in Batches, ModelAsksForTools(r, b)
       PROVE  TypeOK'
  <2> DEFINE m     == asked + 1
             items == {Asked(m, b, i) : i \in 1..Len(b)}
             ask   == {i \in items : i.what \in catalog}
             st    == run[r].st
             new   == {[msg |-> m, turn |-> st.turn, item |-> i,
                        status |-> "open"] : i \in items}
             carry == IF \E i \in items : IsCart(i)
                      THEN Totals(run[r]) + 1 ELSE st.carry
             next  == IF ask = {} THEN "tools" ELSE "pause"
             s     == [st EXCEPT !.next = next, !.msg = m,
                                 !.calls = st.calls \cup new,
                                 !.pause = ask, !.carry = carry]
  <2>1. m \in MsgIds
    BY <1>12, BoundsAssumption DEF ModelAsksForTools, TypeOK, MsgIds
  <2>2. items \subseteq Item
    BY <2>1, AskedType
  <2>3. CallModel(r, s) /\ asked' = m
    BY <1>12 DEF ModelAsksForTools
  <2> HIDE DEF m, items
  <2>4. new \subseteq Call
    BY <1>6, <2>1, <2>2 DEF State, Call
  <2>5. carry \in Nat
    BY <1>6 DEF Totals, Run, State
  <2>6. ask \subseteq Item /\ next \in {"tools", "pause"}
    BY <2>2
  <2>7. st \in State
    BY <1>6
  <2> HIDE DEF ask, new, carry, next, st
  <2>8. s \in State
    BY <2>1, <2>4, <2>5, <2>6, <2>7 DEF State
  <2> HIDE DEF s
  <2>9. asked' \in 0..MaxMessages
    BY <2>1, <2>3, BoundsAssumption DEF MsgIds
  <2>10. QED
    BY <1>9, <1>12, <2>3, <2>8, <2>9 DEF ModelAsksForTools, TypeOK
<1>13. ASSUME NEW r \in Requests, RunTools(r) PROVE TypeOK'
  <2> DEFINE st   == run[r].st
             todo == Hanging(st)
             adds == {[item |-> c.item, by |-> r, turn |-> st.turn] :
                        c \in {d \in todo : IsCart(d.item)
                                            /\ Result(d.item) = "ran"}}
             done == {[c EXCEPT !.status = Result(c.item)] : c \in todo}
             s    == [st EXCEPT !.next = "model",
                                !.calls = (st.calls \ todo) \cup done]
             x    == [run[r] EXCEPT !.acts = @ \cup adds]
  <2>1. Save(r, x, s) /\ added' = added \cup adds
    BY <1>13 DEF RunTools
  <2>2. st \in State /\ st.turn \in Requests \cup {NoRequest} /\ st.calls \subseteq Call
    BY <1>6 DEF State
  <2>3. todo \subseteq Call
    BY <2>2 DEF Hanging, Open
  <2>4. \A i \in Item : Result(i) \in {"ran", "missing", "error"}
    BY DEF Result
  <2>5. done \subseteq Call
    BY <2>3, <2>4 DEF Call
  <2>6. adds \subseteq Added
    BY <2>2, <2>3 DEF Added, Call
  <2> HIDE DEF st, todo, done, adds
  <2>7. s \in State
    BY <2>2, <2>5 DEF State
  <2>8. x \in Run
    BY <1>6, <2>6 DEF Run
  <2> HIDE DEF s, x
  <2>9. QED
    BY <1>13, <2>1, <2>6, <2>7, <2>8, SaveType DEF RunTools, TypeOK
<1>14. \A r \in Requests : run[r].st.turn \in Requests \cup {NoRequest}
                           /\ Totals(run[r]) \in Nat
  BY <1>6 DEF State, Run, Totals
<1>15. ASSUME NEW r \in Requests, Finish(r) PROVE TypeOK'
  <2>1. Outcome(run[r].st) \in {"guardrail", "cart", "unanswered", "answered"}
    BY DEF Outcome
  <2>2. rows' \in [Requests -> Row]
    BY <1>14, <1>15, <2>1 DEF Finish, TypeOK, Row
  <2>3. run' \in [Requests -> Run]
    BY <1>15, EndType DEF Finish
  <2>4. QED
    BY <1>15, <2>2, <2>3 DEF Finish, TypeOK
<1>16. ASSUME NEW r \in Requests, ReplyWithCard(r) PROVE TypeOK'
  BY <1>16, EndType DEF ReplyWithCard, TypeOK
<1>17. ASSUME NEW r \in Requests, Fail(r) PROVE TypeOK'
  <2>1. rows' \in [Requests -> Row]
    BY <1>14, <1>17 DEF Fail, TypeOK, Row
  <2>2. run' \in [Requests -> Run]
    BY <1>17, EndType DEF Fail
  <2>3. QED
    BY <1>17, <2>1, <2>2 DEF Fail, TypeOK
<1>18. ASSUME Restart PROVE TypeOK'
  <2>1. \A r \in Requests : [run[r] EXCEPT !.pc = "failed"] \in Run
    BY <1>6 DEF Run
  <2>2. run' \in [Requests -> Run]
    BY <1>6, <1>18, <2>1 DEF Restart
  <2>3. QED
    BY <1>18, <2>2 DEF Restart, TypeOK
<1>19. ASSUME NEW r \in Requests, NEW s \in State,
              Save(r, [run[r] EXCEPT !.pc = "running"], s)
       PROVE  ckpt' \in State /\ run' \in [Requests -> Run]
  <2> DEFINE x == [run[r] EXCEPT !.pc = "running"]
  <2>1. x \in Run
    BY <1>6 DEF Run
  <2>2. Save(r, x, s)
    BY <1>19
  <2> HIDE DEF x
  <2>3. QED
    BY <2>1, <2>2, SaveType
<1>20. ASSUME NEW r \in Requests, ResumeApproved(r) PROVE TypeOK'
  <2>1. PICK z \in Zips(ckpt.pause, run[r].decided) :
           Save(r, [run[r] EXCEPT !.pc = "running"], ApprovedState(ckpt, z))
    BY <1>20 DEF ResumeApproved
  <2>2. run[r].decided \in SUBSET Item
    BY <1>6 DEF Run
  <2>3. ckpt \in State
    BY DEF TypeOK
  <2>4. ApprovedState(ckpt, z) \in State
    BY <2>2, <2>3, ResumeTypes
  <2>5. QED
    BY <1>19, <1>20, <2>1, <2>4 DEF ResumeApproved, TypeOK
<1>21. ASSUME NEW r \in Requests, ResumeDeclined(r) PROVE TypeOK'
  <2>1. DeclinedState(ckpt) \in State
    BY ResumeTypes DEF TypeOK
  <2>2. QED
    BY <1>19, <1>21, <2>1 DEF ResumeDeclined, TypeOK
<1>22. ASSUME NEW r \in Requests, ResumeElsewhere(r) PROVE TypeOK'
  BY <1>19, <1>22 DEF ResumeElsewhere, TypeOK
<1>23. CASE ListProduct
  BY <1>23 DEF ListProduct, TypeOK
<1>24. CASE DelistProduct
  BY <1>24 DEF DelistProduct, TypeOK
<1>25. CASE UNCHANGED vars
  BY <1>25 DEF vars, TypeOK
<1>26. QED
  BY <1>1, <1>2, <1>3, <1>4, <1>5, <1>7, <1>8, <1>10, <1>11, <1>12, <1>13,
     <1>15, <1>16, <1>17, <1>18, <1>20, <1>21, <1>22, <1>23, <1>24, <1>25
     DEF Next, ServerStep, ServerWorks, TabStep, RunFails, ResumeMismatch

\* Every variable keeps its shape in every behaviour, whatever the tabs, the
\* failures and the shop do.
THEOREM TypeCorrect == Spec => []TypeOK
<1>1. QED
  BY InitType, NextType, PTL DEF Spec

-----------------------------------------------------------------------------
(* The history the model gets.                                               *)

\* A copy of the thread has calls without a result only while the tools of its
\* newest message are due or waited for, and then of that message only; other
\* calls without a result are left to the next turn's clean-up.
History(s) ==
    /\ s.next = "model" => Open(s) = {}
    /\ s.next \in {"pause", "tools"} => \A c \in Open(s) : c.msg = s.msg

HistoryInv ==
    /\ History(ckpt)
    /\ \A r \in Requests : History(run[r].st)

\* Run q keeps its copy or is over.
Kept(q) == run'[q].st = run[q].st \/ run'[q].st = NoThread

\* A step that leaves the saved thread alone and keeps or ends every run keeps
\* the history in order.
LEMMA KeptHistory ==
    ASSUME HistoryInv, ckpt' = ckpt, \A q \in Requests : Kept(q)
    PROVE  HistoryInv'
<1>1. History(NoThread)
  BY DEF NoThread, History
<1>2. QED
  BY <1>1 DEF HistoryInv, History, Open, Kept

\* A step that saves a copy in order for r keeps every history in order.
LEMMA SavedHistory ==
    ASSUME TypeOK, HistoryInv, NEW r \in Requests, NEW x, NEW s,
           x \in Run, Save(r, x, s), History(s)
    PROVE  HistoryInv'
<1>1. [x EXCEPT !.st = s].st = s
  BY DEF Run
<1>2. run'[r].st = s /\ ckpt' = s
  BY <1>1 DEF Save, TypeOK
<1>3. \A q \in Requests \ {r} : run'[q] = run[q]
  BY DEF Save, TypeOK
<1>4. QED
  BY <1>2, <1>3 DEF HistoryInv, History, Open

\* Steps that save no copy.
Unsaved ==
    \/ \E r \in Requests, t \in Tabs, yes \in BOOLEAN : AnswerCard(t, r, yes)
    \/ \E t \in Tabs : Deliver(t) \/ LoseReply(t) \/ Reload(t)
    \/ \E r \in Requests : Finish(r) \/ ReplyWithCard(r) \/ Fail(r)
    \/ Restart \/ ListProduct \/ DelistProduct \/ UNCHANGED vars

\* Such a step keeps the saved thread, and each run's copy unless it ends.
LEMMA UnsavedKeeps ==
    ASSUME TypeOK, Unsaved
    PROVE  ckpt' = ckpt /\ \A q \in Requests : Kept(q)
<1>1. NoRun.st = NoThread /\ Gone.st = NoThread
  BY DEF NoRun, Gone
<1>2. \A q \in Requests : \A pc : [run[q] EXCEPT !.pc = pc].st = run[q].st
  BY DEF TypeOK, Run
<1>3. ASSUME NEW r \in Requests, NEW pc, End(r, pc)
      PROVE  \A q \in Requests : Kept(q)
  BY <1>1, <1>2, <1>3 DEF End, TypeOK, Kept
<1>4. ASSUME NEW t \in Tabs, Leave(t)
      PROVE  \A q \in Requests : Kept(q)
  BY <1>1, <1>4 DEF Leave, Kept
<1>5. ASSUME NEW r \in Requests, NEW t \in Tabs, NEW yes \in BOOLEAN,
             AnswerCard(t, r, yes)
      PROVE  ckpt' = ckpt /\ \A q \in Requests : Kept(q)
  <2> DEFINE x == [NoRun EXCEPT
                     !.pc      = IF ckpt.pause # {} THEN "resuming" ELSE "refused",
                     !.kind    = IF yes THEN "yes" ELSE "no",
                     !.decided = ckpt.pause,
                     !.carried = ckpt.carry]
  <2>1. run' = [run EXCEPT ![r] = x] /\ ckpt' = ckpt
    BY <1>5 DEF AnswerCard
  <2>2. x.st = NoThread
    BY DEF NoRun
  <2> HIDE DEF x
  <2>3. QED
    BY <2>1, <2>2 DEF TypeOK, Kept
<1>6. ASSUME NEW t \in Tabs, Deliver(t)
      PROVE  ckpt' = ckpt /\ \A q \in Requests : Kept(q)
  BY <1>1, <1>6 DEF Deliver, TypeOK, Kept
<1>7. ASSUME NEW t \in Tabs, LoseReply(t) \/ Reload(t)
      PROVE  ckpt' = ckpt /\ \A q \in Requests : Kept(q)
  BY <1>4, <1>7 DEF LoseReply, Reload
<1>8. ASSUME NEW r \in Requests, Finish(r) \/ ReplyWithCard(r) \/ Fail(r)
      PROVE  ckpt' = ckpt /\ \A q \in Requests : Kept(q)
  BY <1>3, <1>8 DEF Finish, ReplyWithCard, Fail
<1>9. ASSUME Restart
      PROVE  ckpt' = ckpt /\ \A q \in Requests : Kept(q)
  BY <1>1, <1>2, <1>9 DEF Restart, Kept
<1>10. CASE ListProduct \/ DelistProduct \/ UNCHANGED vars
  BY <1>10 DEF ListProduct, DelistProduct, vars, Kept
<1>11. QED
  BY <1>5, <1>6, <1>7, <1>8, <1>9, <1>10 DEF Unsaved

\* No call hangs at the start.
LEMMA HistoryInit == Init => HistoryInv
  BY DEF Init, HistoryInv, History, NoRun, NoThread

\* After the clean-up no call hangs.
LEMMA CleanedHasNoOpen ==
    ASSUME NEW s \in State
    PROVE  Open(Cleaned(s)) = {}
<1> DEFINE dangling == {c.msg : c \in Open(s)}
           kept == {IF c.msg \in dangling THEN [c EXCEPT !.status = "orphan"]
                                          ELSE c : c \in s.calls \ Open(s)}
<1>1. Cleaned(s).calls = kept
  BY DEF Cleaned, State
<1>2. ASSUME NEW c \in s.calls \ Open(s)
      PROVE  [c EXCEPT !.status = "orphan"].status = "orphan" /\ c.status # "open"
  BY DEF State, Call, Open
<1>3. \A d \in kept : d.status # "open"
  BY <1>2
<1> HIDE DEF kept
<1>4. QED
  BY <1>1, <1>3 DEF Open

\* A step keeps the history in order: one step of the proof per action that saves.
LEMMA HistoryNext == TypeOK /\ HistoryInv /\ [Next]_vars => HistoryInv'
<1> SUFFICES ASSUME TypeOK, HistoryInv, [Next]_vars PROVE HistoryInv'
  OBVIOUS
<1>0. \A r \in Requests : run[r] \in Run /\ run[r].st \in State
  BY DEF TypeOK, Run
<1>1. CASE Unsaved
  BY <1>1, UnsavedKeeps, KeptHistory
<1>2. ASSUME NEW r \in Requests, NEW t \in Tabs, SendChat(t, r) PROVE HistoryInv'
  <2> DEFINE s == [ckpt EXCEPT !.next = "begin", !.turn = r, !.pause = {},
                               !.how = "none"]
             x == [NoRun EXCEPT !.pc = "running"]
  <2>1. Save(r, x, s)
    BY <1>2 DEF SendChat
  <2>2. x \in Run
    BY EmptyTypes DEF Run
  <2>3. History(s)
    BY DEF History, TypeOK, State
  <2> HIDE DEF s, x
  <2>4. QED
    BY <2>1, <2>2, <2>3, SavedHistory
<1>3. ASSUME NEW r \in Requests, GuardrailReplies(r) PROVE HistoryInv'
  <2> DEFINE s == [run[r].st EXCEPT !.next = "end", !.how = "guardrail"]
  <2>1. Save(r, run[r], s)
    BY <1>3 DEF GuardrailReplies
  <2>2. History(s)
    BY <1>0 DEF History, State
  <2> HIDE DEF s
  <2>3. QED
    BY <1>0, <2>1, <2>2, SavedHistory
<1>4. ASSUME NEW r \in Requests, GuardrailPasses(r) PROVE HistoryInv'
  <2> DEFINE d == Cleaned(run[r].st)
             s == [d EXCEPT !.next = "model"]
  <2>1. Save(r, run[r], s)
    BY <1>4 DEF GuardrailPasses
  <2>2. d \in State /\ Open(d) = {}
    BY <1>0, CleanedType, CleanedHasNoOpen
  <2> HIDE DEF d
  <2>3. s.next = "model" /\ s.calls = d.calls
    BY <2>2 DEF State
  <2>4. History(s)
    BY <2>2, <2>3 DEF History, Open
  <2> HIDE DEF s
  <2>5. QED
    BY <1>0, <2>1, <2>4, SavedHistory
<1>5. ASSUME NEW r \in Requests, NEW s, CallModel(r, s), History(s)
      PROVE  HistoryInv'
  <2> DEFINE x == [run[r] EXCEPT !.calls = @ + 1]
  <2>1. x \in Run
    BY <1>0 DEF Run
  <2>2. Save(r, x, s)
    BY <1>5 DEF CallModel
  <2> HIDE DEF x
  <2>3. QED
    BY <1>5, <2>1, <2>2, SavedHistory
<1>6. ASSUME NEW r \in Requests, ModelAnswers(r) PROVE HistoryInv'
  <2> DEFINE s == [run[r].st EXCEPT !.next = "end", !.how = "answered",
                                    !.carry = 0]
  <2>1. CallModel(r, s)
    BY <1>6 DEF ModelAnswers
  <2>2. History(s)
    BY <1>0 DEF History, State
  <2> HIDE DEF s
  <2>3. QED
    BY <1>5, <2>1, <2>2
<1>7. ASSUME NEW r \in Requests, LoopCapReplies(r) PROVE HistoryInv'
  <2> DEFINE s == [run[r].st EXCEPT !.next = "end", !.how = "capped",
                                    !.carry = 0]
  <2>1. Save(r, run[r], s)
    BY <1>7 DEF LoopCapReplies
  <2>2. History(s)
    BY <1>0 DEF History, State
  <2> HIDE DEF s
  <2>3. QED
    BY <1>0, <2>1, <2>2, SavedHistory
<1>8. ASSUME NEW r \in Requests, NEW b \in Batches, ModelAsksForTools(r, b)
      PROVE  HistoryInv'
  <2> DEFINE m     == asked + 1
             items == {Asked(m, b, i) : i \in 1..Len(b)}
             ask   == {i \in items : i.what \in catalog}
             st    == run[r].st
             new   == {[msg |-> m, turn |-> st.turn, item |-> i,
                        status |-> "open"] : i \in items}
             carry == IF \E i \in items : IsCart(i)
                      THEN Totals(run[r]) + 1 ELSE st.carry
             next  == IF ask = {} THEN "tools" ELSE "pause"
             s     == [st EXCEPT !.next = next, !.msg = m,
                                 !.calls = st.calls \cup new,
                                 !.pause = ask, !.carry = carry]
  <2>1. CallModel(r, s)
    BY <1>8 DEF ModelAsksForTools
  <2>2. st.next = "model"
    BY <2>1 DEF CallModel, At
  <2>3. Open(st) = {}
    BY <2>2 DEF HistoryInv, History
  <2>4. \A c \in new : c.msg = m
    OBVIOUS
  <2>5. st \in State /\ next # "model"
    BY <1>0
  <2> HIDE DEF st, new, next, carry, ask
  <2>6. s.msg = m /\ s.next = next /\ s.calls = st.calls \cup new
    BY <2>5 DEF State
  <2> HIDE DEF s, m
  <2>7. History(s)
    BY <2>3, <2>4, <2>5, <2>6 DEF History, Open
  <2>8. QED
    BY <1>5, <2>1, <2>7
<1>9. ASSUME NEW r \in Requests, RunTools(r) PROVE HistoryInv'
  <2> DEFINE st   == run[r].st
             todo == Hanging(st)
             adds == {[item |-> c.item, by |-> r, turn |-> st.turn] :
                        c \in {d \in todo : IsCart(d.item)
                                            /\ Result(d.item) = "ran"}}
             done == {[c EXCEPT !.status = Result(c.item)] : c \in todo}
             s    == [st EXCEPT !.next = "model",
                                !.calls = (st.calls \ todo) \cup done]
             x    == [run[r] EXCEPT !.acts = @ \cup adds]
  <2>1. Save(r, x, s) /\ st.next = "tools"
    BY <1>9 DEF RunTools, At
  <2>2. todo = Open(st)
    BY <2>1 DEF HistoryInv, History, Hanging
  <2>3. st \in State /\ st.turn \in Requests \cup {NoRequest} /\ todo \subseteq Call
    BY <1>0 DEF State, Hanging, Open
  <2>4. \A c \in done : c.status # "open"
    BY <2>3 DEF Call, Result
  <2>5. adds \subseteq Added
    BY <2>3 DEF Added, Call
  <2> HIDE DEF adds
  <2>6. x \in Run
    BY <1>0, <2>5 DEF Run
  <2> HIDE DEF st, todo, done, x
  <2>7. s.next = "model" /\ s.calls = (st.calls \ todo) \cup done
    BY <2>3 DEF State
  <2> HIDE DEF s
  <2>8. History(s)
    BY <2>2, <2>4, <2>7 DEF History, Open
  <2>9. QED
    BY <2>1, <2>6, <2>8, SavedHistory
<1>10. ASSUME NEW r \in Requests, NEW s, History(s),
              Save(r, [run[r] EXCEPT !.pc = "running"], s)
       PROVE  HistoryInv'
  <2> DEFINE x == [run[r] EXCEPT !.pc = "running"]
  <2>1. x \in Run
    BY <1>0 DEF Run
  <2>2. Save(r, x, s)
    BY <1>10
  <2> HIDE DEF x
  <2>3. QED
    BY <1>10, <2>1, <2>2, SavedHistory
<1>11. ASSUME NEW r \in Requests, ResumeApproved(r) PROVE HistoryInv'
  <2>1. PICK z \in Zips(ckpt.pause, run[r].decided) :
           Save(r, [run[r] EXCEPT !.pc = "running"], ApprovedState(ckpt, z))
    BY <1>11 DEF ResumeApproved
  <2> DEFINE calls == {IF IsPaused(c, ckpt.pause)
                       THEN [c EXCEPT !.item = z[c.item]] ELSE c : c \in ckpt.calls}
             s == ApprovedState(ckpt, z)
  <2>2. /\ s.next = "tools" /\ s.msg = ckpt.msg /\ s.calls = calls
        /\ ckpt.calls \subseteq Call
    BY DEF ApprovedState, TypeOK, State
  <2>3. ASSUME NEW c \in ckpt.calls
        PROVE  LET d == [c EXCEPT !.item = z[c.item]]
               IN  d.msg = c.msg /\ d.status = c.status
    BY <2>2 DEF Call
  <2>4. \A d \in calls : \E c \in ckpt.calls : d.msg = c.msg /\ d.status = c.status
    BY <2>3
  <2>5. \A c \in ckpt.calls : c.status = "open" => c.msg = ckpt.msg
    BY <1>11 DEF HistoryInv, History, Open, ResumeApproved
  <2> HIDE DEF calls, s
  <2>6. History(s)
    BY <2>2, <2>4, <2>5 DEF History, Open
  <2>7. QED
    BY <1>10, <2>1, <2>6 DEF s
<1>12. ASSUME NEW r \in Requests, ResumeDeclined(r) PROVE HistoryInv'
  <2> DEFINE calls == {IF IsPaused(c, ckpt.pause)
                       THEN [c EXCEPT !.status = "error"] ELSE c : c \in ckpt.calls}
             next == IF \E c \in calls : c.status = "open" /\ c.msg = ckpt.msg
                     THEN "tools" ELSE "model"
             s == DeclinedState(ckpt)
  <2>1. /\ s.next = next /\ s.msg = ckpt.msg /\ s.calls = calls
        /\ ckpt.calls \subseteq Call
    BY DEF DeclinedState, TypeOK, State
  <2>2. \A c \in ckpt.calls : [c EXCEPT !.status = "error"].status # "open"
    BY <2>1 DEF Call
  <2>3. \A d \in calls : d.status = "open" => d \in ckpt.calls
    BY <2>2
  <2>4. \A c \in ckpt.calls : c.status = "open" => c.msg = ckpt.msg
    BY <1>12 DEF HistoryInv, History, Open, ResumeDeclined
  <2> HIDE DEF calls, s
  <2>5. History(s)
    BY <2>1, <2>3, <2>4 DEF History, Open
  <2>6. QED
    BY <1>10, <1>12, <2>5 DEF s, ResumeDeclined
<1>13. ASSUME NEW r \in Requests, ResumeElsewhere(r) PROVE HistoryInv'
  BY <1>10, <1>13 DEF ResumeElsewhere, HistoryInv
<1>14. QED
  BY <1>1, <1>2, <1>3, <1>4, <1>6, <1>7, <1>8, <1>9, <1>11, <1>12, <1>13
     DEF Next, ServerStep, ServerWorks, TabStep, RunFails, ResumeMismatch, Unsaved

\* The model is never called on a history with a call that has no result, with
\* any number of tabs and with every failure of the model.
THEOREM ModelGetsNoDanglingCall == Spec => []NoDanglingCallAtModel
<1>1. HistoryInv => NoDanglingCallAtModel
  BY DEF HistoryInv, History, NoDanglingCallAtModel, At
<1>2. QED
  BY <1>1, InitType, NextType, HistoryInit, HistoryNext, PTL DEF Spec

-----------------------------------------------------------------------------
(* Approval.                                                                 *)

YesItems == {y.item : y \in approved}

\* A call that hangs, would add a product the shop has, and is not in I.
Loose(s, I) ==
    {c \in Open(s) : IsCart(c.item) /\ c.item.what \in catalog /\ c.item \notin I}

\* What may still run in a copy has its yes, or is what the copy waits for.
Guarded(s) ==
    /\ s.next = "tools" => Loose(s, YesItems) = {}
    /\ s.next = "pause" => Loose(s, s.pause) = {}

ApprovalInv ==
    /\ AddsWereApproved
    /\ Guarded(ckpt)
    /\ \A r \in Requests :
        /\ Guarded(run[r].st)
        /\ run[r].pc = "resuming" /\ run[r].kind = "yes"
              => run[r].decided \subseteq YesItems

\* At the start nothing waits and nothing was added.
LEMMA ApprovalInit == Init => ApprovalInv
  BY DEF Init, ApprovalInv, AddsWereApproved, Guarded, NoRun, NoThread

\* Guarded copies stay guarded while the shop only loses products and the
\* shopper only gives more answers.
LEMMA GuardedStays ==
    ASSUME NEW s, Guarded(s), catalog' \subseteq catalog, approved \subseteq approved'
    PROVE  Guarded(s)'
<1>1. YesItems \subseteq YesItems'
  BY DEF YesItems
<1>2. QED
  BY <1>1 DEF Guarded, Loose, Open, IsCart

\* A step that saves s for r.
LEMMA SavedApproval ==
    ASSUME TypeOK, ApprovalInv, NEW r \in Requests, NEW x, NEW s,
           x \in Run, Save(r, x, s), Guarded(s), AddsWereApproved',
           x.pc # "resuming", catalog' = catalog, approved' = approved
    PROVE  ApprovalInv'
<1>1. /\ run'[r].st = s
      /\ run'[r].pc = x.pc
      /\ ckpt' = s
  BY DEF Save, TypeOK, Run
<1>2. \A q \in Requests \ {r} : run'[q] = run[q]
  BY DEF Save, TypeOK
<1>3. Guarded(s)'
  BY GuardedStays
<1>4. \A q \in Requests \ {r} : Guarded(run[q].st)'
  <2>1. ASSUME NEW q \in Requests \ {r} PROVE Guarded(run[q].st)'
    <3>1. Guarded(run[q].st) /\ run'[q].st = run[q].st
      BY <1>2 DEF ApprovalInv
    <3>2. QED
      BY <3>1 DEF Guarded, Loose, Open, IsCart, YesItems
  <2>2. QED
    BY <2>1
<1>5. YesItems' = YesItems
  BY DEF YesItems
<1>6. QED
  BY <1>1, <1>2, <1>3, <1>4, <1>5 DEF ApprovalInv, Guarded, Loose, Open, YesItems

\* A step that saves no copy: what each request may apply has its yes.
LEMMA UnsavedApproval ==
    ASSUME TypeOK, ApprovalInv, Unsaved, "list" \notin CatalogEvents
    PROVE  ApprovalInv'
<1> DEFINE Decides(q) == run'[q].pc = "resuming" /\ run'[q].kind = "yes"
                            => run'[q].decided \subseteq YesItems'
<1>1. ckpt' = ckpt /\ \A q \in Requests : Kept(q)
  BY UnsavedKeeps
<1>2. catalog' \subseteq catalog /\ approved \subseteq approved' /\ added' = added
  BY DEF Unsaved, AnswerCard, Deliver, LoseReply, Reload, Finish, ReplyWithCard,
         Fail, Restart, ListProduct, DelistProduct, vars
<1>3. YesItems \subseteq YesItems'
  BY <1>2 DEF YesItems
<1>4. ASSUME NEW q \in Requests,
             run'[q].pc = "resuming" => run'[q] = run[q]
      PROVE  Decides(q)
  BY <1>3, <1>4 DEF ApprovalInv
<1>5. ASSUME NEW r \in Requests, NEW pc \in {"replied", "failed"}, End(r, pc)
      PROVE  \A q \in Requests : Decides(q)
  <2>1. run'[r].pc # "resuming"
    <3>1. run[r] \in Run
      BY DEF TypeOK
    <3>2. [run[r] EXCEPT !.pc = pc].pc = pc /\ Gone.pc = "closed"
      BY <3>1 DEF Run, Gone, NoRun
    <3>3. QED
      BY <1>5, <3>2 DEF End, TypeOK
  <2>2. \A q \in Requests \ {r} : run'[q] = run[q]
    BY <1>5 DEF End, TypeOK
  <2>3. QED
    BY <1>4, <2>1, <2>2
<1>6. Gone.pc = "closed"
  BY DEF Gone, NoRun
<1>7. ASSUME NEW t \in Tabs, Leave(t) PROVE \A q \in Requests : Decides(q)
  BY <1>4, <1>6, <1>7 DEF Leave
<1>8. ASSUME NEW r \in Requests, NEW t \in Tabs, NEW yes \in BOOLEAN,
             AnswerCard(t, r, yes)
      PROVE  \A q \in Requests : Decides(q)
  <2> DEFINE x == [NoRun EXCEPT
                     !.pc      = IF ckpt.pause # {} THEN "resuming" ELSE "refused",
                     !.kind    = IF yes THEN "yes" ELSE "no",
                     !.decided = ckpt.pause,
                     !.carried = ckpt.carry]
             mine == {[item |-> i, by |-> r] : i \in ckpt.pause}
  <2>1. run' = [run EXCEPT ![r] = x]
    BY <1>8 DEF AnswerCard
  <2>2. x.decided = ckpt.pause /\ x.kind = IF yes THEN "yes" ELSE "no"
    BY DEF NoRun
  <2>3. yes => mine \subseteq approved'
    BY <1>8 DEF AnswerCard
  <2>4. yes => ckpt.pause \subseteq YesItems'
    <3>1. ASSUME NEW i \in ckpt.pause PROVE \E y \in mine : y.item = i
      <4>1. [item |-> i, by |-> r] \in mine /\ [item |-> i, by |-> r].item = i
        OBVIOUS
      <4>2. QED
        BY <4>1
    <3> HIDE DEF mine
    <3>2. QED
      BY <2>3, <3>1 DEF YesItems
  <2> HIDE DEF x, mine
  <2>5. run'[r] = x /\ \A q \in Requests \ {r} : run'[q] = run[q]
    BY <2>1 DEF TypeOK
  <2>6. Decides(r)
    BY <2>2, <2>4, <2>5
  <2>7. QED
    BY <1>4, <2>5, <2>6
<1>9. ASSUME NEW t \in Tabs, Deliver(t) PROVE \A q \in Requests : Decides(q)
  BY <1>4, <1>6, <1>9 DEF Deliver, TypeOK
<1>10. ASSUME Restart PROVE \A q \in Requests : Decides(q)
  <2>1. \A q \in Requests : [run[q] EXCEPT !.pc = "failed"].pc = "failed"
    BY DEF TypeOK, Run
  <2>2. QED
    BY <1>4, <1>6, <1>10, <2>1 DEF Restart
<1>11. \A q \in Requests : Decides(q)
  <2>1. CASE ListProduct \/ DelistProduct \/ UNCHANGED vars
    BY <1>4, <2>1 DEF ListProduct, DelistProduct, vars
  <2>2. QED
    BY <1>5, <1>7, <1>8, <1>9, <1>10, <2>1
       DEF Unsaved, LoseReply, Reload, Finish, ReplyWithCard, Fail
<1>12. AddsWereApproved'
  BY <1>2 DEF ApprovalInv, AddsWereApproved
<1>13. Guarded(NoThread)'
  BY DEF Guarded, NoThread
<1>14. ASSUME NEW s, Guarded(s) PROVE Guarded(s)'
  BY <1>2, <1>14, GuardedStays
<1>15. QED
  BY <1>1, <1>11, <1>12, <1>13, <1>14 DEF ApprovalInv, Kept

\* A step keeps the approval invariant, the shop listing nothing new.
LEMMA ApprovalNext ==
    ASSUME "list" \notin CatalogEvents
    PROVE  TypeOK /\ HistoryInv /\ ApprovalInv /\ [Next]_vars => ApprovalInv'
<1> SUFFICES ASSUME TypeOK, HistoryInv, ApprovalInv, [Next]_vars
             PROVE  ApprovalInv'
  OBVIOUS
<1>0. \A r \in Requests : run[r] \in Run /\ run[r].st \in State
  BY DEF TypeOK, Run
<1>1. CASE Unsaved
  BY <1>1, UnsavedApproval
<1>2. ASSUME NEW r \in Requests, NEW t \in Tabs, SendChat(t, r)
      PROVE  ApprovalInv'
  <2> DEFINE s == [ckpt EXCEPT !.next = "begin", !.turn = r, !.pause = {},
                               !.how = "none"]
             x == [NoRun EXCEPT !.pc = "running"]
  <2>1. Save(r, x, s)
    BY <1>2 DEF SendChat
  <2>2. x \in Run /\ x.pc # "resuming"
    BY EmptyTypes DEF Run
  <2>3. Guarded(s)
    BY DEF Guarded, TypeOK, State
  <2>4. AddsWereApproved' /\ catalog' = catalog /\ approved' = approved
    BY <1>2 DEF SendChat, ApprovalInv, AddsWereApproved
  <2> HIDE DEF s, x
  <2>5. QED
    BY <2>1, <2>2, <2>3, <2>4, SavedApproval
<1>3. ASSUME NEW r \in Requests, GuardrailReplies(r) PROVE ApprovalInv'
  <2> DEFINE s == [run[r].st EXCEPT !.next = "end", !.how = "guardrail"]
  <2>1. Save(r, run[r], s) /\ run[r].pc # "resuming"
    BY <1>3 DEF GuardrailReplies, At
  <2>2. Guarded(s)
    BY <1>0 DEF Guarded, State
  <2>3. AddsWereApproved' /\ catalog' = catalog /\ approved' = approved
    BY <1>3 DEF GuardrailReplies, ApprovalInv, AddsWereApproved
  <2> HIDE DEF s
  <2>4. QED
    BY <1>0, <2>1, <2>2, <2>3, SavedApproval
<1>4. ASSUME NEW r \in Requests, GuardrailPasses(r) PROVE ApprovalInv'
  <2> DEFINE d == Cleaned(run[r].st)
             s == [d EXCEPT !.next = "model"]
  <2>1. Save(r, run[r], s) /\ run[r].pc # "resuming"
    BY <1>4 DEF GuardrailPasses, At
  <2>2. d \in State
    BY <1>0, CleanedType
  <2> HIDE DEF d
  <2>3. Guarded(s)
    BY <2>2 DEF Guarded, State
  <2>4. AddsWereApproved' /\ catalog' = catalog /\ approved' = approved
    BY <1>4 DEF GuardrailPasses, ApprovalInv, AddsWereApproved
  <2> HIDE DEF s
  <2>5. QED
    BY <1>0, <2>1, <2>3, <2>4, SavedApproval
<1>5. ASSUME NEW r \in Requests, NEW s, CallModel(r, s), Guarded(s),
             added' = added, catalog' = catalog, approved' = approved
      PROVE  ApprovalInv'
  <2> DEFINE x == [run[r] EXCEPT !.calls = @ + 1]
  <2>1. x \in Run /\ x.pc = run[r].pc
    BY <1>0 DEF Run
  <2>2. Save(r, x, s) /\ run[r].pc # "resuming"
    BY <1>5 DEF CallModel, At
  <2>3. AddsWereApproved'
    BY <1>5 DEF ApprovalInv, AddsWereApproved
  <2> HIDE DEF x
  <2>4. QED
    BY <1>5, <2>1, <2>2, <2>3, SavedApproval
<1>6. ASSUME NEW r \in Requests, ModelAnswers(r) PROVE ApprovalInv'
  <2> DEFINE s == [run[r].st EXCEPT !.next = "end", !.how = "answered",
                                    !.carry = 0]
  <2>1. CallModel(r, s)
    BY <1>6 DEF ModelAnswers
  <2>2. Guarded(s)
    BY <1>0 DEF Guarded, State
  <2> HIDE DEF s
  <2>3. QED
    BY <1>5, <1>6, <2>1, <2>2 DEF ModelAnswers
<1>7. ASSUME NEW r \in Requests, LoopCapReplies(r) PROVE ApprovalInv'
  <2> DEFINE s == [run[r].st EXCEPT !.next = "end", !.how = "capped",
                                    !.carry = 0]
  <2>1. Save(r, run[r], s) /\ run[r].pc # "resuming"
    BY <1>7 DEF LoopCapReplies, At
  <2>2. Guarded(s)
    BY <1>0 DEF Guarded, State
  <2>3. AddsWereApproved' /\ catalog' = catalog /\ approved' = approved
    BY <1>7 DEF LoopCapReplies, ApprovalInv, AddsWereApproved
  <2> HIDE DEF s
  <2>4. QED
    BY <1>0, <2>1, <2>2, <2>3, SavedApproval
<1>8. ASSUME NEW r \in Requests, NEW b \in Batches, ModelAsksForTools(r, b)
      PROVE  ApprovalInv'
  <2> DEFINE m     == asked + 1
             items == {Asked(m, b, i) : i \in 1..Len(b)}
             ask   == {i \in items : i.what \in catalog}
             st    == run[r].st
             new   == {[msg |-> m, turn |-> st.turn, item |-> i,
                        status |-> "open"] : i \in items}
             carry == IF \E i \in items : IsCart(i)
                      THEN Totals(run[r]) + 1 ELSE st.carry
             next  == IF ask = {} THEN "tools" ELSE "pause"
             s     == [st EXCEPT !.next = next, !.msg = m,
                                 !.calls = st.calls \cup new,
                                 !.pause = ask, !.carry = carry]
  <2>1. CallModel(r, s)
    BY <1>8 DEF ModelAsksForTools
  <2>2. Open(st) = {}
    BY <2>1 DEF CallModel, At, HistoryInv, History
  <2>3. \A c \in new : c.item \in items
    OBVIOUS
  <2>4. st \in State
    BY <1>0
  <2> HIDE DEF st, new, carry, items
  <2>5. /\ s.next = next /\ s.pause = ask
        /\ s.calls = st.calls \cup new
    BY <2>4 DEF State
  <2>6. \A c \in Open(s) : c.item.what \in catalog => c.item \in ask
    BY <2>2, <2>3, <2>5 DEF Open
  <2> HIDE DEF s, ask
  <2>7. Guarded(s)
    BY <2>5, <2>6 DEF Guarded, Loose
  <2>8. QED
    BY <1>5, <1>8, <2>1, <2>7 DEF ModelAsksForTools
<1>9. ASSUME NEW r \in Requests, RunTools(r) PROVE ApprovalInv'
  <2> DEFINE st   == run[r].st
             todo == Hanging(st)
             adds == {[item |-> c.item, by |-> r, turn |-> st.turn] :
                        c \in {d \in todo : IsCart(d.item)
                                            /\ Result(d.item) = "ran"}}
             done == {[c EXCEPT !.status = Result(c.item)] : c \in todo}
             s    == [st EXCEPT !.next = "model",
                                !.calls = (st.calls \ todo) \cup done]
             x    == [run[r] EXCEPT !.acts = @ \cup adds]
  <2>1. /\ Save(r, x, s) /\ st.next = "tools" /\ run[r].pc # "resuming"
        /\ added' = added \cup adds
        /\ catalog' = catalog /\ approved' = approved
    BY <1>9 DEF RunTools, At
  <2>2. st \in State /\ st.turn \in Requests \cup {NoRequest} /\ todo \subseteq Call
    BY <1>0 DEF State, Hanging, Open
  <2>3. Loose(st, YesItems) = {}
    BY <2>1 DEF ApprovalInv, Guarded
  <2>4. \A d \in todo : IsCart(d.item) /\ Result(d.item) = "ran"
                            => d \in Open(st) /\ d.item.what \in catalog
    BY DEF Hanging, Result
  <2>5. \A a \in adds : a.item \in YesItems
    BY <2>3, <2>4 DEF Loose
  <2>6. adds \subseteq Added
    BY <2>2 DEF Added, Call
  <2>7. s.next = "model"
    BY <2>2 DEF State
  <2> HIDE DEF adds, s
  <2>8. x \in Run /\ x.pc = run[r].pc
    BY <1>0, <2>6 DEF Run
  <2> HIDE DEF x
  <2>9. AddsWereApproved'
    <3>1. \A a \in adds : \E y \in approved : y.item = a.item
      BY <2>5 DEF YesItems
    <3>2. QED
      BY <2>1, <3>1 DEF ApprovalInv, AddsWereApproved
  <2>10. Guarded(s)
    BY <2>7 DEF Guarded
  <2>11. QED
    BY <2>1, <2>8, <2>9, <2>10, SavedApproval
<1>10. ASSUME NEW r \in Requests, NEW s, Guarded(s),
              Save(r, [run[r] EXCEPT !.pc = "running"], s),
              added' = added, catalog' = catalog, approved' = approved
       PROVE  ApprovalInv'
  <2> DEFINE x == [run[r] EXCEPT !.pc = "running"]
  <2>1. x \in Run /\ x.pc # "resuming"
    BY <1>0 DEF Run
  <2>2. Save(r, x, s)
    BY <1>10
  <2>3. AddsWereApproved'
    BY <1>10 DEF ApprovalInv, AddsWereApproved
  <2> HIDE DEF x
  <2>4. QED
    BY <1>10, <2>1, <2>2, <2>3, SavedApproval
<1>11. ASSUME NEW r \in Requests, ResumeApproved(r) PROVE ApprovalInv'
  <2>1. PICK z \in Zips(ckpt.pause, run[r].decided) :
           Save(r, [run[r] EXCEPT !.pc = "running"], ApprovedState(ckpt, z))
    BY <1>11 DEF ResumeApproved
  <2> DEFINE calls == {IF IsPaused(c, ckpt.pause)
                       THEN [c EXCEPT !.item = z[c.item]] ELSE c : c \in ckpt.calls}
             s == ApprovedState(ckpt, z)
  <2>2. s.next = "tools" /\ s.calls = calls /\ ckpt.calls \subseteq Call
    BY DEF ApprovedState, TypeOK, State
  <2>3. \A i \in ckpt.pause : z[i] \in YesItems
    <3>1. run[r].decided \subseteq YesItems
      BY <1>11 DEF ResumeApproved, ApprovalInv
    <3>2. QED
      BY <3>1 DEF Zips
  <2>4. Loose(ckpt, ckpt.pause) = {}
    BY <1>11 DEF ResumeApproved, ApprovalInv, Guarded
  <2>5. \A c \in ckpt.calls : [c EXCEPT !.item = z[c.item]].item = z[c.item]
    BY <2>2 DEF Call
  <2>6. ASSUME NEW d \in calls, d.status = "open", IsCart(d.item),
               d.item.what \in catalog
        PROVE  d.item \in YesItems
    <3>1. PICK c \in ckpt.calls :
             d = IF IsPaused(c, ckpt.pause) THEN [c EXCEPT !.item = z[c.item]] ELSE c
      OBVIOUS
    <3>2. CASE IsPaused(c, ckpt.pause)
      BY <2>3, <2>5, <3>1, <3>2 DEF IsPaused
    <3>3. CASE ~IsPaused(c, ckpt.pause)
      BY <2>4, <2>6, <3>1, <3>3 DEF IsPaused, Loose, Open
    <3>4. QED
      BY <3>2, <3>3
  <2> HIDE DEF calls, s
  <2>7. Guarded(s)
    BY <2>2, <2>6 DEF Guarded, Loose, Open
  <2>8. QED
    BY <1>10, <1>11, <2>1, <2>7 DEF s, ResumeApproved
<1>12. ASSUME NEW r \in Requests, ResumeDeclined(r) PROVE ApprovalInv'
  <2> DEFINE calls == {IF IsPaused(c, ckpt.pause)
                       THEN [c EXCEPT !.status = "error"] ELSE c : c \in ckpt.calls}
             next == IF \E c \in calls : c.status = "open" /\ c.msg = ckpt.msg
                     THEN "tools" ELSE "model"
             s == DeclinedState(ckpt)
  <2>1. s.next = next /\ s.calls = calls /\ ckpt.calls \subseteq Call
    BY DEF DeclinedState, TypeOK, State
  <2>2. \A c \in ckpt.calls : [c EXCEPT !.status = "error"].status # "open"
    BY <2>1 DEF Call
  <2>3. \A d \in calls : d.status = "open"
                            => d \in ckpt.calls /\ ~IsPaused(d, ckpt.pause)
    BY <2>2
  <2>4. Loose(ckpt, ckpt.pause) = {}
    BY <1>12 DEF ResumeDeclined, ApprovalInv, Guarded
  <2>5. next # "pause"
    OBVIOUS
  <2> HIDE DEF calls, s, next
  <2>6. Guarded(s)
    BY <2>1, <2>3, <2>4, <2>5 DEF Guarded, Loose, Open, IsPaused
  <2>7. QED
    BY <1>10, <1>12, <2>6 DEF s, ResumeDeclined
<1>13. ASSUME NEW r \in Requests, ResumeElsewhere(r) PROVE ApprovalInv'
  BY <1>10, <1>13 DEF ResumeElsewhere, ApprovalInv
<1>14. QED
  BY <1>1, <1>2, <1>3, <1>4, <1>6, <1>7, <1>8, <1>9, <1>11, <1>12, <1>13
     DEF Next, ServerStep, ServerWorks, TabStep, RunFails, ResumeMismatch, Unsaved

\* However tabs, requests, failures, restarts and lost responses interleave, an
\* item is added only after the server took a yes for a request that held it,
\* provided the shop lists no product meanwhile.
THEOREM NoAddWithoutApproval ==
    ASSUME "list" \notin CatalogEvents
    PROVE  Spec => []AddsWereApproved
<1>1. ApprovalInv => AddsWereApproved
  BY DEF ApprovalInv
<1>2. TypeOK /\ HistoryInv /\ ApprovalInv /\ [Next]_vars => ApprovalInv'
  BY ApprovalNext
<1>3. QED
  BY <1>1, <1>2, InitType, NextType, HistoryInit, HistoryNext, ApprovalInit,
     PTL DEF Spec

-----------------------------------------------------------------------------
(* What a card promised.                                                     *)

\* The items request r added.
GotOf(r) == {a.item : a \in {d \in added : d.by = r}}

\* A request runs all it has a yes for of a product, or none of it.
YesRunsWhole ==
    \A r \in Requests, p \in Products :
        \/ \A i \in YesOf(r) : i.what = p => i \notin GotOf(r)
        \/ \A i \in YesOf(r) : i.what = p => i \in GotOf(r)

\* The copies of the thread, and the sets of items asked about together.
Copies == {ckpt} \cup {run[r].st : r \in Requests}
Cards  == {s.pause : s \in Copies} \cup {run[r].decided : r \in Requests}
            \cup {YesOf(r) : r \in Requests}

HangingItems(s) == {c.item : c \in Hanging(s)}

\* Sets that were asked about together share nothing or everything, and the
\* tools due in a copy are all of such a set or none.
Apart(P, Q) == P \cap Q = {} \/ P = Q
Whole(P, H) == P \cap H = {} \/ P \subseteq H

CardSound(P, n) ==
    /\ P \subseteq Item
    /\ \A i \in P : i.msg <= n /\ i.qty \in 1..LineCap

CopySound(s, C, n) ==
    /\ s \in State
    /\ s.next # "pause" => s.pause = {}
    /\ s.pause \subseteq HangingItems(s)
    /\ \A c \in s.calls : c.item.msg <= n
    /\ \A P \in C : Whole(P, HangingItems(s))

CardsInv ==
    /\ \A P \in Cards : CardSound(P, asked)
    /\ \A P, Q \in Cards : Apart(P, Q)
    /\ \A s \in Copies : CopySound(s, Cards, asked)
    /\ \A r \in Requests : run[r].pc = "idle" => YesOf(r) = {} /\ GotOf(r) = {}
    /\ YesRunsWhole

\* What hangs in a copy.
LEMMA HangingMembers ==
    ASSUME NEW s, NEW i
    PROVE  i \in HangingItems(s)
             <=> \E c \in s.calls : c.status = "open" /\ c.msg = s.msg /\ c.item = i
  BY DEF HangingItems, Hanging, Open

\* The empty thread and the empty card are sound.
LEMMA EmptySound ==
    ASSUME NEW C, NEW n
    PROVE  CopySound(NoThread, C, n) /\ CardSound({}, n)
<1>1. NoThread.calls = {} /\ NoThread.pause = {} /\ NoThread \in State
  BY EmptyTypes DEF NoThread
<1>2. HangingItems(NoThread) = {}
  BY <1>1, HangingMembers
<1>3. CopySound(NoThread, C, n)
  BY <1>1, <1>2 DEF CopySound, Whole
<1>4. CardSound({}, n)
  BY DEF CardSound
<1>5. QED
  BY <1>3, <1>4

\* A sound copy stays sound when the cards are those there were, the empty one,
\* and one that shares nothing with what hangs in it.
LEMMA CopyStays ==
    ASSUME NEW s, NEW C, NEW n \in Nat, CopySound(s, C, n),
           NEW D, NEW m \in Nat, n <= m, NEW N, Whole(N, HangingItems(s)),
           D \subseteq C \cup {N, {}}
    PROVE  CopySound(s, D, m)
<1>1. \A P \in D : Whole(P, HangingItems(s))
  BY DEF CopySound, Whole
<1>2. \A c \in s.calls : c.item.msg \in Nat
  BY DEF CopySound, State, Call, Item, MsgIds
<1>3. \A c \in s.calls : c.item.msg <= m
  BY <1>2 DEF CopySound
<1>4. QED
  BY <1>1, <1>3 DEF CopySound

\* Copies and cards after a step that adds one copy and one card to them.
LEMMA CardsKept ==
    ASSUME CardsInv, asked \in Nat, asked' \in Nat, asked <= asked',
           NEW s, NEW N,
           Copies' \subseteq Copies \cup {s, NoThread},
           Cards' \subseteq Cards \cup {N, {}},
           CardSound(N, asked'),
           \A P \in Cards : Apart(P, N),
           \A c \in Copies : Whole(N, HangingItems(c)),
           CopySound(s, Cards \cup {N}, asked')
    PROVE  /\ \A P \in Cards' : CardSound(P, asked')
           /\ \A P, Q \in Cards' : Apart(P, Q)
           /\ \A c \in Copies' : CopySound(c, Cards', asked')
<1>1. ASSUME NEW P \in Cards PROVE CardSound(P, asked')
  <2>1. CardSound(P, asked)
    BY DEF CardsInv
  <2>2. \A i \in P : i.msg \in Nat
    BY <2>1 DEF CardSound, Item, MsgIds
  <2>3. \A i \in P : i.msg <= asked'
    BY <2>1, <2>2 DEF CardSound
  <2>4. QED
    BY <2>1, <2>3 DEF CardSound
<1>2. \A P \in Cards' : CardSound(P, asked')
  BY <1>1, EmptySound
<1>3. \A P, Q \in Cards' : Apart(P, Q)
  <2>1. \A P, Q \in Cards : Apart(P, Q)
    BY DEF CardsInv
  <2>2. QED
    BY <2>1 DEF Apart
<1>4. ASSUME NEW c \in Copies PROVE CopySound(c, Cards', asked')
  <2>1. CopySound(c, Cards, asked)
    BY DEF CardsInv
  <2>2. QED
    BY <2>1, CopyStays
<1>5. CopySound(s, Cards', asked')
  <2>1. Whole({}, HangingItems(s))
    BY DEF Whole
  <2>2. Cards' \subseteq (Cards \cup {N}) \cup {{}, {}}
    OBVIOUS
  <2>3. asked' <= asked'
    OBVIOUS
  <2>4. QED
    BY <2>1, <2>2, <2>3, CopyStays
<1>6. \A c \in Copies' : CopySound(c, Cards', asked')
  BY <1>4, <1>5, EmptySound
<1>7. QED
  BY <1>2, <1>3, <1>6

\* A step that asks for nothing new.
LEMMA NoNewCard ==
    ASSUME CardsInv, TypeOK, asked' = asked, NEW s,
           Copies' \subseteq Copies \cup {s, NoThread},
           Cards' \subseteq Cards \cup {{}},
           CopySound(s, Cards, asked)
    PROVE  /\ \A P \in Cards' : CardSound(P, asked')
           /\ \A P, Q \in Cards' : Apart(P, Q)
           /\ \A c \in Copies' : CopySound(c, Cards', asked')
<1>1. asked \in Nat
  BY BoundsAssumption DEF TypeOK
<1>2. asked <= asked'
  BY <1>1
<1>3. \A c : Whole({}, HangingItems(c))
  BY DEF Whole
<1>4. CopySound(s, Cards \cup {{}}, asked')
  BY <1>1, <1>3, CopyStays
<1>5. CardSound({}, asked') /\ \A P \in Cards : Apart(P, {})
  BY EmptySound DEF Apart
<1>6. Cards' \subseteq Cards \cup {{}, {}}
  OBVIOUS
<1>7. QED
  BY <1>1, <1>2, <1>3, <1>4, <1>5, <1>6, CardsKept

\* What the requests have a yes for and have added is as it was.
LEMMA RequestsKept ==
    ASSUME CardsInv, approved' = approved, added' = added,
           \A q \in Requests : run'[q].pc = "idle" => run[q].pc = "idle"
    PROVE  /\ \A r \in Requests :
                 run'[r].pc = "idle" => YesOf(r)' = {} /\ GotOf(r)' = {}
           /\ YesRunsWhole'
<1>1. \A r \in Requests : YesOf(r)' = YesOf(r) /\ GotOf(r)' = GotOf(r)
  BY DEF YesOf, GotOf
<1>2. QED
  BY <1>1 DEF CardsInv, YesRunsWhole

\* Copies and cards after r saved s.
LEMMA SavedCards ==
    ASSUME TypeOK, NEW r \in Requests, NEW x \in Run, NEW s, Save(r, x, s),
           x.decided \in Cards \cup {{}}, approved' = approved
    PROVE  /\ Copies' \subseteq Copies \cup {s}
           /\ Cards' \subseteq Cards \cup {s.pause, {}}
           /\ run'[r].pc = x.pc
           /\ \A q \in Requests \ {r} : run'[q] = run[q]
<1>1. /\ run'[r].st = s
      /\ run'[r].pc = x.pc
      /\ run'[r].decided = x.decided
      /\ ckpt' = s
  BY DEF Save, TypeOK, Run
<1>2. \A q \in Requests \ {r} : run'[q] = run[q]
  BY DEF Save, TypeOK
<1>3. Copies' \subseteq Copies \cup {s}
  BY <1>1, <1>2 DEF Copies
<1>4. \A q \in Requests : YesOf(q)' = YesOf(q)
  BY DEF YesOf
<1>5. ASSUME NEW P \in Cards' PROVE P \in Cards \cup {s.pause, {}}
  <2>1. CASE P \in {c.pause : c \in Copies'}
    BY <1>3, <2>1 DEF Cards
  <2>2. CASE P \in {run'[q].decided : q \in Requests}
    BY <1>1, <1>2, <2>2 DEF Cards
  <2>3. CASE P \in {YesOf(q)' : q \in Requests}
    BY <1>4, <2>3 DEF Cards
  <2>4. QED
    BY <2>1, <2>2, <2>3 DEF Cards
<1>6. QED
  BY <1>1, <1>2, <1>3, <1>5

\* A step of r that saves s and asks for nothing new.
LEMMA SavedNothingNew ==
    ASSUME TypeOK, CardsInv, NEW r \in Requests, NEW x \in Run, NEW s,
           Save(r, x, s), CopySound(s, Cards, asked), s.pause \in Cards \cup {{}},
           x.decided \in Cards \cup {{}}, x.pc # "idle",
           approved' = approved, added' = added, asked' = asked
    PROVE  CardsInv'
<1>1. /\ Copies' \subseteq Copies \cup {s}
      /\ Cards' \subseteq Cards \cup {s.pause, {}}
      /\ run'[r].pc = x.pc
      /\ \A q \in Requests \ {r} : run'[q] = run[q]
  BY SavedCards
<1>2. /\ \A P \in Cards' : CardSound(P, asked')
      /\ \A P, Q \in Cards' : Apart(P, Q)
      /\ \A c \in Copies' : CopySound(c, Cards', asked')
  <2>1. Copies' \subseteq Copies \cup {s, NoThread} /\ Cards' \subseteq Cards \cup {{}}
    BY <1>1
  <2>2. QED
    BY <2>1, NoNewCard
<1>3. \A q \in Requests : run'[q].pc = "idle" => run[q].pc = "idle"
  BY <1>1
<1>4. /\ \A q \in Requests :
            run'[q].pc = "idle" => YesOf(q)' = {} /\ GotOf(q)' = {}
      /\ YesRunsWhole'
  BY <1>3, RequestsKept
<1>5. QED
  BY <1>2, <1>4 DEF CardsInv

\* A run that goes on with the same calls and no card.
LEMMA SameCallsSound ==
    ASSUME NEW s, NEW C, NEW n, CopySound(s, C, n), NEW d \in State,
           d.calls = s.calls, d.msg = s.msg, d.pause = {}
    PROVE  CopySound(d, C, n)
<1>1. \A i : i \in HangingItems(d) <=> i \in HangingItems(s)
  BY HangingMembers
<1>2. HangingItems(d) = HangingItems(s)
  BY <1>1
<1>3. QED
  BY <1>2 DEF CopySound

\* A copy in which no tool is due.
LEMMA NothingDueSound ==
    ASSUME NEW C, NEW n, NEW d \in State, d.pause = {},
           \A c \in d.calls : c.status = "open" => c.msg # d.msg,
           \A c \in d.calls : c.item.msg <= n
    PROVE  CopySound(d, C, n)
<1>1. HangingItems(d) = {}
  BY HangingMembers
<1>2. QED
  BY <1>1 DEF CopySound, Whole

\* The calls of a card get the items of another set that was asked together, or
\* none: what is due is still all of each set or none of it.
LEMMA AnsweredSound ==
    ASSUME NEW s, NEW C, NEW n, CopySound(s, C, n), s.pause \in C,
           NEW D, \A P \in C : Apart(P, D), \A P \in C : Apart(P, s.pause),
           \A i \in D : i.msg <= n,
           NEW d \in State, d.pause = {}, \A c \in d.calls : c.item.msg <= n,
           D \subseteq HangingItems(d),
           \A i \in HangingItems(d) : i \in D \/ i \in HangingItems(s) \ s.pause,
           HangingItems(s) \ s.pause \subseteq HangingItems(d)
    PROVE  CopySound(d, C, n)
<1>1. ASSUME NEW P \in C PROVE Whole(P, HangingItems(d))
  <2>1. Whole(P, HangingItems(s)) /\ Apart(P, D) /\ Apart(P, s.pause)
    BY DEF CopySound
  <2>2. CASE P = D
    BY <2>2 DEF Whole
  <2>3. CASE P \cap D = {} /\ P = s.pause
    BY <2>3 DEF Whole
  <2>4. CASE P \cap D = {} /\ P \cap s.pause = {}
    BY <2>1, <2>4 DEF Whole
  <2>5. QED
    BY <2>1, <2>2, <2>3, <2>4 DEF Apart
<1>2. QED
  BY <1>1 DEF CopySound

\* The saved thread and every run's copy are among the copies.
LEMMA CopiesSound ==
    ASSUME CardsInv
    PROVE  /\ CopySound(ckpt, Cards, asked) /\ ckpt.pause \in Cards
           /\ \A r \in Requests : /\ CopySound(run[r].st, Cards, asked)
                                  /\ run[r].st.pause \in Cards
                                  /\ run[r].decided \in Cards
                                  /\ YesOf(r) \in Cards
<1>1. ckpt \in Copies /\ \A r \in Requests : run[r].st \in Copies
  BY DEF Copies
<1>2. \A s \in Copies : s.pause \in Cards
  BY DEF Cards
<1>3. \A r \in Requests : run[r].decided \in Cards /\ YesOf(r) \in Cards
  BY DEF Cards
<1>4. QED
  BY <1>1, <1>2, <1>3 DEF CardsInv

\* Copies and cards after a step that saves no copy.
LEMMA UnsavedCards ==
    ASSUME TypeOK, CardsInv, Unsaved
    PROVE  CardsInv'
<1>1. ckpt' = ckpt /\ (\A q \in Requests : Kept(q)) /\ added' = added /\ asked' = asked
  <2>1. added' = added /\ asked' = asked
    BY DEF Unsaved, AnswerCard, Deliver, LoseReply, Reload, Finish, ReplyWithCard,
           Fail, Restart, ListProduct, DelistProduct, vars
  <2>2. QED
    BY <2>1, UnsavedKeeps
<1> DEFINE Keeps(q) == /\ run'[q].pc = "idle" => run[q].pc = "idle"
                       /\ run'[q].decided \in {run[q].decided, {}}
<1>2. Gone.pc = "closed" /\ Gone.decided = {}
  BY DEF Gone, NoRun
<1>3. \A q \in Requests : \A pc : /\ [run[q] EXCEPT !.pc = pc].pc = pc
                                  /\ [run[q] EXCEPT !.pc = pc].decided = run[q].decided
  BY DEF TypeOK, Run
<1>4. CASE \E r \in Requests, t \in Tabs, yes \in BOOLEAN : AnswerCard(t, r, yes)
  <2>1. PICK r \in Requests : \E t \in Tabs, yes \in BOOLEAN : AnswerCard(t, r, yes)
    BY <1>4
  <2>2. PICK yes \in BOOLEAN : \E t \in Tabs : AnswerCard(t, r, yes)
    BY <2>1
  <2> DEFINE x == [NoRun EXCEPT
                     !.pc      = IF ckpt.pause # {} THEN "resuming" ELSE "refused",
                     !.kind    = IF yes THEN "yes" ELSE "no",
                     !.decided = ckpt.pause,
                     !.carried = ckpt.carry]
             mine == {[item |-> i, by |-> r] : i \in ckpt.pause}
  <2>3. /\ run' = [run EXCEPT ![r] = x]
        /\ run[r].pc = "idle"
        /\ approved' = IF yes THEN approved \cup mine ELSE approved
    BY <2>2 DEF AnswerCard
  <2>4. x.decided = ckpt.pause /\ x.pc # "idle"
    BY DEF NoRun
  <2>5. \A y : y \in mine <=> \E i \in ckpt.pause : y = [item |-> i, by |-> r]
    OBVIOUS
  <2> HIDE DEF x, mine
  <2>6. run'[r] = x /\ \A q \in Requests \ {r} : run'[q] = run[q]
    BY <2>3 DEF TypeOK
  <2>7. \A q \in Requests \ {r} : YesOf(q)' = YesOf(q)
    <3>1. \A y \in mine : y.by = r
      BY <2>5
    <3>2. ASSUME NEW q \in Requests \ {r}
          PROVE  {a \in approved' : a.by = q} = {a \in approved : a.by = q}
      BY <2>3, <3>1
    <3>3. QED
      BY <3>2 DEF YesOf
  <2>8. YesOf(r) = {} /\ GotOf(r) = {}
    BY <2>3 DEF CardsInv
  <2>9. YesOf(r)' = ckpt.pause \/ YesOf(r)' = {}
    <3>1. CASE yes
      <4>1. \A y \in approved : y.by # r
        BY <2>8 DEF YesOf
      <4>2. {a \in approved' : a.by = r} = mine
        BY <2>3, <2>5, <3>1, <4>1
      <4>3. {y.item : y \in mine} = ckpt.pause
        <5>1. ASSUME NEW i \in ckpt.pause PROVE \E y \in mine : y.item = i
          <6>1. [item |-> i, by |-> r] \in mine /\ [item |-> i, by |-> r].item = i
            BY <2>5
          <6>2. QED
            BY <6>1
        <5>2. \A y \in mine : y.item \in ckpt.pause
          BY <2>5
        <5>3. QED
          BY <5>1, <5>2
      <4>4. QED
        BY <4>2, <4>3 DEF YesOf
    <3>2. CASE ~yes
      BY <2>3, <2>8, <3>2 DEF YesOf
    <3>3. QED
      BY <3>1, <3>2
  <2>10. \A q \in Requests : GotOf(q)' = GotOf(q)
    BY <1>1 DEF GotOf
  <2>11. Copies' \subseteq Copies \cup {ckpt, NoThread}
    BY <1>1 DEF Copies, Kept
  <2>12. Cards' \subseteq Cards \cup {{}}
    <3>1. ASSUME NEW P \in Cards' PROVE P \in Cards \cup {{}}
      <4>1. CASE P \in {c.pause : c \in Copies'}
        BY <2>11, <4>1, CopiesSound DEF Cards, NoThread
      <4>2. CASE P \in {run'[q].decided : q \in Requests}
        BY <2>4, <2>6, <4>2, CopiesSound DEF Cards
      <4>3. CASE P \in {YesOf(q)' : q \in Requests}
        BY <2>7, <2>9, <4>3, CopiesSound
      <4>4. QED
        BY <4>1, <4>2, <4>3 DEF Cards
    <3>2. QED
      BY <3>1
  <2>13. /\ \A P \in Cards' : CardSound(P, asked')
         /\ \A P, Q \in Cards' : Apart(P, Q)
         /\ \A c \in Copies' : CopySound(c, Cards', asked')
    BY <1>1, <2>11, <2>12, CopiesSound, NoNewCard
  <2>14. ASSUME NEW q \in Requests, run'[q].pc = "idle"
         PROVE  YesOf(q)' = {} /\ GotOf(q)' = {}
    BY <2>4, <2>6, <2>7, <2>10, <2>14 DEF CardsInv
  <2>15. YesRunsWhole'
    <3>1. ASSUME NEW q \in Requests, NEW p \in Products
          PROVE  \/ \A i \in YesOf(q)' : i.what = p => i \notin GotOf(q)'
                 \/ \A i \in YesOf(q)' : i.what = p => i \in GotOf(q)'
      <4>1. CASE q = r
        BY <2>8, <2>10, <4>1
      <4>2. CASE q # r
        BY <2>7, <2>10, <4>2 DEF CardsInv, YesRunsWhole
      <4>3. QED
        BY <4>1, <4>2
    <3>2. QED
      BY <3>1 DEF YesRunsWhole
  <2>16. QED
    BY <2>13, <2>14, <2>15 DEF CardsInv
<1>5. ASSUME approved' = approved, \A q \in Requests : Keeps(q)
      PROVE  CardsInv'
  <2>1. Copies' \subseteq Copies \cup {ckpt, NoThread}
    BY <1>1 DEF Copies, Kept
  <2>2. Cards' \subseteq Cards \cup {{}}
    <3>1. \A q \in Requests : YesOf(q)' = YesOf(q)
      BY <1>5 DEF YesOf
    <3>2. ASSUME NEW P \in Cards' PROVE P \in Cards \cup {{}}
      <4>1. CASE P \in {c.pause : c \in Copies'}
        BY <2>1, <4>1, CopiesSound DEF Cards, NoThread
      <4>2. CASE P \in {run'[q].decided : q \in Requests}
        BY <1>5, <4>2, CopiesSound
      <4>3. CASE P \in {YesOf(q)' : q \in Requests}
        BY <3>1, <4>3, CopiesSound
      <4>4. QED
        BY <4>1, <4>2, <4>3 DEF Cards
    <3>3. QED
      BY <3>2
  <2>3. /\ \A P \in Cards' : CardSound(P, asked')
        /\ \A P, Q \in Cards' : Apart(P, Q)
        /\ \A c \in Copies' : CopySound(c, Cards', asked')
    BY <1>1, <2>1, <2>2, CopiesSound, NoNewCard
  <2>4. /\ \A q \in Requests :
              run'[q].pc = "idle" => YesOf(q)' = {} /\ GotOf(q)' = {}
        /\ YesRunsWhole'
    BY <1>1, <1>5, RequestsKept
  <2>5. QED
    BY <2>3, <2>4 DEF CardsInv
<1>6. ASSUME NEW r \in Requests, NEW pc \in {"replied", "failed"}, End(r, pc)
      PROVE  \A q \in Requests : Keeps(q)
  BY <1>2, <1>3, <1>6 DEF End, TypeOK
<1>7. ASSUME NEW t \in Tabs, Leave(t) PROVE \A q \in Requests : Keeps(q)
  BY <1>2, <1>7 DEF Leave
<1>8. ASSUME NEW t \in Tabs, Deliver(t) PROVE \A q \in Requests : Keeps(q)
  BY <1>2, <1>8 DEF Deliver, TypeOK
<1>9. ASSUME Restart PROVE \A q \in Requests : Keeps(q)
  BY <1>2, <1>3, <1>9 DEF Restart
<1>10. CASE \/ \E t \in Tabs : Deliver(t) \/ LoseReply(t) \/ Reload(t)
            \/ \E r \in Requests : Finish(r) \/ ReplyWithCard(r) \/ Fail(r)
            \/ Restart \/ ListProduct \/ DelistProduct \/ UNCHANGED vars
  <2>1. approved' = approved
    BY <1>10 DEF Deliver, LoseReply, Reload, Finish, ReplyWithCard, Fail, Restart,
                 ListProduct, DelistProduct, vars
  <2>2. CASE ListProduct \/ DelistProduct \/ UNCHANGED vars
    BY <1>5, <2>1, <2>2 DEF ListProduct, DelistProduct, vars
  <2>3. CASE \E t \in Tabs : Deliver(t) \/ LoseReply(t) \/ Reload(t)
    BY <1>5, <1>7, <1>8, <2>1, <2>3 DEF LoseReply, Reload
  <2>4. CASE \E r \in Requests : Finish(r) \/ ReplyWithCard(r) \/ Fail(r)
    <3>1. PICK r \in Requests : End(r, "replied") \/ End(r, "failed")
      BY <2>4 DEF Finish, ReplyWithCard, Fail
    <3>2. \A q \in Requests : Keeps(q)
      BY <1>6, <3>1
    <3>3. QED
      BY <1>5, <2>1, <3>2
  <2>5. QED
    BY <1>5, <1>9, <1>10, <2>1, <2>2, <2>3, <2>4
<1>11. QED
  BY <1>4, <1>10 DEF Unsaved

\* At the start nothing was asked and nothing was answered.
LEMMA CardsInit == Init => CardsInv
<1> SUFFICES ASSUME Init PROVE CardsInv
  OBVIOUS
<1>1. \A r \in Requests : YesOf(r) = {} /\ GotOf(r) = {}
  BY DEF Init, YesOf, GotOf
<1>2. \A s \in Copies : s = NoThread
  BY DEF Init, Copies, NoRun
<1>3. \A P \in Cards : P = {}
  BY <1>1, <1>2 DEF Cards, Init, NoRun, NoThread
<1>4. YesRunsWhole
  BY <1>1 DEF YesRunsWhole
<1>5. QED
  BY <1>1, <1>2, <1>3, <1>4, EmptySound DEF CardsInv, Apart, Whole

\* The clean-up leaves no tool due and no item the copy did not have.
LEMMA CleanedSound ==
    ASSUME NEW s, NEW C, NEW n, CopySound(s, C, n), NEW d \in State,
           d.calls = Cleaned(s).calls, d.pause = {}
    PROVE  CopySound(d, C, n)
<1> DEFINE dangling == {c.msg : c \in Open(s)}
           kept == {IF c.msg \in dangling THEN [c EXCEPT !.status = "orphan"]
                                          ELSE c : c \in s.calls \ Open(s)}
<1>1. s \in State
  BY DEF CopySound
<1>2. Cleaned(s).calls = kept
  BY <1>1 DEF Cleaned, State
<1>3. Open(Cleaned(s)) = {}
  BY <1>1, CleanedHasNoOpen
<1>4. \A c \in s.calls : [c EXCEPT !.status = "orphan"].item = c.item
  BY <1>1 DEF State, Call
<1>5. \A c \in kept : \E b \in s.calls : c.item = b.item
  BY <1>4
<1> HIDE DEF kept
<1>6. \A c \in d.calls : c.item.msg <= n
  BY <1>2, <1>5 DEF CopySound
<1>7. \A c \in d.calls : c.status # "open"
  BY <1>3 DEF Open
<1>8. QED
  BY <1>6, <1>7, NothingDueSound

\* A yes: the calls of the card get the items the answer was prepared from.
LEMMA ApprovedSound ==
    ASSUME NEW s, NEW C, NEW n, CopySound(s, C, n), s.pause \in C, NEW D \in C,
           \A P, Q \in C : Apart(P, Q), CardSound(D, n), NEW z \in Zips(s.pause, D)
    PROVE  CopySound(ApprovedState(s, z), C, n)
<1> DEFINE calls == {IF IsPaused(c, s.pause)
                     THEN [c EXCEPT !.item = z[c.item]] ELSE c : c \in s.calls}
           d == ApprovedState(s, z)
<1>1. s \in State /\ s.calls \subseteq Call
  BY DEF CopySound, State
<1>2. z \in [s.pause -> D] /\ \A i \in D : \E p \in s.pause : z[p] = i
  BY DEF Zips
<1>3. D \subseteq Item /\ \A i \in D : i.msg <= n
  BY DEF CardSound
<1>4. d \in State
  BY <1>1, <1>3, ResumeTypes
<1>5. d.calls = calls /\ d.msg = s.msg /\ d.pause = {}
  BY <1>1 DEF ApprovedState, State
<1>6. ASSUME NEW c \in s.calls
      PROVE  LET e == [c EXCEPT !.item = z[c.item]]
             IN  e.msg = c.msg /\ e.status = c.status /\ e.item = z[c.item]
  BY <1>1 DEF Call
<1>7. ASSUME NEW c \in s.calls, IsPaused(c, s.pause)
      PROVE  \E e \in calls : /\ e.msg = c.msg /\ e.status = c.status
                              /\ e.item = z[c.item]
  BY <1>6, <1>7
<1>8. ASSUME NEW c \in s.calls, ~IsPaused(c, s.pause) PROVE c \in calls
  BY <1>8
<1>9. ASSUME NEW e \in calls
      PROVE  \/ e \in s.calls /\ ~IsPaused(e, s.pause)
             \/ e.item \in D
  <2>1. PICK c \in s.calls :
          e = IF IsPaused(c, s.pause) THEN [c EXCEPT !.item = z[c.item]] ELSE c
    OBVIOUS
  <2>2. CASE IsPaused(c, s.pause)
    <3>1. e.item = z[c.item] /\ c.item \in s.pause
      BY <1>6, <2>1, <2>2 DEF IsPaused
    <3>2. QED
      BY <1>2, <3>1
  <2>3. CASE ~IsPaused(c, s.pause)
    BY <2>1, <2>3
  <2>4. QED
    BY <2>2, <2>3
<1> HIDE DEF calls, d
<1>10. \A e \in d.calls : e.item.msg <= n
  BY <1>3, <1>5, <1>9 DEF CopySound
<1>11. ASSUME NEW i \in D PROVE i \in HangingItems(d)
  <2>1. PICK p \in s.pause : z[p] = i
    BY <1>2
  <2>2. p \in HangingItems(s)
    BY DEF CopySound
  <2>3. PICK c \in s.calls : c.status = "open" /\ c.msg = s.msg /\ c.item = p
    BY <2>2, HangingMembers
  <2>4. IsPaused(c, s.pause)
    BY <2>3 DEF IsPaused
  <2>5. \E e \in d.calls : e.status = "open" /\ e.msg = d.msg /\ e.item = i
    BY <1>5, <1>7, <2>1, <2>3, <2>4
  <2>6. QED
    BY <2>5, HangingMembers
<1>12. ASSUME NEW i \in HangingItems(d)
       PROVE  i \in D \/ i \in HangingItems(s) \ s.pause
  <2>1. PICK e \in d.calls : e.status = "open" /\ e.msg = d.msg /\ e.item = i
    BY HangingMembers
  <2>2. CASE e \in s.calls /\ ~IsPaused(e, s.pause)
    <3>1. i \in HangingItems(s)
      BY <1>5, <2>1, <2>2, HangingMembers
    <3>2. QED
      BY <2>1, <2>2, <3>1 DEF IsPaused
  <2>3. QED
    BY <1>5, <1>9, <2>1, <2>2
<1>13. ASSUME NEW i \in HangingItems(s) \ s.pause PROVE i \in HangingItems(d)
  <2>1. PICK c \in s.calls : c.status = "open" /\ c.msg = s.msg /\ c.item = i
    BY HangingMembers
  <2>2. c \in d.calls
    BY <1>5, <1>8, <2>1 DEF IsPaused
  <2>3. QED
    BY <1>5, <2>1, <2>2, HangingMembers
<1>14. CopySound(d, C, n)
  <2>1. \A P \in C : Apart(P, D) /\ Apart(P, s.pause)
    OBVIOUS
  <2>2. D \subseteq HangingItems(d) /\ HangingItems(s) \ s.pause \subseteq HangingItems(d)
    BY <1>11, <1>13
  <2>3. QED
    BY <1>3, <1>4, <1>5, <1>10, <1>12, <2>1, <2>2, AnsweredSound
<1>15. QED
  BY <1>14 DEF d

\* A no: the calls of the card have their result.
LEMMA DeclinedSound ==
    ASSUME NEW s, NEW C, NEW n, CopySound(s, C, n), s.pause \in C,
           \A P, Q \in C : Apart(P, Q)
    PROVE  CopySound(DeclinedState(s), C, n)
<1> DEFINE calls == {IF IsPaused(c, s.pause)
                     THEN [c EXCEPT !.status = "error"] ELSE c : c \in s.calls}
           d == DeclinedState(s)
<1>1. s \in State /\ s.calls \subseteq Call
  BY DEF CopySound, State
<1>2. d \in State
  BY <1>1, ResumeTypes
<1>3. d.calls = calls /\ d.msg = s.msg /\ d.pause = {}
  BY <1>1 DEF DeclinedState, State
<1>4. ASSUME NEW c \in s.calls
      PROVE  LET e == [c EXCEPT !.status = "error"]
             IN  e.status = "error" /\ e.item = c.item
  BY <1>1 DEF Call
<1>5. ASSUME NEW e \in calls
      PROVE  /\ \E c \in s.calls : c.item = e.item
             /\ e.status = "open" => e \in s.calls /\ ~IsPaused(e, s.pause)
  <2>1. PICK c \in s.calls :
          e = IF IsPaused(c, s.pause) THEN [c EXCEPT !.status = "error"] ELSE c
    OBVIOUS
  <2>2. QED
    BY <1>4, <2>1
<1>6. ASSUME NEW c \in s.calls, ~IsPaused(c, s.pause) PROVE c \in calls
  BY <1>6
<1> HIDE DEF calls, d
<1>7. \A e \in d.calls : e.item.msg <= n
  BY <1>3, <1>5 DEF CopySound
<1>8. ASSUME NEW i \in HangingItems(d) PROVE i \in HangingItems(s) \ s.pause
  <2>1. PICK e \in d.calls : e.status = "open" /\ e.msg = d.msg /\ e.item = i
    BY HangingMembers
  <2>2. e \in s.calls /\ ~IsPaused(e, s.pause)
    BY <1>3, <1>5, <2>1
  <2>3. QED
    BY <1>3, <2>1, <2>2, HangingMembers DEF IsPaused
<1>9. ASSUME NEW i \in HangingItems(s) \ s.pause PROVE i \in HangingItems(d)
  <2>1. PICK c \in s.calls : c.status = "open" /\ c.msg = s.msg /\ c.item = i
    BY HangingMembers
  <2>2. c \in d.calls
    BY <1>3, <1>6, <2>1 DEF IsPaused
  <2>3. QED
    BY <1>3, <2>1, <2>2, HangingMembers
<1>10. CopySound(d, C, n)
  <2>1. \A P \in C : Apart(P, {}) /\ Apart(P, s.pause)
    BY DEF Apart
  <2>2. HangingItems(s) \ s.pause \subseteq HangingItems(d)
    BY <1>9
  <2>3. (\A i \in {} : i.msg <= n) /\ {} \subseteq HangingItems(d)
    OBVIOUS
  <2>4. QED
    BY <1>2, <1>3, <1>7, <1>8, <2>1, <2>2, <2>3, AnsweredSound
<1>11. QED
  BY <1>10 DEF d

\* Two sets that hold the same items of a product count alike.
LEMMA SameQty ==
    ASSUME NEW P, NEW Q, NEW p, \A i : i \in P /\ i.what = p <=> i \in Q /\ i.what = p
    PROVE  Qty(P, p) = Qty(Q, p)
<1> DEFINE F(S) == MapThenSumSet(LAMBDA i : i.qty, S)
<1>1. {i \in P : i.what = p} = {i \in Q : i.what = p}
  OBVIOUS
<1>2. Qty(P, p) = F({i \in P : i.what = p}) /\ Qty(Q, p) = F({i \in Q : i.what = p})
  BY DEF Qty
<1> HIDE DEF F
<1>3. QED
  BY <1>1, <1>2

\* The card of a new model message is sound, and its items are of that message.
LEMMA AskedCard ==
    ASSUME TypeOK, NEW m \in MsgIds, NEW b \in Batches
    PROVE  LET items == {Asked(m, b, i) : i \in 1..Len(b)}
           IN  /\ \A i \in items : i \in Item /\ i.msg = m
               /\ CardSound({i \in items : i.what \in catalog}, m)
<1> DEFINE items == {Asked(m, b, i) : i \in 1..Len(b)}
           ask   == {i \in items : i.what \in catalog}
           T     == [what : Targets, qty : Nat]
<1>1. \A i \in items : i \in Item /\ i.msg = m
  BY AskedType DEF Asked
<1>2. ASSUME NEW i \in 1..Len(b) PROVE b[i].qty \in Nat
  <2>1. b \in Seq(T)
    BY BatchesAssumption
  <2>2. b[i] \in T
    <3> HIDE DEF T
    <3>1. QED
      BY <2>1
  <2>3. QED
    BY <2>2
<1>3. \A q \in Nat : Clamp(q) \in 1..LineCap
  BY BoundsAssumption DEF Clamp
<1>4. ASSUME NEW i \in ask PROVE i.qty \in 1..LineCap
  <2>1. PICK k \in 1..Len(b) : i = Asked(m, b, k)
    OBVIOUS
  <2>2. i.qty = Clamp(b[k].qty)
    BY <2>1 DEF Asked
  <2>3. QED
    BY <1>2, <1>3, <2>2
<1>5. ask \subseteq Item
  BY <1>1
<1>6. \A i \in ask : i.msg <= m
  BY <1>1 DEF MsgIds
<1> HIDE DEF ask
<1>7. CardSound(ask, m)
  BY <1>4, <1>5, <1>6 DEF CardSound
<1>8. QED
  BY <1>1, <1>7 DEF ask

\* The model's new calls: a card of items nobody has heard of.
LEMMA AskingKeepsCards ==
    ASSUME TypeOK, HistoryInv, CardsInv, NEW r \in Requests, NEW b \in Batches,
           ModelAsksForTools(r, b)
    PROVE  CardsInv'
<1> DEFINE m     == asked + 1
           items == {Asked(m, b, i) : i \in 1..Len(b)}
           ask   == {i \in items : i.what \in catalog}
           st    == run[r].st
           new   == {[msg |-> m, turn |-> st.turn, item |-> i,
                      status |-> "open"] : i \in items}
           carry == IF \E i \in items : IsCart(i)
                    THEN Totals(run[r]) + 1 ELSE st.carry
           next  == IF ask = {} THEN "tools" ELSE "pause"
           s     == [st EXCEPT !.next = next, !.msg = m,
                               !.calls = st.calls \cup new,
                               !.pause = ask, !.carry = carry]
           x     == [run[r] EXCEPT !.calls = @ + 1]
<1>1. /\ Save(r, x, s) /\ st.next = "model" /\ run[r].pc = "running"
      /\ asked < MaxMessages /\ asked' = m
      /\ approved' = approved /\ added' = added
  BY DEF ModelAsksForTools, CallModel, At
<1>2. run[r] \in Run /\ st \in State
  BY DEF TypeOK, Run
<1>3. x \in Run /\ x.pc = run[r].pc /\ x.decided = run[r].decided
  BY <1>2 DEF Run
<1>4. m \in MsgIds /\ asked \in Nat /\ m \in Nat /\ asked <= m /\ ~(m <= asked)
  BY <1>1, BoundsAssumption DEF TypeOK, MsgIds
<1>5. (\A i \in items : i \in Item /\ i.msg = m) /\ CardSound(ask, m)
  BY <1>4, AskedCard
<1>6. Open(st) = {}
  BY <1>1 DEF HistoryInv, History
<1>7. /\ \A c \in new : c.status = "open" /\ c.msg = m /\ c.item \in items
      /\ \A i \in items : \E c \in new : c.status = "open" /\ c.msg = m /\ c.item = i
  <2>1. \A c \in new : c.status = "open" /\ c.msg = m /\ c.item \in items
    OBVIOUS
  <2>2. ASSUME NEW i \in items
        PROVE  \E c \in new : c.status = "open" /\ c.msg = m /\ c.item = i
    <3> DEFINE c == [msg |-> m, turn |-> st.turn, item |-> i, status |-> "open"]
    <3>1. c \in new /\ c.status = "open" /\ c.msg = m /\ c.item = i
      OBVIOUS
    <3>2. QED
      BY <3>1
  <2>3. QED
    BY <2>1, <2>2
<1>8. new \subseteq Call
  BY <1>2, <1>4, <1>5 DEF State, Call
<1>9. carry \in Nat
  BY <1>2 DEF Totals, Run, State
<1>10. next \in {"tools", "pause"} /\ (next # "pause" => ask = {}) /\ ask \subseteq items
  OBVIOUS
<1> HIDE DEF m, items, ask, st, new, carry, next, x
<1>11. /\ s.next = next /\ s.msg = m /\ s.pause = ask
       /\ s.calls = st.calls \cup new
  BY <1>2 DEF State
<1>12. ask \subseteq Item
  BY <1>5, <1>10
<1>13. s \in State
  BY <1>2, <1>4, <1>8, <1>9, <1>10, <1>12 DEF State
<1> HIDE DEF s
<1>14. HangingItems(s) = items
  <2>1. ASSUME NEW i PROVE i \in HangingItems(s) <=> i \in items
    <3>1. \A c \in st.calls : c.status # "open"
      BY <1>6 DEF Open
    <3>2. QED
      BY <1>7, <1>11, <3>1, HangingMembers
  <2>2. QED
    BY <2>1
<1>15. CopySound(st, Cards, asked) /\ run[r].decided \in Cards
  BY CopiesSound DEF st
<1>16. \A i \in items : ~(i.msg <= asked)
  BY <1>4, <1>5
<1>17. ASSUME NEW P \in Cards
       PROVE  P \cap items = {} /\ Apart(P, ask) /\ Whole(P, items)
  <2>1. \A i \in P : i.msg <= asked
    BY DEF CardsInv, CardSound
  <2>2. P \cap items = {}
    BY <1>16, <2>1
  <2>3. QED
    BY <1>10, <2>2 DEF Apart, Whole
<1>18. ASSUME NEW c \in Copies PROVE Whole(ask, HangingItems(c))
  <2>1. \A d \in c.calls : d.item.msg <= asked
    BY DEF CardsInv, CopySound
  <2>2. \A i \in HangingItems(c) : i.msg <= asked
    BY <2>1, HangingMembers
  <2>3. QED
    BY <1>10, <1>16, <2>2 DEF Whole
<1>19. CopySound(s, Cards \cup {ask}, m)
  <2>1. \A P \in Cards \cup {ask} : Whole(P, HangingItems(s))
    BY <1>10, <1>14, <1>17 DEF Whole
  <2>2. ASSUME NEW c \in s.calls PROVE c.item.msg <= m
    <3>1. CASE c \in st.calls
      <4>1. c.item.msg <= asked /\ c.item.msg \in Nat
        BY <1>2, <1>15, <3>1 DEF CopySound, State, Call, Item, MsgIds
      <4>2. QED
        BY <1>4, <4>1
    <3>2. CASE c \in new
      BY <1>4, <1>5, <1>7, <3>2
    <3>3. QED
      BY <1>11, <3>1, <3>2
  <2>3. QED
    BY <1>10, <1>11, <1>13, <1>14, <2>1, <2>2 DEF CopySound
<1>20. /\ Copies' \subseteq Copies \cup {s}
       /\ Cards' \subseteq Cards \cup {ask, {}}
       /\ run'[r].pc = x.pc
       /\ \A q \in Requests \ {r} : run'[q] = run[q]
  BY <1>1, <1>3, <1>11, <1>15, SavedCards
<1>21. /\ \A P \in Cards' : CardSound(P, asked')
       /\ \A P, Q \in Cards' : Apart(P, Q)
       /\ \A c \in Copies' : CopySound(c, Cards', asked')
  <2>1. Copies' \subseteq Copies \cup {s, NoThread}
    BY <1>20
  <2>2. asked' \in Nat /\ asked <= asked' /\ CardSound(ask, asked')
    BY <1>1, <1>4, <1>5
  <2>3. CopySound(s, Cards \cup {ask}, asked')
    BY <1>1, <1>19
  <2>4. \A P \in Cards : Apart(P, ask)
    BY <1>17
  <2>5. QED
    BY <1>4, <1>18, <1>20, <2>1, <2>2, <2>3, <2>4, CardsKept
<1>22. /\ \A q \in Requests :
             run'[q].pc = "idle" => YesOf(q)' = {} /\ GotOf(q)' = {}
       /\ YesRunsWhole'
  BY <1>1, <1>3, <1>20, RequestsKept
<1>23. QED
  BY <1>21, <1>22 DEF CardsInv

\* The tools of a message run: of what the request has a yes for, all calls of a
\* product or none are due, and the shop has the product for all of them or none.
LEMMA RunningKeepsCards ==
    ASSUME TypeOK, CardsInv, NEW r \in Requests, RunTools(r)
    PROVE  CardsInv'
<1> DEFINE st   == run[r].st
           todo == Hanging(st)
           adds == {[item |-> c.item, by |-> r, turn |-> st.turn] :
                      c \in {d \in todo : IsCart(d.item)
                                          /\ Result(d.item) = "ran"}}
           done == {[c EXCEPT !.status = Result(c.item)] : c \in todo}
           s    == [st EXCEPT !.next = "model",
                              !.calls = (st.calls \ todo) \cup done]
           x    == [run[r] EXCEPT !.acts = @ \cup adds]
<1>1. /\ Save(r, x, s) /\ st.next = "tools" /\ run[r].pc = "running"
      /\ added' = added \cup adds
      /\ approved' = approved /\ asked' = asked
  BY DEF RunTools, At
<1>2. run[r] \in Run /\ st \in State /\ st.calls \subseteq Call
      /\ st.turn \in Requests \cup {NoRequest} /\ todo \subseteq st.calls
  BY DEF TypeOK, Run, State, Hanging, Open
<1>3. \A c \in todo : LET e == [c EXCEPT !.status = Result(c.item)]
                      IN  e \in Call /\ e.status # "open" /\ e.item = c.item
  BY <1>2 DEF Call, Result
<1>4. \A e \in done : /\ e \in Call /\ e.status # "open"
                      /\ \E c \in st.calls : e.item = c.item
  BY <1>2, <1>3
<1>5. adds \subseteq Added
  BY <1>2 DEF Added, Call
<1>6. x \in Run /\ x.pc = run[r].pc /\ x.decided = run[r].decided
  <2> HIDE DEF adds
  <2>1. QED
    BY <1>2, <1>5 DEF Run
<1>7. /\ \A a \in adds : /\ a.by = r
                         /\ \E c \in todo : /\ c.item = a.item /\ IsCart(c.item)
                                            /\ Result(c.item) = "ran"
      /\ \A c \in todo : IsCart(c.item) /\ Result(c.item) = "ran"
                            => \E a \in adds : a.by = r /\ a.item = c.item
  <2>1. ASSUME NEW c \in todo, IsCart(c.item), Result(c.item) = "ran"
        PROVE  \E a \in adds : a.by = r /\ a.item = c.item
    <3> DEFINE a == [item |-> c.item, by |-> r, turn |-> st.turn]
    <3>1. a \in adds /\ a.by = r /\ a.item = c.item
      BY <2>1
    <3>2. QED
      BY <3>1
  <2>2. QED
    BY <2>1
<1> HIDE DEF st, adds, done, x
<1>8. CopySound(st, Cards, asked) /\ run[r].decided \in Cards /\ YesOf(r) \in Cards
  BY CopiesSound DEF st
<1>9. CopySound(s, Cards, asked) /\ s.pause = {}
  <2>1. s.calls = (st.calls \ todo) \cup done /\ s.msg = st.msg /\ s.pause = st.pause
    BY <1>2 DEF State
  <2>2. s \in State
    BY <1>2, <1>4 DEF State
  <2> HIDE DEF s
  <2>3. s.pause = {}
    BY <1>1, <1>8, <2>1 DEF CopySound
  <2>4. \A c \in s.calls : c.status = "open" => c.msg # s.msg
    BY <1>4, <2>1 DEF Hanging, Open
  <2>5. \A c \in s.calls : c.item.msg <= asked
    BY <1>4, <1>8, <2>1 DEF CopySound
  <2>6. QED
    BY <2>2, <2>3, <2>4, <2>5, NothingDueSound
<1> HIDE DEF s
<1>10. /\ Copies' \subseteq Copies \cup {s}
       /\ Cards' \subseteq Cards \cup {s.pause, {}}
       /\ run'[r].pc = x.pc
       /\ \A q \in Requests \ {r} : run'[q] = run[q]
  BY <1>1, <1>6, <1>8, SavedCards
<1>11. /\ \A P \in Cards' : CardSound(P, asked')
       /\ \A P, Q \in Cards' : Apart(P, Q)
       /\ \A c \in Copies' : CopySound(c, Cards', asked')
  <2>1. Copies' \subseteq Copies \cup {s, NoThread} /\ Cards' \subseteq Cards \cup {{}}
    BY <1>9, <1>10
  <2>2. QED
    BY <1>1, <1>9, <2>1, NoNewCard
<1>12. \A q \in Requests : YesOf(q)' = YesOf(q)
  BY <1>1 DEF YesOf
<1>13. \A q \in Requests \ {r} : GotOf(q)' = GotOf(q)
  <2>1. ASSUME NEW q \in Requests \ {r}
        PROVE  {d \in added' : d.by = q} = {d \in added : d.by = q}
    BY <1>1, <1>7
  <2>2. QED
    BY <2>1 DEF GotOf
<1>14. \A i : i \in GotOf(r)' <=>
          \/ i \in GotOf(r)
          \/ \E c \in todo : c.item = i /\ IsCart(i) /\ Result(i) = "ran"
  <2>1. \A i : i \in GotOf(r) <=> \E a \in added : a.by = r /\ a.item = i
    BY DEF GotOf
  <2>2. \A i : i \in GotOf(r)' <=> \E a \in added' : a.by = r /\ a.item = i
    BY DEF GotOf
  <2>3. QED
    BY <1>1, <1>7, <2>1, <2>2
<1>15. \A i : (\E c \in todo : c.item = i) <=> i \in HangingItems(st)
  BY DEF HangingItems
<1>16. ASSUME NEW p \in Products
       PROVE  \/ \A i \in YesOf(r) : i.what = p => i \notin GotOf(r)'
              \/ \A i \in YesOf(r) : i.what = p => i \in GotOf(r)'
  <2>1. \/ \A i \in YesOf(r) : i.what = p => i \notin GotOf(r)
        \/ \A i \in YesOf(r) : i.what = p => i \in GotOf(r)
    BY DEF CardsInv, YesRunsWhole
  <2>2. \A i \in YesOf(r) : i.qty \in 1..LineCap
    BY <1>8 DEF CardsInv, CardSound
  <2>3. \A i \in YesOf(r) : i.what = p
            => IsCart(i) /\ (Result(i) = "ran" <=> p \in catalog)
    BY <2>2 DEF IsCart, Result
  <2>4. Whole(YesOf(r), HangingItems(st))
    BY <1>8 DEF CopySound
  <2>5. CASE YesOf(r) \subseteq HangingItems(st) /\ p \in catalog
    BY <1>14, <1>15, <2>3, <2>5
  <2>6. CASE YesOf(r) \cap HangingItems(st) = {} \/ p \notin catalog
    <3>1. \A i \in YesOf(r) : i.what = p => (i \in GotOf(r)' <=> i \in GotOf(r))
      BY <1>14, <1>15, <2>3, <2>6
    <3>2. QED
      BY <2>1, <3>1
  <2>7. QED
    BY <2>4, <2>5, <2>6 DEF Whole
<1>17. YesRunsWhole'
  <2>1. ASSUME NEW q \in Requests, NEW p \in Products
        PROVE  \/ \A i \in YesOf(q)' : i.what = p => i \notin GotOf(q)'
               \/ \A i \in YesOf(q)' : i.what = p => i \in GotOf(q)'
    <3>1. CASE q = r
      BY <1>12, <1>16, <3>1
    <3>2. CASE q # r
      BY <1>12, <1>13, <3>2 DEF CardsInv, YesRunsWhole
    <3>3. QED
      BY <3>1, <3>2
  <2>2. QED
    BY <2>1 DEF YesRunsWhole
<1>18. ASSUME NEW q \in Requests, run'[q].pc = "idle"
       PROVE  YesOf(q)' = {} /\ GotOf(q)' = {}
  <2>1. q # r
    BY <1>1, <1>6, <1>10, <1>18
  <2>2. QED
    BY <1>10, <1>12, <1>13, <1>18, <2>1 DEF CardsInv
<1>19. QED
  BY <1>11, <1>17, <1>18 DEF CardsInv

\* A step keeps what was asked together together: one step of the proof per
\* action that saves.
LEMMA CardsNext == TypeOK /\ HistoryInv /\ CardsInv /\ [Next]_vars => CardsInv'
<1> SUFFICES ASSUME TypeOK, HistoryInv, CardsInv, [Next]_vars PROVE CardsInv'
  OBVIOUS
<1>0. \A r \in Requests : run[r] \in Run /\ run[r].st \in State
  BY DEF TypeOK, Run
<1>1. CASE Unsaved
  BY <1>1, UnsavedCards
<1>2. ASSUME NEW r \in Requests, NEW t \in Tabs, SendChat(t, r) PROVE CardsInv'
  <2> DEFINE s == [ckpt EXCEPT !.next = "begin", !.turn = r, !.pause = {},
                               !.how = "none"]
             x == [NoRun EXCEPT !.pc = "running"]
  <2>1. /\ Save(r, x, s)
        /\ approved' = approved /\ added' = added /\ asked' = asked
    BY <1>2 DEF SendChat
  <2>2. x \in Run /\ x.pc # "idle" /\ x.decided = {}
    BY EmptyTypes DEF Run, NoRun
  <2>3. ckpt \in State
    BY DEF TypeOK
  <2>4. s \in State /\ s.calls = ckpt.calls /\ s.msg = ckpt.msg /\ s.pause = {}
    BY <2>3 DEF State
  <2> HIDE DEF s, x
  <2>5. CopySound(s, Cards, asked)
    BY <2>4, CopiesSound, SameCallsSound
  <2>6. QED
    BY <2>1, <2>2, <2>4, <2>5, SavedNothingNew
<1>3. ASSUME NEW r \in Requests, NEW x \in Run, NEW s, Save(r, x, s),
             CopySound(s, Cards, asked), s.pause = {}, run[r].pc = "running",
             x.pc = run[r].pc, x.decided = run[r].decided,
             approved' = approved, added' = added, asked' = asked
      PROVE  CardsInv'
  BY <1>3, CopiesSound, SavedNothingNew
<1>4. ASSUME NEW r \in Requests, NEW s \in State, s.calls = run[r].st.calls,
             s.msg = run[r].st.msg, s.pause = run[r].st.pause,
             run[r].st.next # "pause"
      PROVE  CopySound(s, Cards, asked) /\ s.pause = {}
  <2>1. CopySound(run[r].st, Cards, asked)
    BY CopiesSound
  <2>2. s.pause = {}
    BY <1>4, <2>1 DEF CopySound
  <2>3. QED
    BY <1>4, <2>1, <2>2, SameCallsSound
<1>5. ASSUME NEW r \in Requests, GuardrailReplies(r) PROVE CardsInv'
  <2> DEFINE s == [run[r].st EXCEPT !.next = "end", !.how = "guardrail"]
  <2>1. /\ Save(r, run[r], s) /\ run[r].pc = "running" /\ run[r].st.next = "begin"
        /\ approved' = approved /\ added' = added /\ asked' = asked
    BY <1>5 DEF GuardrailReplies, At
  <2>2. s \in State /\ s.calls = run[r].st.calls /\ s.msg = run[r].st.msg
        /\ s.pause = run[r].st.pause
    BY <1>0 DEF State
  <2> HIDE DEF s
  <2>3. CopySound(s, Cards, asked) /\ s.pause = {}
    BY <1>4, <2>1, <2>2
  <2>4. QED
    BY <1>0, <1>3, <2>1, <2>3
<1>6. ASSUME NEW r \in Requests, GuardrailPasses(r) PROVE CardsInv'
  <2> DEFINE d == Cleaned(run[r].st)
             s == [d EXCEPT !.next = "model"]
  <2>1. /\ Save(r, run[r], s) /\ run[r].pc = "running" /\ run[r].st.next = "begin"
        /\ approved' = approved /\ added' = added /\ asked' = asked
    BY <1>6 DEF GuardrailPasses, At
  <2>2. CopySound(run[r].st, Cards, asked)
    BY CopiesSound
  <2>3. d \in State /\ d.pause = run[r].st.pause
    BY <1>0, CleanedType DEF Cleaned, State
  <2>4. s \in State /\ s.calls = d.calls /\ s.pause = d.pause
    BY <2>3 DEF State
  <2> HIDE DEF s
  <2>5. s.pause = {}
    BY <2>1, <2>2, <2>3, <2>4 DEF CopySound
  <2>6. CopySound(s, Cards, asked)
    BY <2>2, <2>4, <2>5, CleanedSound DEF d
  <2>7. QED
    BY <1>0, <1>3, <2>1, <2>5, <2>6
<1>7. ASSUME NEW r \in Requests, ModelAnswers(r) PROVE CardsInv'
  <2> DEFINE s == [run[r].st EXCEPT !.next = "end", !.how = "answered",
                                    !.carry = 0]
             x == [run[r] EXCEPT !.calls = @ + 1]
  <2>1. /\ Save(r, x, s) /\ run[r].pc = "running" /\ run[r].st.next = "model"
        /\ approved' = approved /\ added' = added /\ asked' = asked
    BY <1>7 DEF ModelAnswers, CallModel, At
  <2>2. s \in State /\ s.calls = run[r].st.calls /\ s.msg = run[r].st.msg
        /\ s.pause = run[r].st.pause
    BY <1>0 DEF State
  <2>3. x \in Run /\ x.pc = run[r].pc /\ x.decided = run[r].decided
    BY <1>0 DEF Run
  <2> HIDE DEF s, x
  <2>4. CopySound(s, Cards, asked) /\ s.pause = {}
    BY <1>4, <2>1, <2>2
  <2>5. QED
    BY <1>3, <2>1, <2>3, <2>4
<1>8. ASSUME NEW r \in Requests, LoopCapReplies(r) PROVE CardsInv'
  <2> DEFINE s == [run[r].st EXCEPT !.next = "end", !.how = "capped",
                                    !.carry = 0]
  <2>1. /\ Save(r, run[r], s) /\ run[r].pc = "running" /\ run[r].st.next = "model"
        /\ approved' = approved /\ added' = added /\ asked' = asked
    BY <1>8 DEF LoopCapReplies, At
  <2>2. s \in State /\ s.calls = run[r].st.calls /\ s.msg = run[r].st.msg
        /\ s.pause = run[r].st.pause
    BY <1>0 DEF State
  <2> HIDE DEF s
  <2>3. CopySound(s, Cards, asked) /\ s.pause = {}
    BY <1>4, <2>1, <2>2
  <2>4. QED
    BY <1>0, <1>3, <2>1, <2>3
<1>9. ASSUME NEW r \in Requests, NEW s, CopySound(s, Cards, asked), s.pause = {},
             Save(r, [run[r] EXCEPT !.pc = "running"], s),
             approved' = approved, added' = added, asked' = asked
      PROVE  CardsInv'
  <2> DEFINE x == [run[r] EXCEPT !.pc = "running"]
  <2>1. x \in Run /\ x.pc # "idle" /\ x.decided = run[r].decided
    BY <1>0 DEF Run
  <2>2. Save(r, x, s)
    BY <1>9
  <2> HIDE DEF x
  <2>3. QED
    BY <1>9, <2>1, <2>2, CopiesSound, SavedNothingNew
<1>10. CopySound(ckpt, Cards, asked) /\ ckpt.pause \in Cards
       /\ (\A P, Q \in Cards : Apart(P, Q)) /\ (\A P \in Cards : CardSound(P, asked))
  BY CopiesSound DEF CardsInv
<1>11. ASSUME NEW r \in Requests, ResumeApproved(r) PROVE CardsInv'
  <2>1. PICK z \in Zips(ckpt.pause, run[r].decided) :
           Save(r, [run[r] EXCEPT !.pc = "running"], ApprovedState(ckpt, z))
    BY <1>11 DEF ResumeApproved
  <2>2. run[r].decided \in Cards
    BY CopiesSound
  <2>3. CopySound(ApprovedState(ckpt, z), Cards, asked)
    BY <1>10, <2>2, ApprovedSound
  <2>4. ApprovedState(ckpt, z).pause = {}
    BY DEF ApprovedState, TypeOK, State
  <2>5. approved' = approved /\ added' = added /\ asked' = asked
    BY <1>11 DEF ResumeApproved
  <2>6. QED
    BY <1>9, <2>1, <2>3, <2>4, <2>5
<1>12. ASSUME NEW r \in Requests, ResumeDeclined(r) PROVE CardsInv'
  <2>1. CopySound(DeclinedState(ckpt), Cards, asked)
    BY <1>10, DeclinedSound
  <2>2. DeclinedState(ckpt).pause = {}
    BY DEF DeclinedState, TypeOK, State
  <2>3. QED
    BY <1>9, <1>12, <2>1, <2>2 DEF ResumeDeclined
<1>13. ASSUME NEW r \in Requests, ResumeElsewhere(r) PROVE CardsInv'
  <2>1. ckpt.pause = {}
    BY <1>10, <1>13 DEF ResumeElsewhere, CopySound
  <2>2. QED
    BY <1>9, <1>10, <1>13, <2>1 DEF ResumeElsewhere
<1>14. QED
  BY <1>1, <1>2, <1>5, <1>6, <1>7, <1>8, <1>11, <1>12, <1>13, AskingKeepsCards,
     RunningKeepsCards
     DEF Next, ServerStep, ServerWorks, TabStep, RunFails, ResumeMismatch, Unsaved

\* A yes is never carried out by halves: whatever the tabs, failures, restarts and
\* the shop do, a request adds all the calls of a product it has a yes for or none.
THEOREM YesIsNeverHalved == Spec => []YesRunsWhole
<1>1. CardsInv => YesRunsWhole
  BY DEF CardsInv
<1>2. QED
  BY <1>1, InitType, NextType, HistoryInit, HistoryNext, CardsInit, CardsNext,
     PTL DEF Spec

\* The cart gets no less of a product than its row on the approved card showed, and
\* more only where the row was capped: with any batches, tabs, failures and catalog
\* events, for what was approved of a product is run whole.
THEOREM CardsKeepTheirPromise == Spec => []CartGetsTheCard
<1>1. CardsInv => CartGetsTheCard
  <2> SUFFICES ASSUME CardsInv, NEW r \in Requests, NEW p \in Products,
                      \E i \in Got(r) : i.what = p
               PROVE  \/ Qty(Got(r), p) = CardQty(YesOf(r), p)
                      \/ CardQty(YesOf(r), p) = LineCap /\ Qty(Got(r), p) > LineCap
    BY DEF CartGetsTheCard
  <2>1. \A i : i \in Got(r) <=> i \in YesOf(r) /\ i \in GotOf(r)
    BY DEF Got, GotOf
  <2>2. \/ \A i \in YesOf(r) : i.what = p => i \notin GotOf(r)
        \/ \A i \in YesOf(r) : i.what = p => i \in GotOf(r)
    BY DEF CardsInv, YesRunsWhole
  <2>3. \A i : i \in Got(r) /\ i.what = p <=> i \in YesOf(r) /\ i.what = p
    BY <2>1, <2>2
  <2>4. Qty(Got(r), p) = Qty(YesOf(r), p)
    BY <2>3, SameQty
  <2>5. QED
    BY <2>4 DEF CardQty
<1>2. QED
  BY <1>1, InitType, NextType, HistoryInit, HistoryNext, CardsInit, CardsNext,
     PTL DEF Spec
=============================================================================
