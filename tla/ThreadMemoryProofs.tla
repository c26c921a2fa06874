-------------------------- MODULE ThreadMemoryProofs --------------------------
(****************************************************************************)
(* What is proved of the copilot's memory, for any numbers of threads and   *)
(* turns and any time to live: no answered turn is lost, and no saved       *)
(* thread escapes the clean-up, without one of the known causes.            *)
(****************************************************************************)
EXTENDS ThreadMemory, TLAPS

Alive == {"runs", "ran", "done"}

\* What a turn saved is in the thread, or forgiven.
Kept ==
    \A r \in Turns : turn[r].pc \in Alive => r \in ckpt[turn[r].thread] \cup forgiven

\* And so it is in what a running turn of the thread will save it with.
Loaded ==
    \A q, r \in Turns :
        /\ turn[q].pc = "runs" /\ turn[r].pc \in Alive
        /\ q # r /\ turn[q].thread = turn[r].thread
        => r \in turn[q].mem \cup forgiven

\* A thread was idle when the clean-up found it: its turns are forgiven.
Foreseen ==
    \A r \in Turns :
        turn[r].pc \in Alive /\ turn[r].thread \in Selected => r \in forgiven

\* The activity row tells the truth.
RowsTell == \A th \in Threads : age[th] # NoRow => age[th] = idle[th]

\* The clean-up deletes one thread after the other.
DoomedHeld ==
    /\ cleaner.doomed \subseteq cleaner.half \cup cleaner.locked
    /\ \A a, b \in cleaner.half : a = b

\* Whose row is not there, or is about to go.
Rowless ==
    {th \in Threads : \/ age[th] = NoRow
                      \/ th \in erasing
                      \/ th \in (cleaner.half \cup cleaner.locked) \ cleaner.doomed}

Tracked ==
    \A th \in Threads :
        ckpt[th] # {} /\ Running(th) = {} /\ th \in Rowless => th \in untracked

\* The inductive invariant.
MemoryInv ==
    /\ MemoryTypeOK
    /\ Kept /\ Loaded /\ Foreseen /\ RowsTell /\ DoomedHeld /\ Tracked

-----------------------------------------------------------------------------
\* At the start nothing is remembered.
LEMMA InitMemoryInv == InitMemory => MemoryInv
<1> SUFFICES ASSUME InitMemory PROVE MemoryInv
    OBVIOUS
<1>1. Asleep = [pc |-> "asleep", left |-> {}, half |-> {}, doomed |-> {}, locked |-> {}]
      BY DEF Asleep, Awake
<1>2. (CHOOSE th \in Threads : TRUE) \in Threads
      BY MemoryAssumption
<1>3. MemoryTypeOK
      BY <1>1, <1>2, MemoryAssumption DEF InitMemory, MemoryTypeOK, Ages
<1>4. Kept /\ Loaded /\ Foreseen
      BY DEF InitMemory, Kept, Loaded, Foreseen, Alive
<1>5. RowsTell /\ DoomedHeld /\ Tracked
      BY <1>1 DEF InitMemory, RowsTell, DoomedHeld, Tracked
<1> QED  BY <1>3, <1>4, <1>5 DEF MemoryInv

\* A turn that starts: every turn beside it is forgiven, as is one that starts
\* in a thread the clean-up has found.
LEMMA StartKeepsInv ==
    ASSUME MemoryInv, NEW r \in Turns, NEW th \in Threads, StartTurn(r, th)
    PROVE  MemoryInv'
<1> USE DEF MemoryInv
<1>1. /\ turn[r].pc = "new"
      /\ turn'[r] = [pc |-> "runs", thread |-> th, mem |-> ckpt[th]]
      /\ \A q \in Turns \ {r} : turn'[q] = turn[q]
      /\ ckpt'[th] = ckpt[th] \cup {r}
      /\ \A x \in Threads \ {th} : ckpt'[x] = ckpt[x]
      /\ UNCHANGED <<age, erasing, idle, untracked>>
      BY DEF StartTurn, Save, MemoryTypeOK
<1>2. /\ cleaner'.left = cleaner.left /\ cleaner'.half = cleaner.half
      /\ cleaner'.locked = cleaner.locked
      /\ cleaner'.doomed = cleaner.doomed \ {th}
      BY DEF StartTurn, Save, MemoryTypeOK
<1>3. /\ forgiven \subseteq forgiven'
      /\ Running(th) # {} => TurnsOf(th) \cup {r} \subseteq forgiven'
      /\ th \in Selected => r \in forgiven'
      BY DEF StartTurn
<1>4. MemoryTypeOK'
  <2>1. TurnsOf(th) \subseteq Turns
        BY DEF TurnsOf
  <2> QED  BY <2>1 DEF StartTurn, Save, MemoryTypeOK
<1>5. Kept'
      BY <1>1, <1>3 DEF Kept, MemoryTypeOK, Alive
<1>6. Loaded'
  <2> SUFFICES ASSUME NEW q \in Turns, NEW p \in Turns,
                      turn'[q].pc = "runs", turn'[p].pc \in Alive,
                      q # p, turn'[q].thread = turn'[p].thread
               PROVE  p \in turn'[q].mem \cup forgiven'
      BY DEF Loaded
  <2>1. CASE p = r
    <3>1. q \in Running(th)
          BY <1>1, <2>1 DEF Running
    <3> QED  BY <1>3, <2>1, <3>1
  <2>2. CASE q = r
        BY <1>1, <1>3, <2>2 DEF Kept, MemoryTypeOK
  <2>3. CASE p # r /\ q # r
        BY <1>1, <1>3, <2>3 DEF Loaded
  <2> QED  BY <2>1, <2>2, <2>3
<1>7. Selected' = Selected
      BY <1>2 DEF Selected
<1>8. Foreseen'
      BY <1>1, <1>3, <1>7 DEF Foreseen, MemoryTypeOK
<1>9. RowsTell' /\ DoomedHeld'
      BY <1>1, <1>2 DEF RowsTell, DoomedHeld
<1>10. Tracked'
  <2>1. r \in Running(th)'
        BY <1>1 DEF Running
  <2>2. ASSUME NEW x \in Threads \ {th}
        PROVE  Running(x)' = Running(x) /\ (x \in Rowless' <=> x \in Rowless)
        BY <1>1, <1>2 DEF Running, Rowless
  <2> QED  BY <1>1, <2>1, <2>2 DEF Tracked
<1> QED  BY <1>4, <1>5, <1>6, <1>8, <1>9, <1>10

\* The last save brings back what the turn has loaded, which is what there was.
LEMMA LastStepKeepsInv ==
    ASSUME MemoryInv, NEW r \in Turns, LastStep(r)
    PROVE  MemoryInv'
<1> USE DEF MemoryInv
<1> DEFINE th == turn[r].thread
<1>0. th \in Threads
      BY DEF MemoryTypeOK
<1>1. /\ turn[r].pc = "runs"
      /\ turn'[r].pc = "ran" /\ turn'[r].thread = th /\ turn'[r].mem = turn[r].mem
      /\ \A q \in Turns \ {r} : turn'[q] = turn[q]
      /\ ckpt'[th] = turn[r].mem \cup {r}
      /\ \A x \in Threads \ {th} : ckpt'[x] = ckpt[x]
      /\ UNCHANGED <<age, erasing, idle, forgiven, untracked>>
      BY <1>0 DEF LastStep, Save, MemoryTypeOK
<1>2. /\ cleaner'.left = cleaner.left /\ cleaner'.half = cleaner.half
      /\ cleaner'.locked = cleaner.locked
      /\ cleaner'.doomed = cleaner.doomed \ {th}
      BY DEF LastStep, Save, MemoryTypeOK
<1>3. MemoryTypeOK'
  <2>1. ckpt' \in [Threads -> SUBSET Turns]
        BY <1>0 DEF LastStep, Save, MemoryTypeOK
  <2>2. turn' \in [Turns -> [pc : {"new", "runs", "ran", "done", "failed"},
                             thread : Threads, mem : SUBSET Turns]]
        BY DEF LastStep, MemoryTypeOK
  <2>3. cleaner' \in [pc : {"asleep", "deletes"}, left : SUBSET Threads,
                      half : SUBSET Threads, doomed : SUBSET Threads,
                      locked : SUBSET Threads]
        BY DEF LastStep, Save, MemoryTypeOK
  <2> QED  BY <1>1, <2>1, <2>2, <2>3 DEF MemoryTypeOK
<1>4. Kept'
      BY <1>0, <1>1 DEF Kept, Loaded, MemoryTypeOK, Alive
<1>5. Loaded'
      BY <1>1 DEF Loaded, Alive
<1>6. Selected' = Selected
      BY <1>2 DEF Selected
<1>7. Foreseen'
      BY <1>1, <1>6 DEF Foreseen, Alive
<1>8. RowsTell' /\ DoomedHeld'
      BY <1>1, <1>2 DEF RowsTell, DoomedHeld
<1>9. Tracked'
  <2>1. r \in Running(th)'
        BY <1>1 DEF Running
  <2>2. ASSUME NEW x \in Threads \ {th}
        PROVE  Running(x)' = Running(x) /\ (x \in Rowless' <=> x \in Rowless)
        BY <1>0, <1>1, <1>2 DEF Running, Rowless
  <2> QED  BY <1>0, <1>1, <2>1, <2>2 DEF Tracked
<1> QED  BY <1>3, <1>4, <1>5, <1>7, <1>8, <1>9

-----------------------------------------------------------------------------
\* A turn that ends, with or without noting it, leaves what is saved.
LEMMA EndKeepsTurns ==
    ASSUME MemoryInv, NEW r \in Turns, turn[r].pc \in {"runs", "ran"},
           turn' \in [Turns -> [pc : {"new", "runs", "ran", "done", "failed"},
                                thread : Threads, mem : SUBSET Turns]],
           turn'[r].thread = turn[r].thread,
           turn'[r].pc \in {"done", "failed"},
           \A q \in Turns \ {r} : turn'[q] = turn[q],
           UNCHANGED <<ckpt, cleaner, forgiven>>
    PROVE  Kept' /\ Loaded' /\ Foreseen' /\ DoomedHeld'
<1>1. Selected' = Selected
      BY DEF Selected
<1>2. Kept' /\ Loaded'
      BY DEF MemoryInv, Kept, Loaded, Alive
<1> QED  BY <1>1, <1>2 DEF MemoryInv, Foreseen, DoomedHeld, Alive

\* A turn that ends and notes its activity; in a thread about to lose its row
\* the end counts as not noted.
LEMMA EndTurnKeepsInv ==
    ASSUME MemoryInv, NEW r \in Turns, EndTurn(r)
    PROVE  MemoryInv'
<1> USE DEF MemoryInv
<1> DEFINE th == turn[r].thread
<1>0. th \in Threads
      BY DEF MemoryTypeOK
<1>1. /\ turn[r].pc = "ran" /\ turn'[r].pc = "done" /\ turn'[r].thread = th
      /\ \A q \in Turns \ {r} : turn'[q] = turn[q]
      /\ th \notin cleaner.locked
      /\ age'[th] = 0 /\ idle'[th] = 0
      /\ \A x \in Threads \ {th} : age'[x] = age[x] /\ idle'[x] = idle[x]
      /\ untracked' = IF th \in erasing \cup Selected
                      THEN untracked \cup {th} ELSE untracked \ {th}
      /\ UNCHANGED <<ckpt, cleaner, erasing, forgiven>>
      BY <1>0 DEF EndTurn, TouchThread, MemoryTypeOK
<1>2. MemoryTypeOK'
  <2>1. /\ age' \in [Threads -> Ages \cup {NoRow}]
        /\ idle' \in [Threads -> Ages]
        BY <1>0, MemoryAssumption DEF EndTurn, TouchThread, MemoryTypeOK, Ages
  <2>2. turn' \in [Turns -> [pc : {"new", "runs", "ran", "done", "failed"},
                             thread : Threads, mem : SUBSET Turns]]
        BY DEF EndTurn, MemoryTypeOK
  <2> QED  BY <1>0, <1>1, <2>1, <2>2 DEF MemoryTypeOK
<1>3. Kept' /\ Loaded' /\ Foreseen' /\ DoomedHeld'
      BY <1>1, <1>2, EndKeepsTurns DEF MemoryTypeOK
<1>4. RowsTell'
      BY <1>0, <1>1 DEF RowsTell
<1>5. Tracked'
  <2>1. ASSUME NEW x \in Threads \ {th}
        PROVE  Running(x)' = Running(x) /\ (x \in Rowless' <=> x \in Rowless)
        BY <1>0, <1>1 DEF Running, Rowless
  <2>2. th \in Rowless' => th \in untracked'
        BY <1>0, <1>1, MemoryAssumption DEF Rowless, Selected
  <2> QED  BY <1>0, <1>1, <2>1, <2>2 DEF Tracked
<1> QED  BY <1>2, <1>3, <1>4, <1>5

\* A turn that ends without noting it.
LEMMA EndUntouchedKeepsInv ==
    ASSUME MemoryInv, NEW r \in Turns, EndUntouched(r)
    PROVE  MemoryInv'
<1> USE DEF MemoryInv
<1>1. /\ turn[r].pc \in {"runs", "ran"} /\ turn'[r].pc \in {"done", "failed"}
      /\ turn'[r].thread = turn[r].thread
      /\ \A q \in Turns \ {r} : turn'[q] = turn[q]
      /\ untracked' = untracked \cup {turn[r].thread}
      /\ UNCHANGED <<ckpt, age, cleaner, erasing, idle, forgiven>>
      BY DEF EndUntouched, MemoryTypeOK
<1>2. MemoryTypeOK'
      BY <1>1 DEF EndUntouched, MemoryTypeOK
<1>3. Kept' /\ Loaded' /\ Foreseen' /\ DoomedHeld'
      BY <1>1, <1>2, EndKeepsTurns DEF MemoryTypeOK
<1>4. RowsTell'
      BY <1>1 DEF RowsTell
<1>5. Tracked'
  <2>1. Rowless' = Rowless
        BY <1>1 DEF Rowless
  <2>2. ASSUME NEW x \in Threads, x # turn[r].thread
        PROVE  Running(x)' = Running(x)
        BY <1>1, <2>2 DEF Running
  <2> QED  BY <1>1, <2>1, <2>2 DEF Tracked
<1> QED  BY <1>2, <1>3, <1>4, <1>5

\* A turn that could not be saved never was in the thread.
LEMMA UnsavedKeepsInv ==
    ASSUME MemoryInv, NEW r \in Turns, NEW th \in Threads, StartUnsaved(r, th)
    PROVE  MemoryInv'
<1> USE DEF MemoryInv
<1>1. /\ turn[r].pc = "new"
      /\ turn'[r].pc = "failed"
      /\ \A q \in Turns \ {r} : turn'[q] = turn[q]
      /\ UNCHANGED <<ckpt, age, cleaner, erasing, idle, forgiven, untracked>>
      BY DEF StartUnsaved, MemoryTypeOK
<1>2. MemoryTypeOK'
      BY <1>1 DEF StartUnsaved, MemoryTypeOK
<1>3. Kept' /\ Loaded'
      BY <1>1 DEF Kept, Loaded, Alive
<1>4. Selected' = Selected /\ Rowless' = Rowless
      BY <1>1 DEF Selected, Rowless
<1>5. Foreseen' /\ RowsTell' /\ DoomedHeld'
      BY <1>1, <1>4 DEF Foreseen, RowsTell, DoomedHeld, Alive
<1>6. \A x \in Threads : Running(x)' = Running(x)
      BY <1>1 DEF Running
<1>7. Tracked'
      BY <1>1, <1>4, <1>6 DEF Tracked
<1> QED  BY <1>2, <1>3, <1>5, <1>7

-----------------------------------------------------------------------------
\* The clean-up finds threads that were idle, for the rows tell the truth.
LEMMA FindKeepsInv ==
    ASSUME MemoryInv, FindExpired
    PROVE  MemoryInv'
<1> USE DEF MemoryInv
<1>1. /\ cleaner'.left = Expired /\ cleaner'.half = {}
      /\ cleaner'.doomed = {} /\ cleaner'.locked = {}
      /\ cleaner' \in [pc : {"asleep", "deletes"}, left : SUBSET Threads,
                        half : SUBSET Threads, doomed : SUBSET Threads,
                        locked : SUBSET Threads]
      BY DEF FindExpired, Awake, Expired
<1>2. /\ forgiven' = forgiven \cup
            UNION {TurnsOf(th) : th \in {x \in Expired : idle[x] > TTL}}
      /\ UNCHANGED <<ckpt, age, turn, erasing, idle, untracked>>
      BY DEF FindExpired
<1>3. \A th \in Threads : TurnsOf(th) \subseteq Turns
      BY DEF TurnsOf
<1>4. MemoryTypeOK'
  <2>1. Expired \subseteq Threads
        BY DEF Expired
  <2>2. forgiven' \subseteq Turns
        BY <1>2, <1>3, <2>1 DEF MemoryTypeOK
  <2> QED  BY <1>1, <1>2, <2>2 DEF MemoryTypeOK
<1>5. Kept' /\ Loaded'
      BY <1>2 DEF Kept, Loaded
<1>6. Foreseen'
  <2> SUFFICES ASSUME NEW r \in Turns, turn[r].pc \in Alive, turn[r].thread \in Expired
               PROVE  r \in forgiven'
      BY <1>1, <1>2 DEF Foreseen, Selected
  <2>1. idle[turn[r].thread] > TTL
        BY DEF Expired, RowsTell
  <2>2. r \in TurnsOf(turn[r].thread)
        BY DEF TurnsOf, Alive
  <2> QED  BY <1>2, <2>1, <2>2
<1>7. RowsTell' /\ DoomedHeld'
      BY <1>1, <1>2 DEF RowsTell, DoomedHeld
<1>8. Rowless' \subseteq Rowless
      BY <1>1, <1>2 DEF Rowless
<1>9. \A x \in Threads : Running(x)' = Running(x)
      BY <1>2 DEF Running
<1>10. Tracked'
      BY <1>2, <1>8, <1>9 DEF Tracked
<1> QED  BY <1>4, <1>5, <1>6, <1>7, <1>10

\* Its deletions, of a thread it has found.
LEMMA DeleteKeepsInv ==
    ASSUME MemoryInv, NEW th \in Threads, DeleteCheckpoints(th) \/ DeleteActivity(th)
    PROVE  MemoryInv'
<1> USE DEF MemoryInv
<1>1. UNCHANGED <<ckpt, age, turn, erasing, idle, forgiven, untracked>>
      BY DEF DeleteCheckpoints, DeleteActivity
<1>2. cleaner' \in [pc : {"asleep", "deletes"}, left : SUBSET Threads,
                    half : SUBSET Threads, doomed : SUBSET Threads,
                    locked : SUBSET Threads]
  <2>1. CASE DeleteCheckpoints(th)
        BY <2>1 DEF DeleteCheckpoints, MemoryTypeOK
  <2>2. CASE DeleteActivity(th)
        BY <2>2 DEF DeleteActivity, MemoryTypeOK
  <2> QED  BY <2>1, <2>2
<1>3. /\ Selected' \subseteq Selected
      /\ DoomedHeld'
      /\ Rowless' \subseteq Rowless
  <2>1. CASE DeleteCheckpoints(th)
    <3>1. /\ cleaner.half = {} /\ th \in cleaner.left
          /\ cleaner'.left = cleaner.left \ {th} /\ cleaner'.half = {th}
          /\ cleaner'.doomed = cleaner.doomed \cup {th}
          /\ cleaner'.locked = cleaner.locked
          BY <2>1 DEF DeleteCheckpoints, MemoryTypeOK
    <3> QED  BY <1>1, <3>1 DEF Selected, DoomedHeld, Rowless
  <2>2. CASE DeleteActivity(th)
    <3>1. /\ th \in cleaner.half
          /\ cleaner'.left = cleaner.left /\ cleaner'.half = {}
          /\ cleaner'.doomed = cleaner.doomed
          /\ cleaner'.locked = cleaner.locked \cup {th}
          BY <2>2 DEF DeleteActivity, MemoryTypeOK
    <3> QED  BY <1>1, <3>1 DEF Selected, DoomedHeld, Rowless
  <2> QED  BY <2>1, <2>2
<1>4. Kept' /\ Loaded' /\ RowsTell'
      BY <1>1 DEF Kept, Loaded, RowsTell
<1>5. Foreseen'
      BY <1>1, <1>3 DEF Foreseen
<1>6. \A x \in Threads : Running(x)' = Running(x)
      BY <1>1 DEF Running
<1>7. Tracked'
      BY <1>1, <1>3, <1>6 DEF Tracked
<1>8. MemoryTypeOK'
      BY <1>1, <1>2 DEF MemoryTypeOK
<1> QED  BY <1>3, <1>4, <1>5, <1>7, <1>8

\* What it commits to is of forgiven turns; a thread saved again meanwhile has
\* lost its row only.
LEMMA CommitKeepsInv ==
    ASSUME MemoryInv, Commit
    PROVE  MemoryInv'
<1> USE DEF MemoryInv
<1>1. /\ cleaner' = [pc |-> "asleep", left |-> {}, half |-> {}, doomed |-> {}, locked |-> {}]
      /\ cleaner.half = {}
      /\ \A th \in Threads :
            /\ ckpt'[th] = IF th \in cleaner.doomed THEN {} ELSE ckpt[th]
            /\ age'[th] = IF th \in cleaner.locked THEN NoRow ELSE age[th]
      /\ UNCHANGED <<turn, erasing, idle, forgiven, untracked>>
  <2>1. Asleep = [pc |-> "asleep", left |-> {}, half |-> {}, doomed |-> {}, locked |-> {}]
        BY DEF Asleep, Awake
  <2> QED  BY <2>1 DEF Commit, MemoryTypeOK
<1>2. MemoryTypeOK'
  <2>1. ckpt' \in [Threads -> SUBSET Turns] /\ age' \in [Threads -> Ages \cup {NoRow}]
        BY DEF Commit, MemoryTypeOK
  <2> QED  BY <1>1, <2>1 DEF MemoryTypeOK
<1>3. \A th \in cleaner.doomed : th \in Selected
      BY DEF DoomedHeld, Selected
<1>4. Kept'
      BY <1>1, <1>3 DEF Kept, Foreseen, MemoryTypeOK
<1>5. Loaded' /\ RowsTell'
      BY <1>1 DEF Loaded, RowsTell
<1>6. Foreseen' /\ DoomedHeld'
      BY <1>1 DEF Foreseen, DoomedHeld, Selected
<1>7. \A x \in Threads : Running(x)' = Running(x)
      BY <1>1 DEF Running
<1>8. \A x \in Rowless' : x \in Rowless \/ x \in cleaner.doomed
      BY <1>1 DEF Rowless
<1>9. Tracked'
  <2>1. Rowless' \subseteq Threads
        BY DEF Rowless
  <2> QED  BY <1>1, <1>7, <1>8, <2>1 DEF Tracked
<1> QED  BY <1>2, <1>4, <1>5, <1>6, <1>9

\* A clean-up that is rolled back, or dies with the process.
LEMMA AsleepKeepsInv ==
    ASSUME MemoryInv, cleaner' = Asleep, MemoryTypeOK',
           UNCHANGED <<ckpt, age, erasing, idle, forgiven>>,
           \A r \in Turns : \/ turn'[r] = turn[r]
                            \/ turn'[r].pc = "failed" /\ turn[r].thread \in untracked',
           untracked \subseteq untracked'
    PROVE  MemoryInv'
<1> USE DEF MemoryInv
<1>1. cleaner' = [pc |-> "asleep", left |-> {}, half |-> {}, doomed |-> {}, locked |-> {}]
      BY DEF Asleep, Awake
<1>2. Kept' /\ Loaded'
      BY DEF Kept, Loaded, Alive
<1>3. Foreseen' /\ RowsTell' /\ DoomedHeld'
      BY <1>1 DEF Foreseen, RowsTell, DoomedHeld, Selected
<1>4. Tracked'
  <2>1. Rowless' \subseteq Rowless
        BY <1>1 DEF Rowless
  <2>2. ASSUME NEW x \in Threads, Running(x)' = {}, x \notin untracked'
        PROVE  Running(x) = {}
        BY <2>2 DEF Running
  <2> QED  BY <2>1, <2>2 DEF Tracked
<1> QED  BY <1>2, <1>3, <1>4

-----------------------------------------------------------------------------
\* The reset button: its first step forgives what it deletes, or leaves the
\* thread untracked if it fails.
LEMMA EraseSavedKeepsInv ==
    ASSUME MemoryInv, NEW th \in Threads, EraseSaved(th)
    PROVE  MemoryInv'
<1> USE DEF MemoryInv
<1>1. /\ erasing' = erasing \cup {th}
      /\ forgiven' = forgiven \cup TurnsOf(th)
      /\ \A x \in Threads \ {th} : ckpt'[x] = ckpt[x]
      /\ ckpt'[th] = {} \/ (ckpt'[th] = ckpt[th] /\ th \in untracked')
      /\ untracked \subseteq untracked'
      /\ UNCHANGED <<age, turn, cleaner, idle>>
      BY DEF EraseSaved, MemoryTypeOK
<1>2. MemoryTypeOK'
  <2>1. TurnsOf(th) \subseteq Turns
        BY DEF TurnsOf
  <2> QED  BY <2>1 DEF EraseSaved, MemoryTypeOK
<1>3. Kept'
  <2> SUFFICES ASSUME NEW r \in Turns, turn[r].pc \in Alive
               PROVE  r \in ckpt'[turn[r].thread] \cup forgiven'
      BY <1>1 DEF Kept
  <2>1. CASE turn[r].thread = th
        BY <1>1, <2>1 DEF TurnsOf, Alive
  <2>2. CASE turn[r].thread # th
        BY <1>1, <2>2 DEF Kept, MemoryTypeOK
  <2> QED  BY <2>1, <2>2
<1>4. Selected' = Selected
      BY <1>1 DEF Selected
<1>5. Loaded' /\ Foreseen' /\ RowsTell' /\ DoomedHeld'
      BY <1>1, <1>4 DEF Loaded, Foreseen, RowsTell, DoomedHeld
<1>6. Tracked'
  <2>1. ASSUME NEW x \in Threads \ {th}
        PROVE  Running(x)' = Running(x) /\ (x \in Rowless' <=> x \in Rowless)
        BY <1>1 DEF Running, Rowless
  <2> QED  BY <1>1, <2>1 DEF Tracked
<1> QED  BY <1>2, <1>3, <1>5, <1>6

\* Its second step deletes a row that was about to go.
LEMMA EraseActivityKeepsInv ==
    ASSUME MemoryInv, NEW th \in Threads, EraseActivity(th)
    PROVE  MemoryInv'
<1> USE DEF MemoryInv
<1>1. /\ th \in erasing /\ erasing' = erasing \ {th}
      /\ age'[th] = NoRow
      /\ \A x \in Threads \ {th} : age'[x] = age[x]
      /\ UNCHANGED <<ckpt, turn, cleaner, idle, forgiven, untracked>>
      BY DEF EraseActivity, MemoryTypeOK
<1>2. MemoryTypeOK'
      BY <1>1 DEF EraseActivity, MemoryTypeOK
<1>3. Selected' = Selected
      BY <1>1 DEF Selected
<1>4. Kept' /\ Loaded' /\ Foreseen' /\ RowsTell' /\ DoomedHeld'
      BY <1>1, <1>3 DEF Kept, Loaded, Foreseen, RowsTell, DoomedHeld
<1>5. /\ Rowless' \subseteq Rowless
      /\ \A x \in Threads : Running(x)' = Running(x)
      BY <1>1 DEF Rowless, Running
<1>6. Tracked'
      BY <1>1, <1>5 DEF Tracked
<1> QED  BY <1>2, <1>4, <1>6

\* The row and what is known of the thread's activity grow old together.
LEMMA NextDayKeepsInv ==
    ASSUME MemoryInv, NextDay
    PROVE  MemoryInv'
<1> USE DEF MemoryInv
<1>1. /\ \A th \in Threads :
            /\ age'[th] = IF age[th] \in 0..TTL THEN age[th] + 1 ELSE age[th]
            /\ idle'[th] = IF idle[th] <= TTL THEN idle[th] + 1 ELSE idle[th]
      /\ UNCHANGED <<ckpt, turn, cleaner, erasing, forgiven, untracked>>
      BY DEF NextDay
<1>2. \A th \in Threads : age[th] \in Ages \cup {NoRow} /\ idle[th] \in Ages
      BY DEF MemoryTypeOK
<1>3. \A th \in Threads : /\ age'[th] \in Ages \cup {NoRow} /\ idle'[th] \in Ages
                          /\ age'[th] = NoRow <=> age[th] = NoRow
      BY <1>1, <1>2, MemoryAssumption DEF Ages
<1>4. MemoryTypeOK'
      BY <1>1, <1>3 DEF NextDay, MemoryTypeOK
<1>5. RowsTell'
      BY <1>1, <1>2, <1>3, MemoryAssumption DEF RowsTell, Ages
<1>6. /\ Selected' = Selected /\ Rowless' = Rowless
      /\ \A x \in Threads : Running(x)' = Running(x)
      BY <1>1, <1>3 DEF Selected, Rowless, Running
<1>7. Kept' /\ Loaded' /\ Foreseen' /\ DoomedHeld' /\ Tracked'
      BY <1>1, <1>6 DEF Kept, Loaded, Foreseen, DoomedHeld, Tracked
<1> QED  BY <1>4, <1>5, <1>7

-----------------------------------------------------------------------------
\* Every step keeps the invariant.
LEMMA NextMemoryInv == MemoryInv /\ [NextMemory]_memoryVars => MemoryInv'
<1> SUFFICES ASSUME MemoryInv, [NextMemory]_memoryVars
             PROVE  MemoryInv'
    OBVIOUS
<1>1. ASSUME NEW r \in Turns,
             \/ Turn(r)
             \/ \E th \in Threads : StartTurn(r, th) \/ StartUnsaved(r, th)
      PROVE  MemoryInv'
      BY <1>1, StartKeepsInv, UnsavedKeepsInv, LastStepKeepsInv, EndTurnKeepsInv,
         EndUntouchedKeepsInv DEF Turn
<1>2. CASE CleanUp
      BY <1>2, FindKeepsInv, DeleteKeepsInv, CommitKeepsInv DEF CleanUp
<1>3. CASE RollBack
  <2>1. MemoryTypeOK'
        BY <1>3 DEF RollBack, Asleep, Awake, MemoryInv, MemoryTypeOK
  <2> QED  BY <1>3, <2>1, AsleepKeepsInv DEF RollBack
<1>4. ASSUME NEW th \in Threads, EraseSaved(th) \/ EraseActivity(th)
      PROVE  MemoryInv'
      BY <1>4, EraseSavedKeepsInv, EraseActivityKeepsInv
<1>5. CASE Restart
  <2>1. MemoryTypeOK
        BY DEF MemoryInv
  <2>2. \A r \in Turns :
           turn'[r] = IF turn[r].pc \in {"runs", "ran"}
                      THEN [turn[r] EXCEPT !.pc = "failed"] ELSE turn[r]
        BY <1>5 DEF Restart
  <2>3. \A r \in Turns : \/ turn'[r] = turn[r]
                         \/ turn'[r].pc = "failed" /\ turn[r].thread \in untracked'
    <3> SUFFICES ASSUME NEW r \in Turns, turn[r].pc \in {"runs", "ran"}
                 PROVE  turn'[r].pc = "failed" /\ turn[r].thread \in untracked'
        BY <2>2
    <3>1. r \in Running(turn[r].thread) /\ turn[r].thread \in Threads
          BY <2>1 DEF Running, MemoryTypeOK
    <3> QED  BY <1>5, <2>1, <2>2, <3>1 DEF Restart, MemoryTypeOK
  <2>4. MemoryTypeOK'
        BY <1>5, <2>1, <2>2 DEF Restart, Asleep, Awake, MemoryTypeOK
  <2> QED  BY <1>5, <2>3, <2>4, AsleepKeepsInv DEF Restart
<1>6. CASE NextDay
      BY <1>6, NextDayKeepsInv
<1>7. CASE UNCHANGED memoryVars
      BY <1>7 DEF memoryVars, MemoryInv, MemoryTypeOK, Kept, Loaded, Foreseen, RowsTell,
                  DoomedHeld, Tracked, Selected, Rowless, Running
<1> QED
    BY <1>1, <1>2, <1>3, <1>4, <1>5, <1>6, <1>7 DEF NextMemory

\* Every behaviour keeps the invariant.
LEMMA MemoryAlwaysHolds == SpecMemory => []MemoryInv
  BY InitMemoryInv, NextMemoryInv, PTL DEF SpecMemory

\* Whatever turns, clean-ups, resets, failures and restarts run at the same time,
\* an answered turn stays in its thread unless it is forgiven.
THEOREM AnswersAreRemembered == SpecMemory => []AnsweredTurnsKept
<1>1. MemoryInv => AnsweredTurnsKept
      BY DEF MemoryInv, Kept, AnsweredTurnsKept, Alive
<1> QED  BY <1>1, MemoryAlwaysHolds, PTL

\* And a saved thread without an activity row is one whose last turn or reset
\* did not end as it should.
THEOREM LeaksAreExplained == SpecMemory => []LeakHasCause
<1>1. MemoryInv => LeakHasCause
      BY DEF MemoryInv, Tracked, Rowless, LeakHasCause
<1> QED  BY <1>1, MemoryAlwaysHolds, PTL
=============================================================================
