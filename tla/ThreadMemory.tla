---------------------------- MODULE ThreadMemory ----------------------------
(****************************************************************************)
(* How long the copilot remembers a conversation: turns save the thread as  *)
(* they run and note the activity when they end, a daily clean-up deletes   *)
(* the threads that were idle too long, and the shopper may reset one.      *)
(*                                                                          *)
(* A thread's checkpoint is the set of turns whose messages it holds.       *)
(****************************************************************************)
EXTENDS Naturals, FiniteSets

CONSTANTS
    Threads,
    Turns,     \* bound: turns of a behaviour
    TTL,       \* days a thread may be idle
    NoRow      \* the age of a thread without an activity row

ASSUME MemoryAssumption == Threads # {} /\ TTL \in Nat /\ NoRow \notin Nat

VARIABLES
    ckpt,      \* the saved conversation of each thread
    age,       \* the days since last_seen, counted up to TTL + 1
    turn,      \* the turns and what each has loaded
    cleaner,   \* the clean-up's transaction
    erasing,   \* threads whose reset has not deleted the activity row yet
    idle,      \* history: the days since a turn last noted its activity
    forgiven,  \* history: turns whose messages may be gone for a known reason
    untracked  \* history: threads whose last turn ended without noting it

memoryVars == <<ckpt, age, turn, cleaner, erasing, idle, forgiven, untracked>>

Ages == 0..TTL + 1

\* The clean-up's transaction: threads it has found, the one it is at, those whose
\* checkpoints and whose activity rows it deleted, not committed yet.
Awake == [pc |-> "deletes", left |-> {}, half |-> {}, doomed |-> {}, locked |-> {}]
Asleep == [Awake EXCEPT !.pc = "asleep"]

InitMemory ==
    /\ ckpt = [th \in Threads |-> {}]
    /\ age = [th \in Threads |-> NoRow]
    /\ turn = [r \in Turns |-> [pc |-> "new", thread |-> CHOOSE th \in Threads : TRUE,
                                mem |-> {}]]
    /\ cleaner = Asleep
    /\ erasing = {}
    /\ idle = [th \in Threads |-> 0]
    /\ forgiven = {}
    /\ untracked = {}

Running(th) == {r \in Turns : turn[r].pc \in {"runs", "ran"} /\ turn[r].thread = th}
TurnsOf(th) == {r \in Turns : turn[r].pc # "new" /\ turn[r].thread = th}

\* The threads the clean-up has found and not yet committed the deletion of.
Selected == cleaner.left \cup cleaner.half \cup cleaner.locked

-----------------------------------------------------------------------------
(* A turn.  The graph saves the thread after every step, always as a whole: *)
(* what it loaded and its own messages.                                      *)

\* The clean-up deletes the rows there were at its DELETE, not a later save.
Save(r, th, mem) ==
    /\ ckpt' = [ckpt EXCEPT ![th] = mem \cup {r}]
    /\ cleaner' = [cleaner EXCEPT !.doomed = @ \ {th}]

StartTurn(r, th) ==
    /\ turn[r].pc = "new"
    /\ turn' = [turn EXCEPT ![r] = [pc |-> "runs", thread |-> th, mem |-> ckpt[th]]]
    /\ Save(r, th, ckpt[th])
    /\ forgiven' = forgiven
          \cup (IF Running(th) # {} THEN TurnsOf(th) \cup {r} ELSE {})
          \cup (IF th \in Selected THEN {r} ELSE {})
    /\ UNCHANGED <<age, erasing, idle, untracked>>

\* get_checkpointer found no database: the turn runs and leaves no trace.
StartUnsaved(r, th) ==
    /\ turn[r].pc = "new"
    /\ turn' = [turn EXCEPT ![r] = [pc |-> "failed", thread |-> th, mem |-> {}]]
    /\ UNCHANGED <<ckpt, age, cleaner, erasing, idle, forgiven, untracked>>

\* The last step: the reply, or the card the turn waits with.
LastStep(r) ==
    LET th == turn[r].thread
    IN  /\ turn[r].pc = "runs"
        /\ turn' = [turn EXCEPT ![r].pc = "ran"]
        /\ Save(r, th, turn[r].mem)
        /\ UNCHANGED <<age, erasing, idle, forgiven, untracked>>

\* Mutant: INSERT ... ON CONFLICT DO NOTHING.
TouchOnce(th) ==
    /\ th \notin cleaner.locked
    /\ age' = [age EXCEPT ![th] = IF @ = NoRow THEN 0 ELSE @]
    /\ idle' = [idle EXCEPT ![th] = 0]

\* The upsert of last_seen waits for a row the clean-up has deleted and not
\* yet committed.
TouchThread(th) ==
    /\ th \notin cleaner.locked
    /\ age' = [age EXCEPT ![th] = 0]
    /\ idle' = [idle EXCEPT ![th] = 0]

\* Mutant: a turn that waits with a card does not touch the thread.
EndSilently(r) ==
    /\ turn[r].pc = "ran"
    /\ turn' = [turn EXCEPT ![r].pc = "done"]
    /\ untracked' = untracked \ {turn[r].thread}
    /\ UNCHANGED <<ckpt, age, cleaner, erasing, idle, forgiven>>

\* _finish_turn and _pause_turn.
EndTurn(r) ==
    LET th == turn[r].thread
    IN  /\ turn[r].pc = "ran"
        /\ turn' = [turn EXCEPT ![r].pc = "done"]
        /\ TouchThread(th)
        /\ untracked' = IF th \in erasing \cup Selected
                        THEN untracked \cup {th} ELSE untracked \ {th}
        /\ UNCHANGED <<ckpt, cleaner, erasing, forgiven>>

\* The run fails, the stream's client is gone, or touch_thread fails: an error
\* is answered or swallowed and no activity noted.
EndUntouched(r) ==
    /\ turn[r].pc \in {"runs", "ran"}
    /\ turn' = [turn EXCEPT ![r].pc = IF @ = "ran" THEN "done" ELSE "failed"]
    /\ untracked' = untracked \cup {turn[r].thread}
    /\ UNCHANGED <<ckpt, age, cleaner, erasing, idle, forgiven>>

-----------------------------------------------------------------------------
(* cleanup_expired_threads: one transaction.                                 *)

Expired == {th \in Threads : age[th] # NoRow /\ age[th] > TTL}

FindExpired ==
    /\ cleaner.pc = "asleep"
    /\ cleaner' = [Awake EXCEPT !.left = Expired]
    /\ forgiven' = forgiven \cup
          UNION {TurnsOf(th) : th \in {x \in Expired : idle[x] > TTL}}
    /\ UNCHANGED <<ckpt, age, turn, erasing, idle, untracked>>

DeleteCheckpoints(th) ==
    /\ cleaner.half = {}
    /\ th \in cleaner.left
    /\ cleaner' = [cleaner EXCEPT !.left = @ \ {th}, !.half = {th},
                                  !.doomed = @ \cup {th}]
    /\ UNCHANGED <<ckpt, age, turn, erasing, idle, forgiven, untracked>>

\* By thread_id alone: the row goes even if it was touched since.
DeleteActivity(th) ==
    /\ th \in cleaner.half
    /\ cleaner' = [cleaner EXCEPT !.half = {}, !.locked = @ \cup {th}]
    /\ UNCHANGED <<ckpt, age, turn, erasing, idle, forgiven, untracked>>

Commit ==
    /\ cleaner.pc = "deletes"
    /\ cleaner.left \cup cleaner.half = {}
    /\ cleaner' = Asleep
    /\ ckpt' = [th \in Threads |-> IF th \in cleaner.doomed THEN {} ELSE ckpt[th]]
    /\ age' = [th \in Threads |-> IF th \in cleaner.locked THEN NoRow ELSE age[th]]
    /\ UNCHANGED <<turn, erasing, idle, forgiven, untracked>>

\* Mutant: the failure ends the daily loop.
RollBackForGood ==
    /\ cleaner.pc = "deletes"
    /\ cleaner' = [Asleep EXCEPT !.pc = "stopped"]
    /\ UNCHANGED <<ckpt, age, turn, erasing, idle, forgiven, untracked>>

\* A statement fails: nothing of the clean-up happens, until the next day's.
RollBack ==
    /\ cleaner.pc = "deletes"
    /\ cleaner' = Asleep
    /\ UNCHANGED <<ckpt, age, turn, erasing, idle, forgiven, untracked>>

-----------------------------------------------------------------------------
(* delete_thread: the reset button.  Two steps of their own, and a failure   *)
(* of either is swallowed.                                                   *)

EraseSaved(th) ==
    /\ th \notin erasing
    /\ TurnsOf(th) # {}
    /\ th \notin cleaner.half \cup cleaner.locked
    /\ erasing' = erasing \cup {th}
    /\ forgiven' = forgiven \cup TurnsOf(th)
    /\ \/ ckpt' = [ckpt EXCEPT ![th] = {}] /\ untracked' = untracked
       \/ UNCHANGED ckpt /\ untracked' = untracked \cup {th}
    /\ UNCHANGED <<age, turn, cleaner, idle>>

EraseActivity(th) ==
    /\ th \in erasing
    /\ th \notin cleaner.locked
    /\ erasing' = erasing \ {th}
    /\ age' = [age EXCEPT ![th] = NoRow]
    /\ UNCHANGED <<ckpt, turn, cleaner, idle, forgiven, untracked>>

-----------------------------------------------------------------------------
\* The service restarts: running turns and the clean-up are gone.
Restart ==
    /\ turn' = [r \in Turns |-> IF turn[r].pc \in {"runs", "ran"}
                                THEN [turn[r] EXCEPT !.pc = "failed"] ELSE turn[r]]
    /\ untracked' = untracked \cup {th \in Threads : Running(th) # {}}
    /\ cleaner' = Asleep
    /\ UNCHANGED <<ckpt, age, erasing, idle, forgiven>>

NextDay ==
    /\ age' = [th \in Threads |-> IF age[th] \in 0..TTL THEN age[th] + 1 ELSE age[th]]
    /\ idle' = [th \in Threads |-> IF idle[th] <= TTL THEN idle[th] + 1 ELSE idle[th]]
    /\ UNCHANGED <<ckpt, turn, cleaner, erasing, forgiven, untracked>>

CleanUp == \/ FindExpired \/ Commit
           \/ \E th \in Threads : DeleteCheckpoints(th) \/ DeleteActivity(th)

Turn(r) == LastStep(r) \/ EndTurn(r) \/ EndUntouched(r)

NextMemory ==
    \/ \E r \in Turns :
          Turn(r) \/ \E th \in Threads : StartTurn(r, th) \/ StartUnsaved(r, th)
    \/ CleanUp
    \/ RollBack
    \/ \E th \in Threads : EraseSaved(th) \/ EraseActivity(th)
    \/ Restart
    \/ NextDay

SpecMemory == InitMemory /\ [][NextMemory]_memoryVars
-----------------------------------------------------------------------------
(* Properties.                                                               *)

\* Type invariant.
MemoryTypeOK ==
    /\ ckpt \in [Threads -> SUBSET Turns]
    /\ age \in [Threads -> Ages \cup {NoRow}]
    /\ turn \in [Turns -> [pc : {"new", "runs", "ran", "done", "failed"},
                           thread : Threads, mem : SUBSET Turns]]
    /\ cleaner \in [pc : {"asleep", "deletes"}, left : SUBSET Threads,
                     half : SUBSET Threads, doomed : SUBSET Threads,
                     locked : SUBSET Threads]
    /\ erasing \subseteq Threads /\ untracked \subseteq Threads
    /\ idle \in [Threads -> Ages]
    /\ forgiven \subseteq Turns

\* A conversation keeps every turn that was answered, until the shopper resets
\* it, it was idle longer than the limit when a clean-up began, or two turns
\* of it ran at the same time and the later save won.
AnsweredTurnsKept ==
    \A r \in Turns :
        turn[r].pc = "done" => r \in ckpt[turn[r].thread] \cup forgiven

\* A saved thread that no clean-up will ever find, for want of an activity row,
\* was left by a turn that failed or was cut off, by a reset that failed half
\* way, or by a turn that ended while its thread was being deleted.
LeakHasCause ==
    \A th \in Threads :
        ckpt[th] # {} /\ age[th] = NoRow /\ Running(th) = {}
            => th \in untracked

\* The clean-up does delete what was idle too long, failures and restarts in
\* between notwithstanding.
IdleThreadsGo ==
    \A th \in Threads :
        age[th] = TTL + 1
            ~> \/ ckpt[th] = {}
               \/ age[th] \in 0..TTL
               \/ th \in untracked
=============================================================================
