------------------------ MODULE SkillExecution_proofs ------------------------
(***************************************************************************)
(* The executor's safety properties hold for any number of threads and     *)
(* sessions and any limit on retries.                                      *)
(*                                                                         *)
(* NotStuckRunning and OneSuccess are inductive as they stand.  The other  *)
(* two speak of calls one after the other and rest on Solo: what machine   *)
(* and position say of one another as long as nothing was disturbed.       *)
(***************************************************************************)
EXTENDS SkillExecution, TLAPS

(* Positions a call reaches only with the machine it set to RUNNING.       *)
Driving == {"prepare", "invoke", "give_up", "record", "complete"}

(* A call without a session writes no file. *)
DefaultIdle == stored[Default] = "idle"

Solo ==
    ~disturbed =>
        /\ \A t, u \in Threads : call[t] # Idle /\ call[u] # Idle => t = u
        /\ \A t \in Threads :
             /\ call[t].pc \in Driving => machine = "running"
             /\ call[t].pc = "handle" => machine # "paused"

IInv ==
    /\ TypeOK
    /\ NotStuckRunning
    /\ OneSuccess
    /\ DefaultIdle
    /\ Solo
    /\ PausedIsResumable
    /\ CompletedMeansSuccess

---------------------------------------------------------------------------
(* The table of transitions, read once. *)
LEMMA Table ==
    ASSUME machine \in SessionState
    PROVE  /\ CanTransition("running") <=> machine \in {"idle", "paused", "failed"}
           /\ CanTransition("paused") <=> machine = "running"
           /\ CanTransition("completed") <=> machine = "running"
           /\ CanTransition("failed") <=> machine = "running"
           /\ CanTransition("archived") <=> machine # "archived"
BY DEF CanTransition, VALID_TRANSITIONS, SessionState

(* A call in progress is not Idle, and has the fields of one. *)
LEMMA BusyCall ==
    ASSUME TypeOK, NEW t \in Threads, call[t].pc \in PC
    PROVE  call[t] \in Busy /\ call[t] # Idle
BY DEF TypeOK, Busy, Idle, PC

LEMMA IdleCall ==
    /\ Idle.pc = "idle"
    /\ \A b \in Busy : b # Idle /\ b.pc \in PC
BY DEF Idle, Busy, PC

(* A call changes its position and the error it knows. *)
LEMMA MovedCall ==
    ASSUME NEW b \in Busy, NEW pc \in PC, NEW c \in Category \cup {"none"},
           NEW a \in 0 .. MaxRetries
    PROVE  /\ [b EXCEPT !.pc = pc] \in Busy
           /\ [b EXCEPT !.pc = pc, !.error = c] \in Busy
           /\ [b EXCEPT !.pc = pc, !.attempt = a, !.error = c] \in Busy
           /\ [b EXCEPT !.attempt = a] \in Busy
BY DEF Busy

LEMMA Classified ==
    \A e \in ErrorTypes : classify_error(e) \in Category
BY DEF ErrorTypes, classify_error, Category

---------------------------------------------------------------------------
(* A step of the call t alone: where it goes, and that every other call   *)
(* stays where it is.                                                      *)
LEMMA GoneTo ==
    ASSUME TypeOK, NEW t \in Threads, NEW b \in Busy \cup {Idle},
           call' = [call EXCEPT ![t] = b]
    PROVE  /\ call' \in [Threads -> Busy \cup {Idle}]
           /\ call'[t] = b
           /\ \A u \in Threads \ {t} : call'[u] = call[u]
BY DEF TypeOK

LEMMA GotoStep ==
    ASSUME TypeOK, NEW t \in Threads, call[t].pc \in PC, NEW pc \in PC, Goto(t, pc)
    PROVE  /\ call' \in [Threads -> Busy \cup {Idle}]
           /\ call'[t] \in Busy
           /\ call'[t].pc = pc
           /\ call'[t].session = call[t].session
           /\ \A u \in Threads \ {t} : call'[u] = call[u]
<1>1. call[t] \in Busy
  BY BusyCall
<1>2. call' = [call EXCEPT ![t] = [call[t] EXCEPT !.pc = pc]]
  BY DEF Goto
<1>3. [call[t] EXCEPT !.pc = pc] \in Busy
  BY <1>1 DEF Busy
<1>4. [call[t] EXCEPT !.pc = pc].pc = pc /\ [call[t] EXCEPT !.pc = pc].session = call[t].session
  BY <1>1 DEF Busy
<1> QED
  BY <1>2, <1>3, <1>4, GoneTo

LEMMA RaiseStep ==
    ASSUME TypeOK, NEW t \in Threads, call[t].pc \in PC, Raise(t)
    PROVE  /\ call' \in [Threads -> Busy \cup {Idle}]
           /\ call'[t] \in Busy
           /\ call'[t].pc = "handle"
           /\ \A u \in Threads \ {t} : call'[u] = call[u]
<1>1. call[t] \in Busy
  BY BusyCall
<1> DEFINE b == [call[t] EXCEPT !.pc = "handle", !.error = "none"]
<1>2. call' = [call EXCEPT ![t] = b]
  BY <1>1 DEF Raise, TypeOK
<1>3. b \in Busy /\ b.pc = "handle"
  BY <1>1 DEF Busy, PC
<1> QED
  BY <1>2, <1>3, GoneTo

LEMMA ReturnStep ==
    ASSUME TypeOK, NEW t \in Threads, Return(t)
    PROVE  /\ call' \in [Threads -> Busy \cup {Idle}]
           /\ call'[t] = Idle
           /\ \A u \in Threads \ {t} : call'[u] = call[u]
BY GoneTo DEF Return

LEMMA EnterStep ==
    ASSUME TypeOK, NEW t \in Threads, NEW s \in Sessions, NEW k \in {"execute", "resume"},
           NEW pc \in PC, ExecutionAssumption, Enter(t, k, s, pc)
    PROVE  /\ call[t] = Idle
           /\ call' \in [Threads -> Busy \cup {Idle}]
           /\ call'[t] \in Busy
           /\ call'[t].pc = pc
           /\ \A u \in Threads \ {t} : call'[u] = call[u]
           /\ ~disturbed' => ~disturbed /\ \A u \in Threads : call[u] = Idle
<1> DEFINE b == [pc |-> pc, kind |-> k, session |-> s, attempt |-> 0, error |-> "none"]
<1>1. call' = [call EXCEPT ![t] = b]
  BY DEF Enter
<1>2. b \in Busy /\ b.pc = pc
  BY DEF Busy, ExecutionAssumption
<1> QED
  BY <1>1, <1>2, GoneTo DEF Enter, Disturb

LEMMA PersistStep ==
    ASSUME TypeOK, NEW s \in Sessions, NEW to \in SessionState, Persist(s, to)
    PROVE  /\ stored' \in [Sessions -> SessionState]
           /\ \A r \in Sessions : r # s \/ r = Default => stored'[r] = stored[r]
           /\ stored'[s] \in {stored[s], to}
BY DEF TypeOK, Persist

---------------------------------------------------------------------------
(* One lemma for each action: it preserves the invariant. *)

LEMMA InitIInv ==
    ASSUME ExecutionAssumption, Init
    PROVE  IInv
<1>1. \A t \in Threads : call[t] = Idle /\ call[t].pc = "idle"
  BY DEF Init, Idle
<1>2. TypeOK
  BY DEF Init, TypeOK, SessionState
<1> QED
  BY <1>1, <1>2 DEF Init, IInv, ExecutionAssumption, NotStuckRunning, OneSuccess, DefaultIdle,
     Solo, PausedIsResumable, CompletedMeansSuccess, Driving

LEMMA ExecuteCallStep ==
    ASSUME ExecutionAssumption, IInv, NEW t \in Threads, NEW s \in Sessions, ExecuteCall(t, s)
    PROVE  IInv'
<1> USE DEF IInv
<1>0. /\ machine \in SessionState /\ "prepare" \in PC /\ "handle" \in PC
      /\ UNCHANGED <<contexts, stored, wins, succeeded>>
  BY DEF TypeOK, PC, ExecuteCall, Enter
<1>1. CASE Transition("running") /\ Enter(t, "execute", s, "prepare")
  <2>1. /\ machine' = "running" /\ machine \in {"idle", "paused", "failed"}
    BY <1>0, <1>1, Table DEF Transition
  <2>2. /\ call' \in [Threads -> Busy \cup {Idle}]
        /\ call'[t].pc = "prepare" /\ call[t] = Idle
        /\ \A u \in Threads \ {t} : call'[u] = call[u]
        /\ ~disturbed' => ~disturbed /\ \A u \in Threads : call[u] = Idle
    BY <1>0, <1>1, EnterStep
  <2>3. TypeOK'
    BY <1>0, <1>1, <2>1, <2>2 DEF TypeOK, SessionState, Enter, Disturb
  <2>4. NotStuckRunning'
    BY <2>2 DEF NotStuckRunning, PC
  <2>5. OneSuccess' /\ DefaultIdle'
    BY <1>0, <2>1 DEF OneSuccess, DefaultIdle, TypeOK
  <2>6. Solo'
    BY <2>1, <2>2, IdleCall DEF Solo, Driving
  <2>7. PausedIsResumable'
    BY <2>1 DEF PausedIsResumable
  <2>8. CompletedMeansSuccess'
    BY <1>0, <2>2, IdleCall DEF CompletedMeansSuccess
  <2> QED
    BY <2>3, <2>4, <2>5, <2>6, <2>7, <2>8
<1>2. CASE Refused("running") /\ Enter(t, "execute", s, "handle")
  <2>1. machine' = machine /\ machine # "paused"
    BY <1>0, <1>2, Table DEF Refused
  <2>2. /\ call' \in [Threads -> Busy \cup {Idle}]
        /\ call'[t].pc = "handle" /\ call[t] = Idle
        /\ \A u \in Threads \ {t} : call'[u] = call[u]
        /\ ~disturbed' => ~disturbed /\ \A u \in Threads : call[u] = Idle
    BY <1>0, <1>2, EnterStep
  <2>3. TypeOK'
    BY <1>0, <1>2, <2>1, <2>2 DEF TypeOK, Enter, Disturb
  <2>4. NotStuckRunning'
    BY <2>1, <2>2 DEF NotStuckRunning, PC
  <2>5. OneSuccess' /\ DefaultIdle'
    BY <1>0, <2>1 DEF OneSuccess, DefaultIdle
  <2>6. Solo'
    BY <2>1, <2>2, IdleCall DEF Solo, Driving
  <2>7. PausedIsResumable'
    BY <2>1 DEF PausedIsResumable
  <2>8. CompletedMeansSuccess'
    BY <1>0, <2>2, IdleCall DEF CompletedMeansSuccess
  <2> QED
    BY <2>3, <2>4, <2>5, <2>6, <2>7, <2>8
<1> QED
  BY <1>1, <1>2 DEF ExecuteCall

LEMMA ResumeCallStep ==
    ASSUME ExecutionAssumption, IInv, NEW t \in Threads, NEW s \in Sessions, ResumeCall(t, s)
    PROVE  IInv'
<1> USE DEF IInv
<1>0. /\ machine \in SessionState /\ "invoke" \in PC /\ "handle" \in PC
      /\ UNCHANGED <<contexts, stored, wins, succeeded>>
  BY DEF TypeOK, PC, ResumeCall, Enter
<1>1. PICK pc \in {"invoke", "handle"} :
        /\ Enter(t, "resume", s, pc)
        /\ IF pc = "invoke" THEN Transition("running") ELSE Refused("running")
  BY DEF ResumeCall
<1>2. /\ machine' \in SessionState
      /\ pc = "invoke" => machine' = "running" /\ machine \in {"idle", "paused", "failed"}
      /\ pc = "handle" => machine' = machine /\ machine # "paused"
  BY <1>0, <1>1, Table DEF Transition, Refused, SessionState
<1>3. /\ call' \in [Threads -> Busy \cup {Idle}]
      /\ call'[t].pc = pc /\ call[t] = Idle
      /\ \A u \in Threads \ {t} : call'[u] = call[u]
      /\ ~disturbed' => ~disturbed /\ \A u \in Threads : call[u] = Idle
  BY <1>0, <1>1, EnterStep
<1>4. TypeOK'
  BY <1>0, <1>1, <1>2, <1>3 DEF TypeOK, Enter, Disturb
<1>5. NotStuckRunning'
  BY <1>2, <1>3 DEF NotStuckRunning, PC
<1>6. OneSuccess' /\ DefaultIdle'
  BY <1>0, <1>2 DEF OneSuccess, DefaultIdle, TypeOK
<1>7. Solo'
  BY <1>2, <1>3, IdleCall DEF Solo, Driving
<1>8. PausedIsResumable'
  BY <1>2 DEF PausedIsResumable
<1>9. CompletedMeansSuccess'
  BY <1>0, <1>3, IdleCall DEF CompletedMeansSuccess
<1> QED
  BY <1>4, <1>5, <1>6, <1>7, <1>8, <1>9

LEMMA PrepareStep ==
    ASSUME ExecutionAssumption, IInv, NEW t \in Threads, Prepare(t)
    PROVE  IInv'
<1> USE DEF IInv
<1>0. /\ call[t].pc = "prepare" /\ call[t] \in Busy /\ call[t] # Idle
      /\ UNCHANGED <<machine, contexts, wins, succeeded, disturbed>>
  BY BusyCall DEF Prepare, history, PC
<1>1. call[t].session \in Sessions /\ {"prepare", "invoke", "handle"} \subseteq PC
      /\ "running" \in SessionState
  BY <1>0 DEF Busy, PC, SessionState
<1>2. PICK pc \in {"invoke", "handle"} :
        /\ call' \in [Threads -> Busy \cup {Idle}]
        /\ call'[t] \in Busy /\ call'[t].pc = pc
        /\ \A u \in Threads \ {t} : call'[u] = call[u]
  BY <1>0, <1>1, GotoStep, RaiseStep DEF Prepare
<1>3. /\ stored' \in [Sessions -> SessionState]
      /\ \A s \in Sessions : stored'[s] \in {stored[s], "running"}
      /\ stored'[Default] = stored[Default]
  <2>1. CASE UNCHANGED stored
    BY <2>1 DEF TypeOK
  <2>2. CASE Persist(call[t].session, "running")
    BY <2>2, <1>1, PersistStep DEF ExecutionAssumption
  <2> QED
    BY <2>1, <2>2 DEF Prepare
<1>4. TypeOK'
  BY <1>0, <1>2, <1>3 DEF TypeOK
<1>5. NotStuckRunning'
  BY <1>0, <1>2 DEF NotStuckRunning, PC
<1>6. OneSuccess' /\ DefaultIdle'
  BY <1>0, <1>3 DEF OneSuccess, DefaultIdle
<1>7. Solo'
  BY <1>0, <1>2, IdleCall DEF Solo, Driving
<1>8. PausedIsResumable'
  BY <1>0, <1>2 DEF PausedIsResumable
<1>9. CompletedMeansSuccess'
  BY <1>0, <1>2, <1>3 DEF CompletedMeansSuccess
<1> QED
  BY <1>4, <1>5, <1>6, <1>7, <1>8, <1>9

LEMMA InvokeMoves ==
    ASSUME ExecutionAssumption, TypeOK, NEW t \in Threads, Invoke(t)
    PROVE  \E b \in Busy :
              /\ call' = [call EXCEPT ![t] = b]
              /\ b.pc \in {"invoke", "record", "complete", "give_up"}
<1>1. call[t] \in Busy /\ call[t].pc = "invoke"
  BY BusyCall DEF Invoke, PC
<1>2. ASSUME NEW pc \in PC, NEW c \in Category \cup {"none"}
      PROVE  Leave(t, pc, c) \in Busy /\ Leave(t, pc, c).pc = pc
  <2> DEFINE b == call[t]
  <2>1. b \in Busy /\ 0 \in 0 .. MaxRetries
    BY <1>1 DEF ExecutionAssumption
  <2>2. Leave(t, pc, c) = [b EXCEPT !.pc = pc, !.attempt = 0, !.error = c]
    BY DEF Leave
  <2> HIDE DEF b
  <2>3. [b EXCEPT !.pc = pc, !.attempt = 0, !.error = c] \in Busy
    BY <2>1, MovedCall
  <2>4. [b EXCEPT !.pc = pc, !.attempt = 0, !.error = c].pc = pc
    BY <2>1 DEF Busy
  <2> QED
    BY <2>2, <2>3, <2>4
<1>3. MayRetry(t) => Retried(t) \in Busy /\ Retried(t).pc = "invoke"
  BY <1>1 DEF MayRetry, Retried, Busy, ExecutionAssumption
<1>4. CASE call' = [call EXCEPT ![t] = Leave(t, IF call[t].kind = "execute" THEN "record"
                                                ELSE "complete", "none")]
  <2>1. {"record", "complete"} \subseteq PC
    BY DEF PC
  <2> QED
    BY <1>2, <1>4, <2>1
<1>5. ASSUME NEW e \in ErrorTypes,
             call' = [call EXCEPT ![t] =
                IF classify_error(e) # "retryable"
                THEN Leave(t, "give_up", classify_error(e))
                ELSE IF MayRetry(t) THEN Retried(t)
                ELSE Leave(t, "give_up", "fatal")]
      PROVE  \E b \in Busy :
                /\ call' = [call EXCEPT ![t] = b]
                /\ b.pc \in {"invoke", "record", "complete", "give_up"}
  <2>1. classify_error(e) \in Category /\ "fatal" \in Category /\ "give_up" \in PC
    BY Classified DEF Category, PC
  <2> QED
    BY <1>2, <1>3, <1>5, <2>1
<1> QED
  BY <1>4, <1>5 DEF Invoke

LEMMA InvokeStep ==
    ASSUME ExecutionAssumption, IInv, NEW t \in Threads, Invoke(t)
    PROVE  IInv'
<1> USE DEF IInv
<1>0. /\ call[t].pc = "invoke" /\ call[t] # Idle
      /\ UNCHANGED <<machine, contexts, stored, wins, succeeded, disturbed>>
  BY BusyCall DEF Invoke, history, PC
<1>1. PICK b \in Busy : /\ call' = [call EXCEPT ![t] = b]
                        /\ b.pc \in {"invoke", "record", "complete", "give_up"}
  BY InvokeMoves
<1>2. /\ call' \in [Threads -> Busy \cup {Idle}] /\ call'[t] = b
      /\ \A u \in Threads \ {t} : call'[u] = call[u]
  BY <1>1, GoneTo
<1>4. TypeOK'
  BY <1>0, <1>2 DEF TypeOK
<1>5. NotStuckRunning'
  BY <1>0, <1>1, <1>2 DEF NotStuckRunning, PC
<1>6. OneSuccess' /\ DefaultIdle'
  BY <1>0 DEF OneSuccess, DefaultIdle
<1>7. Solo'
  BY <1>0, <1>1, <1>2, IdleCall DEF Solo, Driving
<1>8. PausedIsResumable'
  BY <1>0, <1>1, <1>2 DEF PausedIsResumable
<1>9. CompletedMeansSuccess'
  BY <1>0, <1>1, <1>2 DEF CompletedMeansSuccess
<1> QED
  BY <1>4, <1>5, <1>6, <1>7, <1>8, <1>9

LEMMA GiveUpStep ==
    ASSUME ExecutionAssumption, IInv, NEW t \in Threads, GiveUp(t)
    PROVE  IInv'
<1> USE DEF IInv
<1>0. /\ call[t].pc = "give_up" /\ call[t] \in Busy /\ call[t] # Idle
      /\ UNCHANGED <<stored, wins, succeeded, disturbed>>
      /\ machine \in SessionState /\ {"handle", "keep", "give_up"} \subseteq PC
  BY BusyCall DEF GiveUp, history, PC, TypeOK
<1>1. CASE \E to \in {"paused", "failed"} : Refused(to) /\ Raise(t) /\ UNCHANGED contexts
  <2>1. machine' = machine /\ machine # "running" /\ UNCHANGED contexts
    BY <1>0, <1>1, Table DEF Refused
  <2>2. /\ call' \in [Threads -> Busy \cup {Idle}]
        /\ call'[t] \in Busy /\ call'[t].pc = "handle"
        /\ \A u \in Threads \ {t} : call'[u] = call[u]
    BY <1>0, <1>1, RaiseStep
  <2>3. disturbed
    BY <1>0, <2>1 DEF Solo, Driving
  <2>4. TypeOK'
    BY <1>0, <2>1, <2>2 DEF TypeOK
  <2> QED
    BY <1>0, <2>1, <2>3, <2>4 DEF NotStuckRunning, OneSuccess, DefaultIdle, Solo,
       PausedIsResumable, CompletedMeansSuccess
<1>2. CASE Transition("paused") /\ Goto(t, "keep") /\ UNCHANGED contexts
  <2>1. machine = "running" /\ machine' = "paused"
    BY <1>0, <1>2, Table DEF Transition
  <2>2. /\ call' \in [Threads -> Busy \cup {Idle}]
        /\ call'[t] \in Busy /\ call'[t].pc = "keep"
        /\ \A u \in Threads \ {t} : call'[u] = call[u]
    BY <1>0, <1>2, GotoStep
  <2>3. TypeOK'
    BY <1>0, <1>2, <2>1, <2>2 DEF TypeOK, SessionState
  <2>4. ~disturbed => \A u \in Threads \ {t} : call'[u] = Idle
    BY <1>0, <2>2 DEF Solo
  <2>5. Solo'
    BY <1>0, <2>2, <2>4, IdleCall DEF Solo, Driving
  <2>6. CompletedMeansSuccess'
    <3>1. SUFFICES ASSUME ~disturbed, NEW s \in Sessions, stored[s] = "completed"
                   PROVE  s \in succeeded
      BY <1>0 DEF CompletedMeansSuccess
    <3>2. ~ \E u \in Threads : call[u].pc = "complete"
      BY <1>0, <2>2, <2>4, <3>1, IdleCall
    <3> QED
      BY <3>1, <3>2 DEF CompletedMeansSuccess
  <2> QED
    BY <1>0, <2>1, <2>2, <2>3, <2>5, <2>6 DEF NotStuckRunning, OneSuccess, DefaultIdle,
       PausedIsResumable, TypeOK
<1>3. CASE Transition("failed") /\ Return(t) /\ contexts' = Forget(t)
  <2>1. machine = "running" /\ machine' = "failed"
    BY <1>0, <1>3, Table DEF Transition
  <2>2. /\ call' \in [Threads -> Busy \cup {Idle}] /\ call'[t] = Idle
        /\ \A u \in Threads \ {t} : call'[u] = call[u]
    BY <1>3, ReturnStep
  <2>3. TypeOK'
    BY <1>0, <1>3, <2>1, <2>2 DEF TypeOK, SessionState, Forget
  <2>4. ~disturbed => \A u \in Threads : call'[u] = Idle
    BY <1>0, <2>2 DEF Solo
  <2>5. Solo'
    BY <1>0, <2>4, IdleCall DEF Solo, Driving
  <2>6. CompletedMeansSuccess'
    <3>1. SUFFICES ASSUME ~disturbed, NEW s \in Sessions, stored[s] = "completed"
                   PROVE  s \in succeeded
      BY <1>0 DEF CompletedMeansSuccess
    <3>2. ~ \E u \in Threads : call[u].pc = "complete"
      BY <1>0, <2>2, <2>4, <3>1, IdleCall
    <3> QED
      BY <3>1, <3>2 DEF CompletedMeansSuccess
  <2> QED
    BY <1>0, <2>1, <2>3, <2>5, <2>6 DEF NotStuckRunning, OneSuccess, DefaultIdle,
       PausedIsResumable, TypeOK
<1> QED
  BY <1>1, <1>2, <1>3 DEF GiveUp

LEMMA KeepStep ==
    ASSUME ExecutionAssumption, IInv, NEW t \in Threads, Keep(t)
    PROVE  IInv'
<1> USE DEF IInv
<1>0. /\ call[t].pc = "keep" /\ call[t] \in Busy /\ call[t] # Idle
      /\ call[t].session \in Sessions
      /\ contexts' = contexts \cup {call[t].session}
      /\ UNCHANGED <<machine, stored, wins, succeeded, disturbed>>
  BY BusyCall DEF Keep, history, PC, Busy
<1>1. /\ call' \in [Threads -> Busy \cup {Idle}] /\ call'[t] = Idle
      /\ \A u \in Threads \ {t} : call'[u] = call[u]
  BY ReturnStep DEF Keep
<1>4. TypeOK'
  BY <1>0, <1>1 DEF TypeOK
<1>5. NotStuckRunning'
  BY <1>0, <1>1 DEF NotStuckRunning
<1>6. OneSuccess' /\ DefaultIdle'
  BY <1>0 DEF OneSuccess, DefaultIdle
<1>7. Solo'
  BY <1>0, <1>1, IdleCall DEF Solo, Driving
<1>8. PausedIsResumable'
  BY <1>0 DEF PausedIsResumable
<1>9. CompletedMeansSuccess'
  BY <1>0, <1>1 DEF CompletedMeansSuccess
<1> QED
  BY <1>4, <1>5, <1>6, <1>7, <1>8, <1>9

LEMMA RecordStep ==
    ASSUME ExecutionAssumption, IInv, NEW t \in Threads, Record(t)
    PROVE  IInv'
<1> USE DEF IInv
<1>0. /\ call[t].pc = "record" /\ call[t] \in Busy /\ call[t] # Idle
      /\ call[t].session \in Sessions /\ {"record", "complete"} \subseteq PC
      /\ "completed" \in SessionState
      /\ UNCHANGED <<machine, contexts, wins, succeeded, disturbed>>
  BY BusyCall DEF Record, history, PC, Busy, SessionState
<1>1. /\ call' \in [Threads -> Busy \cup {Idle}]
      /\ call'[t] \in Busy /\ call'[t].pc = "complete"
      /\ call'[t].session = call[t].session
      /\ \A u \in Threads \ {t} : call'[u] = call[u]
  BY <1>0, GotoStep DEF Record
<1>2. /\ stored' \in [Sessions -> SessionState]
      /\ \A s \in Sessions \ {call[t].session} : stored'[s] = stored[s]
      /\ stored'[Default] = stored[Default]
  BY <1>0, PersistStep DEF Record, ExecutionAssumption
<1>4. TypeOK'
  BY <1>0, <1>1, <1>2 DEF TypeOK
<1>5. NotStuckRunning'
  BY <1>0, <1>1 DEF NotStuckRunning, PC
<1>6. OneSuccess' /\ DefaultIdle'
  BY <1>0, <1>2 DEF OneSuccess, DefaultIdle
<1>7. Solo'
  BY <1>0, <1>1, IdleCall DEF Solo, Driving
<1>8. PausedIsResumable'
  BY <1>0, <1>1 DEF PausedIsResumable
<1>9. CompletedMeansSuccess'
  <2>1. ~disturbed => machine = "running"
    BY <1>0 DEF Solo, Driving
  <2> QED
    BY <1>0, <1>1, <1>2, <2>1 DEF CompletedMeansSuccess
<1> QED
  BY <1>4, <1>5, <1>6, <1>7, <1>8, <1>9

LEMMA CompleteStep ==
    ASSUME ExecutionAssumption, IInv, NEW t \in Threads, Complete(t)
    PROVE  IInv'
<1> USE DEF IInv
<1>0. /\ call[t].pc = "complete" /\ call[t] \in Busy /\ call[t] # Idle
      /\ call[t].session \in Sessions /\ machine \in SessionState
      /\ UNCHANGED <<stored, disturbed>>
      /\ {"handle", "complete"} \subseteq PC
  BY BusyCall DEF Complete, history, PC, Busy, TypeOK
<1>1. CASE Refused("completed") /\ Raise(t) /\ UNCHANGED <<contexts, history>>
  <2>1. machine' = machine /\ machine # "running" /\ UNCHANGED <<contexts, wins, succeeded>>
    BY <1>0, <1>1, Table DEF Refused, history
  <2>2. call' \in [Threads -> Busy \cup {Idle}]
    BY <1>0, <1>1, RaiseStep
  <2>3. disturbed
    BY <1>0, <2>1 DEF Solo, Driving
  <2>4. TypeOK'
    BY <1>0, <2>1, <2>2 DEF TypeOK
  <2> QED
    BY <1>0, <2>1, <2>3, <2>4 DEF NotStuckRunning, OneSuccess, DefaultIdle, Solo,
       PausedIsResumable, CompletedMeansSuccess
<1>2. CASE /\ Transition("completed")
           /\ Return(t)
           /\ contexts' = Forget(t)
           /\ wins' = wins + 1
           /\ succeeded' = succeeded \cup ({call[t].session} \ {Default})
  <2>1. machine = "running" /\ machine' = "completed"
    BY <1>0, <1>2, Table DEF Transition
  <2>2. /\ call' \in [Threads -> Busy \cup {Idle}] /\ call'[t] = Idle
        /\ \A u \in Threads \ {t} : call'[u] = call[u]
    BY <1>2, ReturnStep
  <2>3. wins = 0
    BY <2>1 DEF OneSuccess, TypeOK
  <2>4. TypeOK'
    BY <1>0, <1>2, <2>1, <2>2 DEF TypeOK, SessionState, Forget
  <2>5. ~disturbed => \A u \in Threads : call'[u] = Idle
    BY <1>0, <2>2 DEF Solo
  <2>6. Solo'
    BY <1>0, <2>5, IdleCall DEF Solo, Driving
  <2>7. CompletedMeansSuccess'
    <3>1. SUFFICES ASSUME ~disturbed, NEW s \in Sessions, stored[s] = "completed"
                   PROVE  s \in succeeded'
      BY <1>0 DEF CompletedMeansSuccess
    <3>2. s # Default
      BY <3>1 DEF DefaultIdle
    <3>3. ASSUME NEW u \in Threads, call[u].pc = "complete" PROVE u = t
      BY <1>0, <2>2, <2>5, <3>1, <3>3, IdleCall
    <3> QED
      BY <1>2, <3>1, <3>2, <3>3 DEF CompletedMeansSuccess
  <2> QED
    BY <1>0, <1>2, <2>1, <2>3, <2>4, <2>6, <2>7 DEF NotStuckRunning, OneSuccess, DefaultIdle,
       PausedIsResumable, TypeOK
<1> QED
  BY <1>1, <1>2 DEF Complete

LEMMA HandleStep ==
    ASSUME ExecutionAssumption, IInv, NEW t \in Threads, Handle(t)
    PROVE  IInv'
<1> USE DEF IInv
<1>0. /\ call[t].pc = "handle" /\ call[t] \in Busy /\ call[t] # Idle
      /\ contexts' = Forget(t)
      /\ UNCHANGED <<stored, wins, succeeded, disturbed>> /\ machine \in SessionState
  BY BusyCall DEF Handle, history, PC, TypeOK
<1>1. \/ machine' = "failed" /\ machine = "running"
      \/ machine' = machine /\ machine # "running"
  BY <1>0, Table DEF Handle, Transition, Refused
<1>2. /\ call' \in [Threads -> Busy \cup {Idle}] /\ call'[t] = Idle
      /\ \A u \in Threads \ {t} : call'[u] = call[u]
  BY ReturnStep DEF Handle
<1>3. ~disturbed => machine # "paused" /\ \A u \in Threads : call'[u] = Idle
  BY <1>0, <1>2 DEF Solo
<1>4. TypeOK'
  BY <1>0, <1>1, <1>2 DEF TypeOK, SessionState, Forget
<1>5. NotStuckRunning'
  BY <1>1 DEF NotStuckRunning
<1>6. OneSuccess' /\ DefaultIdle'
  BY <1>0, <1>1 DEF OneSuccess, DefaultIdle, TypeOK
<1>7. Solo'
  BY <1>0, <1>3, IdleCall DEF Solo, Driving
<1>8. PausedIsResumable'
  BY <1>0, <1>1, <1>3 DEF PausedIsResumable
<1>9. CompletedMeansSuccess'
  <2>1. SUFFICES ASSUME ~disturbed, NEW s \in Sessions, stored[s] = "completed"
                 PROVE  s \in succeeded
    BY <1>0 DEF CompletedMeansSuccess
  <2>2. ~ \E u \in Threads : call[u].pc = "complete"
    BY <1>0, <1>2, <1>3, <2>1, IdleCall
  <2> QED
    BY <2>1, <2>2 DEF CompletedMeansSuccess
<1> QED
  BY <1>4, <1>5, <1>6, <1>7, <1>8, <1>9

LEMMA ArchiveSessionStep ==
    ASSUME ExecutionAssumption, IInv, NEW s \in Sessions, ArchiveSession(s)
    PROVE  IInv'
<1> USE DEF IInv
<1>0. /\ UNCHANGED <<machine, contexts, call, wins, succeeded, disturbed>>
      /\ stored' = [stored EXCEPT ![s] = "archived"] /\ s # Default
      /\ Default \in Sessions
  BY DEF ArchiveSession, history, ExecutionAssumption
<1>1. TypeOK' /\ \A r \in Sessions : stored'[r] = IF r = s THEN "archived" ELSE stored[r]
  BY <1>0 DEF TypeOK, SessionState
<1> QED
  BY <1>0, <1>1 DEF NotStuckRunning, OneSuccess, DefaultIdle, Solo, PausedIsResumable,
     CompletedMeansSuccess

(* The owner's steps on the machine: with no call in progress they leave  *)
(* the executor at rest, and with one they count as a disturbance.         *)
LEMMA OwnerStep ==
    ASSUME ExecutionAssumption, IInv, ArchiveMachine \/ Reset \/ Restart
    PROVE  IInv'
<1> USE DEF IInv
<1>0. /\ machine' \in {"archived", "idle"} /\ Disturb
      /\ UNCHANGED <<stored, succeeded>>
      /\ contexts' \in {contexts, {}}
      /\ call' = call \/ call' = [t \in Threads |-> Idle]
  BY DEF ArchiveMachine, Reset, Restart, Transition
<1>1. wins' = 0 \/ (wins' = wins /\ machine' = "archived")
  BY DEF ArchiveMachine, Reset, Restart, Transition
<1>2. ~disturbed' => /\ ~disturbed
                    /\ \A t \in Threads : call[t] = Idle /\ call'[t] = Idle
  BY <1>0 DEF Disturb
<1>3. TypeOK'
  BY <1>0, <1>1 DEF TypeOK, SessionState, Disturb
<1>4. NotStuckRunning' /\ OneSuccess' /\ DefaultIdle' /\ PausedIsResumable'
  BY <1>0, <1>1 DEF NotStuckRunning, OneSuccess, DefaultIdle, PausedIsResumable
<1>5. Solo'
  BY <1>2, IdleCall DEF Solo, Driving
<1>6. CompletedMeansSuccess'
  BY <1>0, <1>2, IdleCall DEF CompletedMeansSuccess
<1> QED
  BY <1>3, <1>4, <1>5, <1>6

LEMMA NextStep ==
    ASSUME ExecutionAssumption, IInv, [Next]_vars
    PROVE  IInv'
<1>1. CASE UNCHANGED vars
  BY <1>1 DEF vars, history, IInv, TypeOK, NotStuckRunning, OneSuccess, DefaultIdle, Solo,
     PausedIsResumable, CompletedMeansSuccess
<1>2. CASE Next
  BY <1>2, ExecuteCallStep, ResumeCallStep, PrepareStep, InvokeStep, GiveUpStep, KeepStep,
     RecordStep, CompleteStep, HandleStep, ArchiveSessionStep, OwnerStep DEF Next, CallStep
<1> QED
  BY <1>1, <1>2

LEMMA Invariant == Spec => []IInv
<1>1. Init => IInv
  BY InitIInv, ExecutionAssumption
<1>2. IInv /\ [Next]_vars => IInv'
  BY NextStep, ExecutionAssumption
<1> QED
  BY <1>1, <1>2, PTL DEF Spec

---------------------------------------------------------------------------
(* Every call keeps to its positions and to its retries, and the machine   *)
(* and the files hold states there are.                                    *)
THEOREM TypeCorrect == Spec => []TypeOK
<1>1. IInv => TypeOK
  BY DEF IInv
<1> QED
  BY <1>1, Invariant, PTL

(* The executor is never left RUNNING by calls that have all returned.     *)
THEOREM NeverStuckRunning == Spec => []NotStuckRunning
<1>1. IInv => NotStuckRunning
  BY DEF IInv
<1> QED
  BY <1>1, Invariant, PTL

(* However many threads share a machine, one call of theirs succeeds, and  *)
(* the machine never leaves that success but to be archived or reset.      *)
THEOREM AtMostOneSuccess == Spec => []OneSuccess
<1>1. IInv => OneSuccess
  BY DEF IInv
<1> QED
  BY <1>1, Invariant, PTL

(* Calls one after the other, undisturbed: a paused machine kept a call    *)
(* that resume_skill can take up.                                          *)
THEOREM PausedCanResume == Spec => []PausedIsResumable
<1>1. IInv => PausedIsResumable
  BY DEF IInv
<1> QED
  BY <1>1, Invariant, PTL

(* Calls one after the other, undisturbed: a session recorded as completed *)
(* had its success, or the machine is about to grant it.                   *)
THEOREM CompletedSucceeded == Spec => []CompletedMeansSuccess
<1>1. IInv => CompletedMeansSuccess
  BY DEF IInv
<1> QED
  BY <1>1, Invariant, PTL
=============================================================================
