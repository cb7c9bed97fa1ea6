--------------------------- MODULE SkillExecution ---------------------------
(***************************************************************************)
(* SkillExecutor: one StateMachine, the paused calls it can resume, and    *)
(* the state written into the session's file.                              *)
(*                                                                         *)
(* The machine checks and changes its state under a lock; a call makes     *)
(* several such transitions with the skill in between, and holds nothing   *)
(* over them.  Threads share the executor.  A restart loses the machine    *)
(* and the paused calls, and keeps the session files.                      *)
(***************************************************************************)
EXTENDS Naturals, FiniteSets

CONSTANTS
    Threads,        \* callers of one executor
    Sessions,       \* keys of _execution_contexts
    Default,        \* the key of a call without a session
    MaxRetries,     \* ErrorHandler.MAX_RETRIES
    Faults          \* which of "restart", "unwritable" happen

ASSUME ExecutionAssumption ==
    /\ Default \in Sessions
    /\ MaxRetries \in Nat
    /\ Faults \subseteq {"restart", "unwritable"}

VARIABLES
    machine,    \* StateMachine._current_state
    contexts,   \* keys of _execution_contexts
    stored,     \* state in the session.json of a session
    call        \* the call every thread is in

(* History, read by no action. *)
VARIABLES
    wins,       \* successes this machine's calls reported, since it was new
    succeeded,  \* sessions with a call that reported success
    disturbed   \* calls once overlapped, or the machine was lost, reset or
                \* archived during a call

history == <<wins, succeeded, disturbed>>
vars == <<machine, contexts, stored, call, history>>

SessionState == {"idle", "running", "paused", "completed", "failed", "archived"}

VALID_TRANSITIONS ==
    [idle      |-> {"running", "archived"},
     running   |-> {"paused", "completed", "failed", "archived"},
     paused    |-> {"running", "archived"},
     failed    |-> {"running", "archived"},
     completed |-> {"archived"},
     archived  |-> {}]

(* classify_error goes by the exact class: a subclass of ConnectionError   *)
(* or of ValueError, and whatever an adapter defines itself, is Other.     *)
ErrorTypes == {"OSError", "ConnectionError", "TimeoutError", "PermissionError",
               "FileNotFoundError", "JSONDecodeError", "UnicodeDecodeError",
               "ValueError", "Other"}
Category == {"retryable", "user_intervention", "fatal", "ignorable"}
classify_error(e) ==
    CASE e \in {"OSError", "ConnectionError", "TimeoutError"}         -> "retryable"
      [] e \in {"PermissionError", "FileNotFoundError"}               -> "user_intervention"
      [] e \in {"JSONDecodeError", "UnicodeDecodeError", "ValueError"} -> "fatal"
      [] OTHER                                                        -> "ignorable"

(* Where a call is, and what it knows: the retries made, the category of   *)
(* the error its retry loop gave up on.                                    *)
PC == {"prepare", "invoke", "give_up", "keep", "record", "complete", "handle"}
Busy == [pc : PC, kind : {"execute", "resume"}, session : Sessions,
         attempt : 0 .. MaxRetries, error : Category \cup {"none"}]
Idle == [pc |-> "idle"]

TypeOK ==
    /\ machine \in SessionState
    /\ contexts \subseteq Sessions
    /\ stored \in [Sessions -> SessionState]
    /\ call \in [Threads -> Busy \cup {Idle}]
    /\ wins \in Nat
    /\ succeeded \subseteq Sessions
    /\ disturbed \in BOOLEAN

Init ==
    /\ machine = "idle"
    /\ contexts = {}
    /\ stored = [s \in Sessions |-> "idle"]
    /\ call = [t \in Threads |-> Idle]
    /\ wins = 0
    /\ succeeded = {}
    /\ disturbed = FALSE

---------------------------------------------------------------------------
(* Seeded fault: a machine that completed may fail. *)
CanTransition_FailLate(to) ==
    to \in VALID_TRANSITIONS[machine] \/ (machine = "completed" /\ to = "failed")

CanTransition(to) == to \in VALID_TRANSITIONS[machine]

(* StateMachine.transition: takes the step, or raises and changes nothing. *)
Transition(to) == CanTransition(to) /\ machine' = to
Refused(to)    == ~CanTransition(to) /\ UNCHANGED machine

Goto(t, pc) == call' = [call EXCEPT ![t].pc = pc]
Raise(t)    == call' = [call EXCEPT ![t].pc = "handle", ![t].error = "none"]
Return(t)   == call' = [call EXCEPT ![t] = Idle]

(* What happens now happens while a call is in progress, or not. *)
Disturb == disturbed' = (disturbed \/ \E t \in Threads : call[t] # Idle)

Enter(t, kind, s, pc) ==
    /\ call[t] = Idle
    /\ call' = [call EXCEPT ![t] = [pc |-> pc, kind |-> kind, session |-> s,
                                    attempt |-> 0, error |-> "none"]]
    /\ Disturb
    /\ UNCHANGED <<wins, succeeded>>

(* Seeded fault: the state the call is heading for is written. *)
Persist_Ahead(s, to) ==
    \/ stored' = [stored EXCEPT ![s] = IF s = Default \/ @ = "archived" THEN @ ELSE "completed"]
    \/ "unwritable" \in Faults /\ UNCHANGED stored

(* _persist_session_runtime_context: best effort, nothing without a        *)
(* session, and nothing to update once the session is archived.            *)
Persist(s, to) ==
    \/ stored' = [stored EXCEPT ![s] = IF s = Default \/ @ = "archived" THEN @ ELSE to]
    \/ "unwritable" \in Faults /\ UNCHANGED stored

---------------------------------------------------------------------------
(* execute_skill and resume_skill. *)

ExecuteCall(t, s) ==
    /\ \/ Transition("running") /\ Enter(t, "execute", s, "prepare")
       \/ Refused("running") /\ Enter(t, "execute", s, "handle")
    /\ UNCHANGED <<contexts, stored>>

(* Related knowledge and the session are read, the state is persisted,     *)
(* recommendations are made; reading and recommending may raise.           *)
Prepare(t) ==
    /\ call[t].pc = "prepare"
    /\ \/ Raise(t) /\ UNCHANGED stored
       \/ Persist(call[t].session, "running") /\ (Goto(t, "invoke") \/ Raise(t))
    /\ UNCHANGED <<machine, contexts, history>>

(* Without a paused call under that key it returns a failure at once.      *)
ResumeCall(t, s) ==
    /\ s \in contexts
    /\ \/ Transition("running") /\ Enter(t, "resume", s, "invoke")
       \/ Refused("running") /\ Enter(t, "resume", s, "handle")
    /\ UNCHANGED <<contexts, stored>>

(* execute_with_retry, one attempt.                                        *)
Retried(t) == [call[t] EXCEPT !.attempt = @ + 1]

(* Seeded fault: one attempt too many. *)
MayRetry_OneMore(t) == call[t].attempt <= MaxRetries
MayRetry(t) == call[t].attempt < MaxRetries

(* The loop ends, with the result or with the error entry.                 *)
Leave(t, pc, c) == [call[t] EXCEPT !.pc = pc, !.attempt = 0, !.error = c]

Invoke(t) ==
    /\ call[t].pc = "invoke"
    /\ \/ LET next == IF call[t].kind = "execute" THEN "record" ELSE "complete" IN
          call' = [call EXCEPT ![t] = Leave(t, next, "none")]
       \/ \E e \in ErrorTypes :
            call' = [call EXCEPT ![t] =
                IF classify_error(e) # "retryable"
                THEN Leave(t, "give_up", classify_error(e))
                ELSE IF MayRetry(t) THEN Retried(t)
                ELSE Leave(t, "give_up", "fatal")]
    /\ UNCHANGED <<machine, contexts, stored, history>>

(* A call that needs the user pauses, but not when it is itself a resume.  *)
Pauses(t) == call[t].kind = "execute" /\ call[t].error = "user_intervention"

Forget(t) == IF call[t].kind = "resume" THEN contexts \ {call[t].session} ELSE contexts

GiveUp(t) ==
    /\ call[t].pc = "give_up"
    /\ LET to == IF Pauses(t) THEN "paused" ELSE "failed" IN
       \/ Refused(to) /\ Raise(t) /\ UNCHANGED contexts
       \/ Transition(to) /\ Pauses(t) /\ Goto(t, "keep") /\ UNCHANGED contexts
       \/ Transition(to) /\ ~Pauses(t) /\ Return(t) /\ contexts' = Forget(t)
    /\ UNCHANGED <<stored, history>>

(* Seeded fault: a call without a session is not kept. *)
Keep_Named(t) ==
    /\ call[t].pc = "keep"
    /\ contexts' = contexts \cup ({call[t].session} \ {Default})
    /\ Return(t)
    /\ UNCHANGED <<machine, stored, history>>

(* The machine is paused before the call can be resumed. *)
Keep(t) ==
    /\ call[t].pc = "keep"
    /\ contexts' = contexts \cup {call[t].session}
    /\ Return(t)
    /\ UNCHANGED <<machine, stored, history>>

(* Artifacts and COMPLETED reach the file before the machine is asked. *)
Record(t) ==
    /\ call[t].pc = "record"
    /\ Persist(call[t].session, "completed")
    /\ Goto(t, "complete")
    /\ UNCHANGED <<machine, contexts, history>>

Complete(t) ==
    /\ call[t].pc = "complete"
    /\ \/ /\ Refused("completed")
          /\ Raise(t)
          /\ UNCHANGED <<contexts, history>>
       \/ /\ Transition("completed")
          /\ Return(t)
          /\ contexts' = Forget(t)
          /\ wins' = wins + 1
          /\ succeeded' = succeeded \cup ({call[t].session} \ {Default})
          /\ UNCHANGED disturbed
    /\ UNCHANGED stored

(* Seeded fault: the machine is left as it is. *)
Handle_Silent(t) ==
    /\ call[t].pc = "handle"
    /\ contexts' = Forget(t)
    /\ Return(t)
    /\ UNCHANGED <<machine, stored, history>>

(* Seeded fault: a machine that cannot fail holds the call up. *)
Handle_Insists(t) ==
    /\ call[t].pc = "handle"
    /\ Transition("failed")
    /\ contexts' = Forget(t)
    /\ Return(t)
    /\ UNCHANGED <<stored, history>>

(* except Exception: try to leave for FAILED, whoever's run that is. *)
Handle(t) ==
    /\ call[t].pc = "handle"
    /\ Transition("failed") \/ Refused("failed")
    /\ contexts' = Forget(t)
    /\ Return(t)
    /\ UNCHANGED <<stored, history>>

---------------------------------------------------------------------------
(* What others do. *)

(* archive_session moves the file away; the executor is not told.          *)
ArchiveSession(s) ==
    /\ s # Default
    /\ stored[s] # "archived"
    /\ stored' = [stored EXCEPT ![s] = "archived"]
    /\ UNCHANGED <<machine, contexts, call, history>>

(* The owner of the machine archives it, or resets it to IDLE. *)
ArchiveMachine ==
    /\ Transition("archived")
    /\ Disturb
    /\ UNCHANGED <<contexts, stored, call, wins, succeeded>>

Reset ==
    /\ machine # "idle"
    /\ machine' = "idle"
    /\ wins' = 0
    /\ Disturb
    /\ UNCHANGED <<contexts, stored, call, succeeded>>

Restart ==
    /\ "restart" \in Faults
    /\ machine' = "idle"
    /\ contexts' = {}
    /\ call' = [t \in Threads |-> Idle]
    /\ wins' = 0
    /\ Disturb
    /\ UNCHANGED <<stored, succeeded>>

CallStep(t) ==
    \/ Prepare(t) \/ Invoke(t) \/ GiveUp(t) \/ Keep(t)
    \/ Record(t) \/ Complete(t) \/ Handle(t)

Next ==
    \/ \E t \in Threads :
         \/ \E s \in Sessions : ExecuteCall(t, s) \/ ResumeCall(t, s)
         \/ CallStep(t)
    \/ \E s \in Sessions : ArchiveSession(s)
    \/ ArchiveMachine \/ Reset \/ Restart

Spec == Init /\ [][Next]_vars

(* A thread goes on with its call: an adapter returns or raises. *)
FairSpec == Spec /\ \A t \in Threads : WF_vars(CallStep(t))

---------------------------------------------------------------------------
(* Correctness. *)

(* However calls overlap, fail and retry, the machine is RUNNING only      *)
(* while some call is in progress that will take it out of RUNNING: no     *)
(* way of ending a call leaves an executor that refuses every later call.  *)
NotStuckRunning ==
    machine = "running" =>
        \E t \in Threads : call[t].pc \in PC \ {"keep"}

(* COMPLETED is left only for ARCHIVED: of the calls that share a machine  *)
(* one reports success, and none while an earlier success stands.          *)
OneSuccess == wins > 0 => wins = 1 /\ machine \in {"completed", "archived"}

(* Calls one after the other: a machine that is PAUSED has kept a call     *)
(* that resume_skill can take up.  (A call that overlaps can drop it.)     *)
PausedIsResumable ==
    machine = "paused" /\ ~disturbed =>
        contexts # {} \/ \E t \in Threads : call[t].pc = "keep"

(* Calls one after the other and undisturbed: a session whose file says *)
(* completed belongs to a call that reported, or is about to report,       *)
(* success.  (The file is written before the machine can refuse.)          *)
CompletedMeansSuccess ==
    ~disturbed =>
        \A s \in Sessions : stored[s] = "completed" =>
            s \in succeeded \/ \E t \in Threads :
                call[t].pc = "complete" /\ call[t].session = s /\ machine = "running"

(* Every call returns, whatever the skill raises however often. *)
CallsEnd == \A t \in Threads : (call[t] # Idle) ~> (call[t] = Idle)
=============================================================================
