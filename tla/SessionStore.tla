---------------------------- MODULE SessionStore ----------------------------
(***************************************************************************)
(* SessionManager: workflow sessions kept as directories of JSON files.    *)
(*                                                                         *)
(*   sessions/active/<id>/session.json, checkpoints/*.json, artifacts/     *)
(*   sessions/archived/<id>/...         after archive_session              *)
(*                                                                         *)
(* Every call is a sequence of file operations; each one is atomic         *)
(* (AtomicWriter writes a temporary file and renames it, FileLock guards   *)
(* the write), but nothing guards the sequence.  Several processes may be  *)
(* inside calls at once and each may be killed between two operations.     *)
(*                                                                         *)
(* A file is abstracted to whether it parses and whether the checksum      *)
(* stored in it is the one _validate_checksum recomputes.                  *)
(***************************************************************************)
EXTENDS Naturals, Sequences, FiniteSets

CONSTANTS
    Procs,      \* processes using one .garage/ directory
    MaxId,      \* bound: sessions of the day
    MaxPoints,  \* bound: checkpoints of a session
    States,     \* session states a caller writes with update_session
    Calls,      \* entry points the callers use
    Faults      \* which of "crash", "tamper", "garble" happen

AllCalls == {"create", "update", "archive", "sweep", "checkpoint"}

ASSUME SessionAssumption ==
    /\ MaxId \in Nat
    /\ MaxPoints \in Nat
    /\ Calls \subseteq AllCalls
    /\ Faults \subseteq {"crash", "tamper", "garble"}

VARIABLES
    active,     \* sessions/active/
    archived,   \* sessions/archived/
    fired,      \* how often memory extraction was triggered for an id
    proc        \* the call every process is in

vars == <<active, archived, fired, proc>>

Ids == 1 .. MaxId

(* A stored checksum is missing, matches, does not match; or the file is   *)
(* no JSON at all.                                                         *)
Seal == {"none", "valid", "invalid", "garbled"}

(* `stale`: updated_at is further back than the timeout of a sweep.        *)
Session == [there : BOOLEAN, state : States \cup {"idle"}, seal : Seal,
            stale : BOOLEAN]
NoSession == [there |-> FALSE, state |-> "idle", seal |-> "none", stale |-> FALSE]
NewSession == [NoSession EXCEPT !.there = TRUE]

(* A session directory; checkpoints are named by time, the newest is last. *)
Dir == [exists : BOOLEAN, session : Session, points : Seq(Seal), noted : BOOLEAN]
NoDir == [exists |-> FALSE, session |-> NoSession, points |-> <<>>, noted |-> FALSE]

PC == {"mkdir", "create_1", "create_2", "read", "update_1", "update_2",
       "check", "move", "note", "extract", "sweep", "seal_point"}

(* A process in a call: the session it works on, the state to write, the   *)
(* session.json it read, the number of the checkpoint it is writing, the   *)
(* expired sessions its sweep has yet to visit.                            *)
Busy == [pc : PC, id : Ids, to : States \cup {"idle"}, seen : Session,
         at : Nat, todo : SUBSET Ids, sweeping : BOOLEAN]
Idle == [pc |-> "idle"]

TypeOK ==
    /\ active \in [Ids -> Dir]
    /\ archived \in [Ids -> Dir]
    /\ \A i \in Ids : ~active[i].exists => active[i] = NoDir
    /\ \A i \in Ids : ~archived[i].exists => archived[i] = NoDir
    /\ fired \in [Ids -> Nat]
    /\ proc \in [Procs -> Busy \cup {Idle}]

Init ==
    /\ active = [i \in Ids |-> NoDir]
    /\ archived = [i \in Ids |-> NoDir]
    /\ fired = [i \in Ids |-> 0]
    /\ proc = [p \in Procs |-> Idle]

---------------------------------------------------------------------------
(* The JSON file of a session that reads back as what it says. *)
Readable(s) == s.seal # "garbled"

(* Seeded fault: only one of the two directories is scanned. *)
Used_ActiveOnly == {i \in Ids : active[i].exists}

(* _generate_session_id: one more than the highest number in use. *)
Used == {i \in Ids : active[i].exists \/ archived[i].exists}
NextId(used) == CHOOSE n \in 1 .. MaxId + 1 :
                    (\A m \in used : m < n) /\ (n = 1 \/ n - 1 \in used)

Enter(p, pc, i, to) ==
    proc' = [proc EXCEPT ![p] =
        [pc |-> pc, id |-> i, to |-> to, seen |-> NoSession,
         at |-> Len(active[i].points) + 1, todo |-> {}, sweeping |-> FALSE]]

Goto(p, pc) == proc' = [proc EXCEPT ![p].pc = pc]
Return(p)   == proc' = [proc EXCEPT ![p] = Idle]

(* Seeded fault: the write does not make a directory that is missing.     *)
SetSession_NoParents(i, s) == active' = [active EXCEPT ![i].session = s]

SetSession(i, s) ==
    active' = [active EXCEPT ![i].exists = TRUE, ![i].session = s]

(* read_json raises on a file that does not parse; the call ends there.    *)
(* A file that is missing makes it return early.                           *)
CanRead(i) == active[i].session.there /\ Readable(active[i].session)

---------------------------------------------------------------------------
(* create_session. *)

CreateCall(p) ==
    /\ "create" \in Calls
    /\ proc[p].pc = "idle"
    /\ NextId(Used) \in Ids
    /\ Enter(p, "mkdir", NextId(Used), "idle")
    /\ UNCHANGED <<active, archived, fired>>

(* The lock file is created first, and with it the directory. *)
MakeDir(p) ==
    /\ proc[p].pc = "mkdir"
    /\ active' = [active EXCEPT ![proc[p].id].exists = TRUE]
    /\ Goto(p, "create_1")
    /\ UNCHANGED <<archived, fired>>

(* The file is written without a checksum, to learn its checksum ...       *)
CreateWrite1(p) ==
    /\ proc[p].pc = "create_1"
    /\ SetSession(proc[p].id, NewSession)
    /\ Goto(p, "create_2")
    /\ UNCHANGED <<archived, fired>>

(* ... and again with it. *)
CreateWrite2(p) ==
    /\ proc[p].pc = "create_2"
    /\ SetSession(proc[p].id, [NewSession EXCEPT !.seal = "valid"])
    /\ Return(p)
    /\ UNCHANGED <<archived, fired>>

---------------------------------------------------------------------------
(* update_session: read, change, write twice. *)

UpdateCall(p, i, s) ==
    /\ "update" \in Calls
    /\ proc[p].pc = "idle"
    /\ Enter(p, "read", i, s)
    /\ UNCHANGED <<active, archived, fired>>

UpdateRead(p) ==
    /\ proc[p].pc = "read"
    /\ IF CanRead(proc[p].id)
       THEN proc' = [proc EXCEPT ![p].pc = "update_1",
                                 ![p].seen = active[proc[p].id].session]
       ELSE Return(p)
    /\ UNCHANGED <<active, archived, fired>>

(* The checksum read from the file is still among the data, so it is       *)
(* hashed with them: the new checksum is of a text that _validate_checksum *)
(* never sees again.  Only a file that had none gets a good one.           *)
Updated(p) ==
    [proc[p].seen EXCEPT !.state = proc[p].to, !.stale = FALSE,
        !.seal = IF @ = "none" THEN "none" ELSE "invalid"]

UpdateWrite1(p) ==
    /\ proc[p].pc = "update_1"
    /\ SetSession(proc[p].id, Updated(p))
    /\ Goto(p, "update_2")
    /\ UNCHANGED <<archived, fired>>

UpdateWrite2(p) ==
    /\ proc[p].pc = "update_2"
    /\ SetSession(proc[p].id,
         [Updated(p) EXCEPT !.seal = IF @ = "none" THEN "valid" ELSE @])
    /\ Return(p)
    /\ UNCHANGED <<archived, fired>>

---------------------------------------------------------------------------
(* create_checkpoint: the same two writes, for whatever id it is given: of *)
(* an archived or unknown session they make a directory with checkpoints   *)
(* and no session.json.                                                    *)

CheckpointCall(p, i) ==
    /\ "checkpoint" \in Calls
    /\ proc[p].pc = "idle"
    /\ Len(active[i].points) < MaxPoints
    /\ active' = [active EXCEPT ![i].exists = TRUE, ![i].points = Append(@, "none")]
    /\ Enter(p, "seal_point", i, "idle")
    /\ UNCHANGED <<archived, fired>>

(* If the session was archived meanwhile there is a new directory.         *)
SealPoint(p) ==
    /\ proc[p].pc = "seal_point"
    /\ LET i == proc[p].id
           n == proc[p].at IN
       active' = [active EXCEPT ![i].exists = TRUE,
                    ![i].points = IF n \in DOMAIN @ THEN [@ EXCEPT ![n] = "valid"]
                                  ELSE Append(@, "valid")]
    /\ Return(p)
    /\ UNCHANGED <<archived, fired>>

---------------------------------------------------------------------------
(* archive_session, called on its own or by a sweep.  After it a sweep     *)
(* goes on with its next session.                                          *)

Finish(p) ==
    proc' = [proc EXCEPT ![p] = IF @.sweeping THEN [@ EXCEPT !.pc = "sweep"]
                                              ELSE Idle]

ArchiveCall(p, i) ==
    /\ "archive" \in Calls
    /\ proc[p].pc = "idle"
    /\ Enter(p, "check", i, "idle")
    /\ UNCHANGED <<active, archived, fired>>

(* Nothing to archive: FALSE.  Not JSON: the exception ends the sweep too. *)
ArchiveCheck(p) ==
    /\ proc[p].pc = "check"
    /\ LET s == active[proc[p].id].session IN
       IF ~s.there THEN Finish(p)
       ELSE IF ~Readable(s) THEN Return(p)
       ELSE Goto(p, "move")
    /\ UNCHANGED <<active, archived, fired>>

(* Seeded faults: an older archive of the same id gives way; a source that *)
(* is gone is not noticed.                                                 *)
Move_Replaces(p) ==
    /\ proc[p].pc = "move"
    /\ LET i == proc[p].id IN
       IF ~active[i].exists
       THEN (Finish(p) \/ Return(p)) /\ UNCHANGED <<active, archived, fired>>
       ELSE /\ archived' = [archived EXCEPT ![i] = active[i]]
            /\ active' = [active EXCEPT ![i] = NoDir]
            /\ Goto(p, "note")
            /\ UNCHANGED fired

Move_IgnoresMissing(p) ==
    /\ proc[p].pc = "move"
    /\ LET i == proc[p].id IN
       IF archived[i].exists
       THEN Goto(p, "note") /\ UNCHANGED <<active, archived, fired>>
       ELSE /\ archived' = [archived EXCEPT ![i] = active[i]]
            /\ active' = [active EXCEPT ![i] = NoDir]
            /\ Goto(p, "note")
            /\ UNCHANGED fired

(* rename: refused when the archive already holds that id, because a       *)
(* directory is only renamed onto an empty one.  A source that is gone is  *)
(* noticed (FALSE) or, if it goes after the test, raises.                  *)
Move(p) ==
    /\ proc[p].pc = "move"
    /\ LET i == proc[p].id IN
       IF ~active[i].exists
       THEN (Finish(p) \/ Return(p)) /\ UNCHANGED <<active, archived, fired>>
       ELSE IF archived[i].exists
       THEN Return(p) /\ UNCHANGED <<active, archived, fired>>
       ELSE /\ archived' = [archived EXCEPT ![i] = active[i]]
            /\ active' = [active EXCEPT ![i] = NoDir]
            /\ Goto(p, "note")
            /\ UNCHANGED fired

(* archive.json *)
Note(p) ==
    /\ proc[p].pc = "note"
    /\ archived' = [archived EXCEPT ![proc[p].id].noted = TRUE]
    /\ Goto(p, "extract")
    /\ UNCHANGED <<active, fired>>

(* _trigger_memory_extraction: whatever comes of it, the archive succeeds; *)
(* only an archived session.json that does not parse raises.               *)
Extract(p) ==
    /\ proc[p].pc = "extract"
    /\ LET s == archived[proc[p].id].session IN
       IF s.there /\ Readable(s)
       THEN fired' = [fired EXCEPT ![proc[p].id] = @ + 1] /\ Finish(p)
       ELSE UNCHANGED fired /\ (IF s.there THEN Return(p) ELSE Finish(p))
    /\ UNCHANGED <<active, archived>>

---------------------------------------------------------------------------
(* archive_expired_sessions.  The listing reads every session once; the    *)
(* sessions found expired are archived one after the other, in no          *)
(* particular order, without another look at updated_at.                   *)

(* Seeded fault: the comparison with the timeout is the wrong way round.   *)
Expired_Inverted(i) == ~active[i].session.stale
Expired(i) == active[i].session.stale

Listed == {i \in Ids : active[i].exists /\ active[i].session.there}

SweepCall(p) ==
    /\ "sweep" \in Calls
    /\ proc[p].pc = "idle"
    /\ \A i \in Listed : Readable(active[i].session)
    /\ \E i \in Ids : proc' = [proc EXCEPT ![p] =
         [pc |-> "sweep", id |-> i, to |-> "idle", seen |-> NoSession, at |-> 0,
          todo |-> {j \in Listed : Expired(j)}, sweeping |-> TRUE]]
    /\ UNCHANGED <<active, archived, fired>>

SweepNext(p) ==
    /\ proc[p].pc = "sweep"
    /\ \E i \in proc[p].todo :
         proc' = [proc EXCEPT ![p].pc = "check", ![p].id = i,
                              ![p].todo = @ \ {i}]
    /\ UNCHANGED <<active, archived, fired>>

SweepEnd(p) ==
    /\ proc[p].pc = "sweep"
    /\ proc[p].todo = {}
    /\ Return(p)
    /\ UNCHANGED <<active, archived, fired>>

---------------------------------------------------------------------------
(* Time, and what can go wrong. *)

(* Only sweeps look at the age of a session. *)
GrowStale(i) ==
    /\ "sweep" \in Calls
    /\ active[i].session.there
    /\ ~active[i].session.stale
    /\ active' = [active EXCEPT ![i].session.stale = TRUE]
    /\ UNCHANGED <<archived, fired, proc>>

Crash(p) ==
    /\ "crash" \in Faults
    /\ proc[p].pc # "idle"
    /\ Return(p)
    /\ UNCHANGED <<active, archived, fired>>

(* session.json is edited by hand, without its checksum, or damaged.       *)
Damage(i) ==
    /\ active[i].session.there
    /\ \E to \in Seal \ {"none", "valid"} :
         /\ to = "invalid" => "tamper" \in Faults
         /\ to = "garbled" => "garble" \in Faults
         /\ active' = [active EXCEPT ![i].session.seal = to]
    /\ UNCHANGED <<archived, fired, proc>>

DamagePoint(i) ==
    /\ "tamper" \in Faults
    /\ \E n \in DOMAIN active[i].points :
         active' = [active EXCEPT ![i].points[n] = "invalid"]
    /\ UNCHANGED <<archived, fired, proc>>

CallBegins(p) ==
    \/ CreateCall(p)
    \/ \E i \in Ids : \/ \E s \in States : UpdateCall(p, i, s)
                      \/ CheckpointCall(p, i)
                      \/ ArchiveCall(p, i)
    \/ SweepCall(p)

CallStep(p) ==
    \/ MakeDir(p) \/ CreateWrite1(p) \/ CreateWrite2(p)
    \/ UpdateRead(p) \/ UpdateWrite1(p) \/ UpdateWrite2(p)
    \/ SealPoint(p)
    \/ ArchiveCheck(p) \/ Move(p) \/ Note(p) \/ Extract(p)
    \/ SweepNext(p) \/ SweepEnd(p)

Next ==
    \/ \E p \in Procs : CallBegins(p) \/ CallStep(p) \/ Crash(p)
    \/ \E i \in Ids : GrowStale(i) \/ Damage(i) \/ DamagePoint(i)

Spec == Init /\ [][Next]_vars

(* A process that is in a call goes on with it. *)
FairSpec == Spec /\ \A p \in Procs : WF_vars(CallStep(p))

---------------------------------------------------------------------------
(* recover_session, a function of the session's directory. *)

GoodPoints(d) == {n \in DOMAIN d.points : d.points[n] = "valid"}

Recovery(d) ==
    IF d.session.there /\ d.session.seal = "garbled" THEN "raises"
    ELSE IF d.session.there /\ d.session.seal = "valid" THEN "session_json"
    ELSE IF Len(d.points) \in GoodPoints(d) THEN "checkpoint"
    ELSE IF GoodPoints(d) # {} THEN "checkpoint_fallback"
    ELSE "artifacts_or_nothing"

---------------------------------------------------------------------------
(* Correctness. *)

(* "Archive-time extraction only fires once per session"                   *)
(* (_persist_extraction_error): however creates, updates, archives and     *)
(* sweeps race on one id, its memory extraction is triggered once.         *)
ExtractOnce == \A i \in Ids : fired[i] <= 1

(* Once a session is archived nothing a call does changes its session.json *)
(* again, whoever still thinks it is active.                               *)
ArchivedIsFinal ==
    [][\A i \in Ids : archived[i].exists =>
            /\ archived'[i].exists
            /\ archived'[i].session = archived[i].session
            /\ archived'[i].points = archived[i].points]_vars

(* Exactly one process: an archived session has no session.json in active/ *)
(* again, crash or not; at most checkpoints are left there.  (Two processes *)
(* break this: an update that read before the move writes after it.)       *)
OnePlace == \A i \in Ids : active[i].session.there => ~archived[i].exists

(* Nobody is working on session i. *)
AtRest(i) == \A p \in Procs : proc[p].pc = "idle" \/ proc[p].id # i

(* Level 1: a session that only the manager has written, in calls that all *)
(* completed, recovers from session.json.                                  *)
IntactRecovers ==
    \A i \in Ids : AtRest(i) /\ active[i].session.there =>
        Recovery(active[i]) = "session_json"

(* Sweeps that are run again and again, and from some time on not killed,  *)
(* archive what stays expired, whatever earlier kills left behind.         *)
Sweep == \E p \in Procs : SweepCall(p)
StaleIsSwept ==
    /\ []<><<Sweep>>_vars
    /\ <>[][\A p \in Procs : Crash(p) => CallStep(p)]_vars
    =>
        \A i \in Ids : []((active[i].session.there /\ active[i].session.stale)
                => <>(~active[i].session.there \/ ~active[i].session.stale))
=============================================================================
