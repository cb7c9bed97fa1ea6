------------------------ MODULE SessionStore_proofs ------------------------
(***************************************************************************)
(* Proofs about SessionStore for any number of processes, sessions and     *)
(* checkpoints, all calls and all faults.                                  *)
(*                                                                         *)
(* What makes "triggered once" inductive is who may be past the rename:    *)
(* at most one process per id, with the archive in place and extraction    *)
(* not triggered yet; a triggered id keeps its archive, and an id that has *)
(* one is never renamed into again.                                        *)
(***************************************************************************)
EXTENDS SessionStore, WellFoundedInduction, TLAPS

PastMove(p) == proc[p].pc \in {"note", "extract"}

Owners ==
    /\ \A p \in Procs : PastMove(p) =>
          archived[proc[p].id].exists /\ fired[proc[p].id] = 0
    /\ \A p, q \in Procs : PastMove(p) /\ PastMove(q) /\ proc[p].id = proc[q].id
          => p = q

Fired == \A i \in Ids : fired[i] \in {0, 1} /\ (fired[i] = 1 => archived[i].exists)

IInv == TypeOK /\ Owners /\ Fired

---------------------------------------------------------------------------
(* Types of the parts of the state. *)

LEMMA BusyProc ==
    ASSUME TypeOK, NEW p \in Procs, proc[p].pc # "idle"
    PROVE  proc[p] \in Busy
BY DEF TypeOK, Idle

LEMMA Records ==
    /\ NoSession \in Session
    /\ NewSession \in Session
    /\ NoDir \in Dir
    /\ Idle \notin Busy
    /\ Idle.pc = "idle"
<1>1. NoSession \in Session /\ NewSession \in Session
  BY DEF NoSession, NewSession, Session, Seal
<1>2. NoDir \in Dir
  BY <1>1 DEF NoDir, Dir
<1> QED BY <1>1, <1>2 DEF Idle, Busy, PC

(* A step of one process that leaves the directories alone. *)
LEMMA ProcType ==
    ASSUME TypeOK, NEW p \in Procs, NEW n \in Busy \cup {Idle},
           proc' = [proc EXCEPT ![p] = n], UNCHANGED <<active, archived, fired>>
    PROVE  TypeOK'
BY DEF TypeOK

(* A step of one process that rewrites one active directory. *)
LEMMA DirType ==
    ASSUME TypeOK, NEW p \in Procs, NEW n \in Busy \cup {Idle},
           NEW i \in Ids, NEW d \in Dir, d.exists \/ d = NoDir,
           proc' = [proc EXCEPT ![p] = n], active' = [active EXCEPT ![i] = d],
           UNCHANGED <<archived, fired>>
    PROVE  TypeOK'
BY DEF TypeOK

(* A step of one process that neither enters nor is past the rename. *)
LEMMA Quiet ==
    ASSUME IInv, NEW p \in Procs, NEW n \in Busy \cup {Idle},
           n.pc \notin {"note", "extract"},
           proc' = [proc EXCEPT ![p] = n], UNCHANGED <<archived, fired>>
    PROVE  Owners' /\ Fired'
BY DEF IInv, TypeOK, Owners, Fired, PastMove

LEMMA QuietProc ==
    ASSUME IInv, NEW p \in Procs, NEW n \in Busy \cup {Idle},
           n.pc \notin {"note", "extract"},
           proc' = [proc EXCEPT ![p] = n], UNCHANGED <<active, archived, fired>>
    PROVE  IInv'
BY Quiet, ProcType DEF IInv

LEMMA QuietDir ==
    ASSUME IInv, NEW p \in Procs, NEW n \in Busy \cup {Idle},
           n.pc \notin {"note", "extract"},
           NEW i \in Ids, NEW d \in Dir, d.exists \/ d = NoDir,
           proc' = [proc EXCEPT ![p] = n], active' = [active EXCEPT ![i] = d],
           UNCHANGED <<archived, fired>>
    PROVE  IInv'
BY Quiet, DirType DEF IInv

(* Return, Goto and Finish as an update of proc[p]. *)
LEMMA ReturnStep ==
    ASSUME IInv, NEW p \in Procs, Return(p), UNCHANGED <<active, archived, fired>>
    PROVE  IInv'
BY Records, QuietProc, Idle \in Busy \cup {Idle} DEF Return

LEMMA GotoBusy ==
    ASSUME TypeOK, NEW p \in Procs, proc[p].pc # "idle", NEW pc \in PC
    PROVE  [proc[p] EXCEPT !.pc = pc] \in Busy
BY BusyProc DEF Busy

LEMMA GotoStep ==
    ASSUME IInv, NEW p \in Procs, proc[p].pc # "idle", NEW pc \in PC,
           pc \notin {"note", "extract"},
           Goto(p, pc), UNCHANGED <<active, archived, fired>>
    PROVE  IInv'
<1> DEFINE n == [proc[p] EXCEPT !.pc = pc]
<1>1. n \in Busy BY GotoBusy DEF IInv
<1>2. n.pc = pc BY BusyProc DEF IInv, Busy
<1>3. proc' = [proc EXCEPT ![p] = n] BY DEF Goto
<1> HIDE DEF n
<1> QED BY <1>1, <1>2, <1>3, QuietProc

LEMMA Finished ==
    ASSUME TypeOK, NEW p \in Procs, proc[p].pc # "idle", Finish(p)
    PROVE  \E n \in Busy \cup {Idle} :
              n.pc \in {"idle", "sweep"} /\ proc' = [proc EXCEPT ![p] = n]
<1> DEFINE n == IF proc[p].sweeping THEN [proc[p] EXCEPT !.pc = "sweep"] ELSE Idle
<1>1. [proc[p] EXCEPT !.pc = "sweep"] \in Busy BY GotoBusy DEF PC
<1>2. n \in Busy \cup {Idle} BY <1>1
<1>3. n.pc \in {"idle", "sweep"} BY BusyProc, Records DEF Busy
<1>4. proc' = [proc EXCEPT ![p] = n] BY DEF Finish
<1> HIDE DEF n
<1> QED BY <1>2, <1>3, <1>4

LEMMA FinishStep ==
    ASSUME IInv, NEW p \in Procs, proc[p].pc # "idle", Finish(p),
           UNCHANGED <<active, archived, fired>>
    PROVE  IInv'
<1> PICK n \in Busy \cup {Idle} :
            n.pc \in {"idle", "sweep"} /\ proc' = [proc EXCEPT ![p] = n]
  BY Finished DEF IInv
<1> QED BY QuietProc

(* SetSession writes a directory that exists. *)
LEMMA SetType ==
    ASSUME TypeOK, NEW i \in Ids, NEW s \in Session, SetSession(i, s)
    PROVE  \E d \in Dir : d.exists /\ active' = [active EXCEPT ![i] = d]
<1> DEFINE d == [active[i] EXCEPT !.exists = TRUE, !.session = s]
<1>1. active[i] \in Dir BY DEF TypeOK
<1>2. d \in Dir /\ d.exists BY <1>1 DEF Dir
<1>3. active' = [active EXCEPT ![i] = d] BY DEF SetSession
<1> HIDE DEF d
<1> QED BY <1>2, <1>3

LEMMA SetReturn ==
    ASSUME IInv, NEW p \in Procs, NEW i \in Ids, NEW s \in Session,
           SetSession(i, s), Return(p), UNCHANGED <<archived, fired>>
    PROVE  IInv'
<1> PICK d \in Dir : d.exists /\ active' = [active EXCEPT ![i] = d]
  BY SetType DEF IInv
<1> QED BY Records, QuietDir, Idle \in Busy \cup {Idle} DEF Return

LEMMA SetGoto ==
    ASSUME IInv, NEW p \in Procs, proc[p].pc # "idle", NEW pc \in PC,
           pc \notin {"note", "extract"}, NEW i \in Ids, NEW s \in Session,
           SetSession(i, s), Goto(p, pc), UNCHANGED <<archived, fired>>
    PROVE  IInv'
<1> DEFINE n == [proc[p] EXCEPT !.pc = pc]
<1>1. n \in Busy BY GotoBusy DEF IInv
<1>2. n.pc = pc BY BusyProc DEF IInv, Busy
<1>3. proc' = [proc EXCEPT ![p] = n] BY DEF Goto
<1>4. PICK d \in Dir : d.exists /\ active' = [active EXCEPT ![i] = d]
  BY SetType DEF IInv
<1> HIDE DEF n
<1> QED BY <1>1, <1>2, <1>3, <1>4, QuietDir

LEMMA EnterBusy ==
    ASSUME TypeOK, NEW p \in Procs, NEW pc \in PC, NEW i \in Ids,
           NEW to \in States \cup {"idle"}, Enter(p, pc, i, to)
    PROVE  \E n \in Busy : n.pc = pc /\ proc' = [proc EXCEPT ![p] = n]
<1> DEFINE n == [pc |-> pc, id |-> i, to |-> to, seen |-> NoSession,
                 at |-> Len(active[i].points) + 1, todo |-> {}, sweeping |-> FALSE]
<1>1. active[i].points \in Seq(Seal) BY DEF TypeOK, Dir
<1>2. Len(active[i].points) + 1 \in Nat BY <1>1
<1>3. n \in Busy BY <1>2, Records DEF Busy
<1>4. n.pc = pc OBVIOUS
<1>5. proc' = [proc EXCEPT ![p] = n] BY DEF Enter
<1> HIDE DEF n
<1> QED BY <1>3, <1>4, <1>5

LEMMA EnterStep ==
    ASSUME IInv, NEW p \in Procs, NEW pc \in PC, pc \notin {"note", "extract"},
           NEW i \in Ids, NEW to \in States \cup {"idle"}, Enter(p, pc, i, to),
           UNCHANGED <<active, archived, fired>>
    PROVE  IInv'
<1> PICK n \in Busy : n.pc = pc /\ proc' = [proc EXCEPT ![p] = n]
  BY EnterBusy DEF IInv
<1> QED BY QuietProc

---------------------------------------------------------------------------
(* One lemma per group of actions. *)

LEMMA CallBeginsKeeps ==
    ASSUME IInv, NEW p \in Procs, CallBegins(p)
    PROVE  IInv'
<1>1. CASE CreateCall(p)
  BY <1>1, EnterStep DEF CreateCall, PC
<1>2. CASE \E i \in Ids, s \in States : UpdateCall(p, i, s)
  BY <1>2, EnterStep DEF UpdateCall, PC
<1>3. CASE \E i \in Ids : ArchiveCall(p, i)
  BY <1>3, EnterStep DEF ArchiveCall, PC
<1>4. CASE \E i \in Ids : CheckpointCall(p, i)
  <2> PICK i \in Ids : CheckpointCall(p, i) BY <1>4
  <2> DEFINE d == [active[i] EXCEPT !.exists = TRUE,
                                    !.points = Append(active[i].points, "none")]
  <2>1. active[i] \in Dir
    BY DEF IInv, TypeOK
  <2>2. Append(active[i].points, "none") \in Seq(Seal)
    BY <2>1 DEF Dir, Seal
  <2>3. d \in Dir /\ d.exists BY <2>1, <2>2 DEF Dir
  <2>4. active' = [active EXCEPT ![i] = d] BY DEF CheckpointCall
  <2>5. PICK n \in Busy : n.pc = "seal_point" /\ proc' = [proc EXCEPT ![p] = n]
    BY EnterBusy DEF IInv, CheckpointCall, PC
  <2>6. UNCHANGED <<archived, fired>> BY DEF CheckpointCall
  <2> HIDE DEF d
  <2> QED BY <2>3, <2>4, <2>5, <2>6, QuietDir
<1>5. CASE SweepCall(p)
  <2> PICK i \in Ids : proc' = [proc EXCEPT ![p] =
         [pc |-> "sweep", id |-> i, to |-> "idle", seen |-> NoSession, at |-> 0,
          todo |-> {j \in Listed : Expired(j)}, sweeping |-> TRUE]]
    BY <1>5 DEF SweepCall
  <2> DEFINE n ==
         [pc |-> "sweep", id |-> i, to |-> "idle", seen |-> NoSession, at |-> 0,
          todo |-> {j \in Listed : Expired(j)}, sweeping |-> TRUE]
  <2>1. {j \in Listed : Expired(j)} \in SUBSET Ids BY DEF Listed
  <2>2. n \in Busy BY <2>1, Records DEF Busy, PC
  <2>3. n.pc = "sweep" OBVIOUS
  <2>4. UNCHANGED <<active, archived, fired>> BY <1>5 DEF SweepCall
  <2>5. proc' = [proc EXCEPT ![p] = n] OBVIOUS
  <2> HIDE DEF n
  <2> QED BY <2>2, <2>3, <2>4, <2>5, QuietProc
<1> QED BY <1>1, <1>2, <1>3, <1>4, <1>5 DEF CallBegins

LEMMA CreateKeeps ==
    ASSUME IInv, NEW p \in Procs,
           MakeDir(p) \/ CreateWrite1(p) \/ CreateWrite2(p)
    PROVE  IInv'
<1>0. proc[p].pc # "idle" /\ proc[p].id \in Ids
  BY BusyProc DEF IInv, MakeDir, CreateWrite1, CreateWrite2, Busy
<1>1. CASE MakeDir(p)
  <2> DEFINE i == proc[p].id
             d == [active[i] EXCEPT !.exists = TRUE]
             n == [proc[p] EXCEPT !.pc = "create_1"]
  <2>1. active[i] \in Dir BY <1>0 DEF IInv, TypeOK
  <2>2. d \in Dir /\ d.exists BY <2>1 DEF Dir
  <2>3. n \in Busy /\ n.pc = "create_1"
    BY <1>0, BusyProc DEF IInv, PC, Busy
  <2>4. /\ active' = [active EXCEPT ![i] = d]
        /\ proc' = [proc EXCEPT ![p] = n]
        /\ UNCHANGED <<archived, fired>>
    BY <1>1 DEF MakeDir, Goto
  <2>5. i \in Ids BY <1>0
  <2> HIDE DEF d, n, i
  <2> QED BY <2>2, <2>3, <2>4, <2>5, QuietDir
<1>2. CASE CreateWrite1(p)
  BY <1>0, <1>2, SetGoto, Records DEF CreateWrite1, PC
<1>3. CASE CreateWrite2(p)
  <2>1. [NewSession EXCEPT !.seal = "valid"] \in Session
    BY Records DEF Session, Seal
  <2> QED BY <1>0, <1>3, <2>1, SetReturn DEF CreateWrite2
<1> QED BY <1>1, <1>2, <1>3

LEMMA UpdateKeeps ==
    ASSUME IInv, NEW p \in Procs,
           UpdateRead(p) \/ UpdateWrite1(p) \/ UpdateWrite2(p)
    PROVE  IInv'
<1>0. proc[p].pc # "idle" /\ proc[p] \in Busy /\ proc[p].id \in Ids
  BY BusyProc DEF IInv, UpdateRead, UpdateWrite1, UpdateWrite2, Busy
<1>1. CASE UpdateRead(p)
  <2>1. CASE ~CanRead(proc[p].id)
    BY <1>1, <2>1, ReturnStep DEF UpdateRead
  <2>2. CASE CanRead(proc[p].id)
    <3> DEFINE n == [proc[p] EXCEPT !.pc = "update_1",
                                    !.seen = active[proc[p].id].session]
    <3>1. active[proc[p].id].session \in Session
      BY <1>0 DEF IInv, TypeOK, Dir
    <3>2. n \in Busy /\ n.pc = "update_1" BY <1>0, <3>1 DEF Busy, PC
    <3>3. proc' = [proc EXCEPT ![p] = n] /\ UNCHANGED <<active, archived, fired>>
      BY <1>1, <2>2 DEF UpdateRead
    <3> HIDE DEF n
    <3> QED BY <3>2, <3>3, QuietProc
  <2> QED BY <2>1, <2>2
<1>2. Updated(p) \in Session
  BY <1>0 DEF Updated, Busy, Session, Seal
<1>3. CASE UpdateWrite1(p)
  BY <1>0, <1>2, <1>3, SetGoto DEF UpdateWrite1, PC
<1>4. CASE UpdateWrite2(p)
  <2> DEFINE s == [Updated(p) EXCEPT !.seal = IF @ = "none" THEN "valid" ELSE @]
  <2>1. s \in Session BY <1>2 DEF Session, Seal
  <2>2. SetSession(proc[p].id, s) /\ Return(p) /\ UNCHANGED <<archived, fired>>
    BY <1>4 DEF UpdateWrite2
  <2> HIDE DEF s
  <2> QED BY <1>0, <2>1, <2>2, SetReturn
<1> QED BY <1>1, <1>3, <1>4

LEMMA SealPointKeeps ==
    ASSUME IInv, NEW p \in Procs, SealPoint(p)
    PROVE  IInv'
<1>0. proc[p] \in Busy BY BusyProc DEF IInv, SealPoint
<1> DEFINE i == proc[p].id
           s == active[i].points
           t == IF proc[p].at \in DOMAIN s THEN [s EXCEPT ![proc[p].at] = "valid"]
                ELSE Append(s, "valid")
           d == [active[i] EXCEPT !.exists = TRUE, !.points = t]
<1>1. i \in Ids /\ active[i] \in Dir BY <1>0 DEF Busy, IInv, TypeOK
<1>2. s \in Seq(Seal) BY <1>1 DEF Dir
<1>3. t \in Seq(Seal)
  <2>1. CASE proc[p].at \in DOMAIN s
    <3>1. [s EXCEPT ![proc[p].at] = "valid"] \in Seq(Seal)
      BY <1>2, <2>1 DEF Seal
    <3> QED BY <2>1, <3>1
  <2>2. CASE proc[p].at \notin DOMAIN s
    BY <1>2, <2>2 DEF Seal
  <2> QED BY <2>1, <2>2
<1> HIDE DEF t, s
<1>4. d \in Dir /\ d.exists BY <1>1, <1>3 DEF Dir
<1>5. active' = [active EXCEPT ![i] = d] BY DEF SealPoint, s, t
<1>6. Return(p) /\ UNCHANGED <<archived, fired>> BY DEF SealPoint
<1> HIDE DEF d, i
<1> QED BY <1>1, <1>4, <1>5, <1>6, Records, QuietDir, Idle \in Busy \cup {Idle}
        DEF Return

(* The rename: the archive of i is new, so nobody is past the rename of i. *)
LEMMA RenameKeeps ==
    ASSUME IInv, NEW p \in Procs, Move(p)
    PROVE  IInv'
<1>0. proc[p] \in Busy /\ proc[p].pc # "idle" /\ proc[p].id \in Ids
  BY BusyProc DEF IInv, Move, Busy
<1> DEFINE i == proc[p].id
           n == [proc[p] EXCEPT !.pc = "note"]
<1>1. CASE ~active[i].exists
  BY <1>0, <1>1, FinishStep, ReturnStep DEF Move
<1>2. CASE active[i].exists /\ archived[i].exists
  BY <1>2, ReturnStep DEF Move
<1>3. CASE active[i].exists /\ ~archived[i].exists
  <2>1. /\ archived' = [archived EXCEPT ![i] = active[i]]
        /\ active' = [active EXCEPT ![i] = NoDir]
        /\ proc' = [proc EXCEPT ![p] = n]
        /\ UNCHANGED fired
    BY <1>3 DEF Move, Goto
  <2>2. n \in Busy /\ n.pc = "note" /\ n.id = i
    BY <1>0 DEF Busy, PC
  <2>3. \A q \in Procs : PastMove(q) => proc[q].id # i
    BY <1>3 DEF IInv, Owners
  <2>4. fired[i] = 0 BY <1>0, <1>3 DEF IInv, Fired
  <2> HIDE DEF n
  <2>5. TypeOK' BY <1>0, <1>3, <2>1, <2>2, Records DEF IInv, TypeOK
  <2>6. Owners'
    <3>1. archived'[i].exists BY <1>0, <1>3, <2>1 DEF IInv, TypeOK
    <3>2. \A j \in Ids : archived[j].exists => archived'[j].exists
      BY <1>0, <1>3, <2>1 DEF IInv, TypeOK
    <3>3. \A q \in Procs : PastMove(q)' => q = p \/ (PastMove(q) /\ proc'[q] = proc[q])
      BY <2>1 DEF PastMove, IInv, TypeOK
    <3>4. \A q \in Procs : PastMove(q) => proc[q].id \in Ids
      BY BusyProc DEF IInv, PastMove, Busy
    <3>5. proc'[p].id = i BY <2>1, <2>2 DEF IInv, TypeOK
    <3> QED BY <2>1, <2>3, <2>4, <3>1, <3>2, <3>3, <3>4, <3>5 DEF IInv, Owners
  <2>7. Fired' BY <1>0, <1>3, <2>1 DEF IInv, TypeOK, Fired
  <2> QED BY <2>5, <2>6, <2>7 DEF IInv
<1> QED BY <1>1, <1>2, <1>3

LEMMA NoteKeeps ==
    ASSUME IInv, NEW p \in Procs, Note(p)
    PROVE  IInv'
<1> DEFINE i == proc[p].id
           n == [proc[p] EXCEPT !.pc = "extract"]
           d == [archived[i] EXCEPT !.noted = TRUE]
<1>0. proc[p] \in Busy /\ i \in Ids /\ PastMove(p)
  BY BusyProc DEF IInv, Note, Busy, PastMove
<1>1. archived[i] \in Dir /\ archived[i].exists
  BY <1>0 DEF IInv, TypeOK, Owners
<1>2. d \in Dir /\ d.exists BY <1>1 DEF Dir
<1>3. /\ archived' = [archived EXCEPT ![i] = d]
      /\ proc' = [proc EXCEPT ![p] = n]
      /\ UNCHANGED <<active, fired>>
  BY DEF Note, Goto
<1>4. n \in Busy /\ n.pc = "extract" /\ n.id = i BY <1>0 DEF Busy, PC
<1> HIDE DEF n, d
<1>5. TypeOK' BY <1>0, <1>2, <1>3, <1>4 DEF IInv, TypeOK
<1>6. Owners'
  <2>1. \A q \in Procs : PastMove(q)' => PastMove(q) /\ proc'[q].id = proc[q].id
    BY <1>0, <1>3, <1>4 DEF PastMove, IInv, TypeOK
  <2>2. \A j \in Ids : archived[j].exists => archived'[j].exists
    BY <1>2, <1>3 DEF IInv, TypeOK
  <2>3. \A q \in Procs : PastMove(q) => proc[q].id \in Ids
    BY BusyProc DEF IInv, PastMove, Busy
  <2> QED BY <1>3, <2>1, <2>2, <2>3 DEF IInv, Owners
<1>7. Fired' BY <1>2, <1>3 DEF IInv, TypeOK, Fired
<1> QED BY <1>5, <1>6, <1>7 DEF IInv

LEMMA ExtractKeeps ==
    ASSUME IInv, NEW p \in Procs, Extract(p)
    PROVE  IInv'
<1> DEFINE i == proc[p].id
           s == archived[i].session
<1>0. proc[p] \in Busy /\ proc[p].pc # "idle" /\ i \in Ids /\ PastMove(p)
  BY BusyProc DEF IInv, Extract, Busy, PastMove
<1>1. CASE ~(s.there /\ Readable(s))
  BY <1>0, <1>1, FinishStep, ReturnStep DEF Extract
<1>2. CASE s.there /\ Readable(s)
  <2>1. fired' = [fired EXCEPT ![i] = fired[i] + 1] /\ UNCHANGED <<active, archived>>
    BY <1>2 DEF Extract
  <2>2. PICK n \in Busy \cup {Idle} :
            n.pc \in {"idle", "sweep"} /\ proc' = [proc EXCEPT ![p] = n]
    BY <1>0, <1>2, Finished DEF Extract, IInv
  <2>3. fired[i] = 0 /\ archived[i].exists BY <1>0 DEF IInv, Owners
  <2>4. \A q \in Procs : PastMove(q)' => PastMove(q) /\ q # p /\ proc'[q] = proc[q]
    BY <2>2 DEF PastMove, IInv, TypeOK
  <2>5. \A q \in Procs \ {p} : PastMove(q) => proc[q].id # i
    BY <1>0 DEF IInv, Owners
  <2>6. TypeOK' BY <2>1, <2>2, <2>3, <1>0 DEF IInv, TypeOK
  <2>7. Owners'
    <3>1. \A q \in Procs : PastMove(q)' => fired'[proc'[q].id] = fired[proc[q].id]
      BY <2>1, <2>4, <2>5 DEF IInv, TypeOK
    <3> QED BY <2>1, <2>4, <3>1 DEF IInv, Owners
  <2>8. Fired' BY <1>0, <2>1, <2>3 DEF IInv, TypeOK, Fired
  <2> QED BY <2>6, <2>7, <2>8 DEF IInv
<1> QED BY <1>1, <1>2

LEMMA SweepKeeps ==
    ASSUME IInv, NEW p \in Procs,
           ArchiveCheck(p) \/ SweepNext(p) \/ SweepEnd(p)
    PROVE  IInv'
<1>0. proc[p] \in Busy /\ proc[p].pc # "idle"
  BY BusyProc DEF IInv, ArchiveCheck, SweepNext, SweepEnd
<1>1. CASE ArchiveCheck(p)
  BY <1>0, <1>1, FinishStep, ReturnStep, GotoStep DEF ArchiveCheck, PC
<1>2. CASE SweepNext(p)
  <2> PICK i \in proc[p].todo :
        proc' = [proc EXCEPT ![p].pc = "check", ![p].id = i, ![p].todo = @ \ {i}]
    BY <1>2 DEF SweepNext
  <2> DEFINE n == [proc[p] EXCEPT !.pc = "check", !.id = i, !.todo = @ \ {i}]
  <2>1. n \in Busy /\ n.pc = "check" BY <1>0 DEF Busy, PC
  <2>2. proc' = [proc EXCEPT ![p] = n] OBVIOUS
  <2>3. UNCHANGED <<active, archived, fired>> BY <1>2 DEF SweepNext
  <2> HIDE DEF n
  <2> QED BY <2>1, <2>2, <2>3, QuietProc
<1>3. CASE SweepEnd(p)
  BY <1>3, ReturnStep DEF SweepEnd
<1> QED BY <1>1, <1>2, <1>3

(* Time and damage rewrite one active directory and nothing else.          *)
LEMMA OutsideKeeps ==
    ASSUME IInv, NEW i \in Ids, GrowStale(i) \/ Damage(i) \/ DamagePoint(i)
    PROVE  IInv'
<1>0. active[i] \in Dir BY DEF IInv, TypeOK
<1>1. UNCHANGED <<archived, fired, proc>>
  BY DEF GrowStale, Damage, DamagePoint
<1>2. \E d \in Dir : d.exists /\ active' = [active EXCEPT ![i] = d]
  <2>1. CASE GrowStale(i)
    <3> DEFINE d == [active[i] EXCEPT !.session.stale = TRUE]
    <3>1. active[i].exists BY <2>1 DEF GrowStale, IInv, TypeOK, NoDir, NoSession
    <3>2. d \in Dir /\ d.exists BY <1>0, <3>1 DEF Dir, Session
    <3>3. active' = [active EXCEPT ![i] = d] BY <2>1 DEF GrowStale
    <3> HIDE DEF d
    <3> QED BY <3>2, <3>3
  <2>2. CASE Damage(i)
    <3> PICK to \in Seal : active' = [active EXCEPT ![i].session.seal = to]
      BY <2>2 DEF Damage
    <3> DEFINE d == [active[i] EXCEPT !.session.seal = to]
    <3>1. active[i].exists BY <2>2 DEF Damage, IInv, TypeOK, NoDir, NoSession
    <3>2. d \in Dir /\ d.exists BY <1>0, <3>1 DEF Dir, Session
    <3>3. active' = [active EXCEPT ![i] = d] OBVIOUS
    <3> HIDE DEF d
    <3> QED BY <3>2, <3>3
  <2>3. CASE DamagePoint(i)
    <3> DEFINE s == active[i].points
    <3> PICK k \in DOMAIN s : active' = [active EXCEPT ![i].points[k] = "invalid"]
      BY <2>3 DEF DamagePoint
    <3> DEFINE t == [s EXCEPT ![k] = "invalid"]
               d == [active[i] EXCEPT !.points = t]
    <3>1. active[i].exists
      <4> SUFFICES ASSUME ~active[i].exists PROVE FALSE OBVIOUS
      <4>1. s = <<>> BY DEF IInv, TypeOK, NoDir
      <4> QED BY <4>1
    <3>2. s \in Seq(Seal) BY <1>0 DEF Dir
    <3>3. t \in Seq(Seal) BY <3>2 DEF Seal
    <3>4. active' = [active EXCEPT ![i] = d] OBVIOUS
    <3> HIDE DEF t
    <3>5. d \in Dir /\ d.exists BY <1>0, <3>1, <3>3 DEF Dir
    <3> HIDE DEF d
    <3> QED BY <3>4, <3>5
  <2> QED BY <2>1, <2>2, <2>3
<1>3. PICK d \in Dir : d.exists /\ active' = [active EXCEPT ![i] = d] BY <1>2
<1>4. TypeOK' BY <1>1, <1>3 DEF IInv, TypeOK
<1>5. Owners' /\ Fired' BY <1>1 DEF IInv, Owners, Fired, PastMove
<1> QED BY <1>4, <1>5 DEF IInv

---------------------------------------------------------------------------
LEMMA InitIInv == Init => IInv
<1> SUFFICES ASSUME Init PROVE IInv OBVIOUS
<1>1. TypeOK BY Records DEF Init, TypeOK
<1>2. \A p \in Procs : ~PastMove(p) BY DEF Init, Idle, PastMove
<1>3. Owners /\ Fired BY <1>2 DEF Init, Owners, Fired
<1> QED BY <1>1, <1>3 DEF IInv

LEMMA NextIInv == IInv /\ [Next]_vars => IInv'
<1> SUFFICES ASSUME IInv, [Next]_vars PROVE IInv' OBVIOUS
<1>1. CASE UNCHANGED vars
  BY <1>1 DEF vars, IInv, TypeOK, Owners, Fired, PastMove
<1>2. ASSUME NEW p \in Procs, CallStep(p) PROVE IInv'
  BY <1>2, CreateKeeps, UpdateKeeps, SealPointKeeps, RenameKeeps, NoteKeeps,
     ExtractKeeps, SweepKeeps DEF CallStep
<1>3. ASSUME NEW p \in Procs, Crash(p) PROVE IInv'
  BY <1>3, ReturnStep DEF Crash
<1> QED BY <1>1, <1>2, <1>3, CallBeginsKeeps, OutsideKeeps DEF Next

LEMMA Inductive == Spec => []IInv
BY InitIInv, NextIInv, PTL DEF Spec

(* Every part of the state keeps its type; a directory that is not there   *)
(* holds nothing.                                                          *)
THEOREM TypeCorrect == Spec => []TypeOK
<1>1. IInv => TypeOK BY DEF IInv
<1> QED BY <1>1, Inductive, PTL

(* Memory extraction is triggered at most once per session, however calls  *)
(* race on it and wherever they are killed.                                *)
THEOREM ExtractionFiresOnce == Spec => []ExtractOnce
<1>1. IInv => ExtractOnce BY DEF IInv, Fired, ExtractOnce
<1> QED BY <1>1, Inductive, PTL

(* An archived session is never rewritten, not by a stale update, a second *)
(* archive or a sweep.                                                     *)
THEOREM ArchiveImmutable == Spec => ArchivedIsFinal
<1> DEFINE Final == \A i \in Ids : archived[i].exists =>
                       /\ archived'[i].exists
                       /\ archived'[i].session = archived[i].session
                       /\ archived'[i].points = archived[i].points
<1>1. IInv /\ [Next]_vars => [Final]_vars
  <2> SUFFICES ASSUME IInv, Next PROVE Final BY DEF vars
  <2>1. CASE UNCHANGED archived BY <2>1
  <2>2. ASSUME NEW p \in Procs, Move(p) PROVE Final
    <3>1. proc[p].id \in Ids BY <2>2, BusyProc DEF IInv, Move, Busy
    <3> QED BY <2>2, <3>1 DEF Move, IInv, TypeOK
  <2>3. ASSUME NEW p \in Procs, Note(p) PROVE Final
    <3>1. archived \in [Ids -> Dir] BY Zenon DEF IInv, TypeOK
    <3> QED BY <2>3, <3>1 DEF Note, Dir
  <2>4. UNCHANGED archived \/ \E p \in Procs : Move(p) \/ Note(p)
    BY DEF Next, CallBegins, CallStep, CreateCall, UpdateCall, CheckpointCall,
       ArchiveCall, SweepCall, MakeDir, CreateWrite1, CreateWrite2, UpdateRead,
       UpdateWrite1, UpdateWrite2, SealPoint, ArchiveCheck, Extract, SweepNext,
       SweepEnd, Crash, GrowStale, Damage, DamagePoint
  <2> QED BY <2>1, <2>2, <2>3, <2>4
<1> QED BY <1>1, Inductive, PTL DEF Spec, ArchivedIsFinal


---------------------------------------------------------------------------
(* One process: a call that is going to write a session.json in active/    *)
(* works on a session that has no archive, because nobody moves it away    *)
(* meanwhile.  Checkpoints are written for any id, but they leave          *)
(* session.json alone.                                                     *)
Writing(p) == proc[p].pc \in {"mkdir", "create_1", "create_2", "update_1", "update_2"}

Alone == \A p, q \in Procs : p = q

OInv ==
    /\ TypeOK
    /\ OnePlace
    /\ \A p \in Procs : Writing(p) => ~archived[proc[p].id].exists

LEMMA Least ==
    ASSUME NEW T, T \subseteq Nat, T # {}
    PROVE  \E x \in T : \A y \in T : x <= y
<1> DEFINE R == {ss \in Nat \X Nat : ss[1] < ss[2]}
<1>1. IsWellFoundedOn(R, Nat)
  BY NatLessThanWellFounded DEF OpToRel
<1> HIDE DEF R
<1>2. PICK x \in T : \A y \in T : ~ (<<y, x>> \in R)
  BY <1>1, WFMin
<1>3. \A y \in T : ~ (y < x)
  BY <1>2 DEF R
<1> QED
  BY <1>2, <1>3

(* The number that _generate_session_id returns is not in use. *)
LEMMA NextIdIsNew ==
    ASSUME NEW used \in SUBSET Ids
    PROVE  NextId(used) \notin used
<1> DEFINE T == {n \in 1 .. MaxId + 1 : \A m \in used : m < n}
<1>1. MaxId \in Nat /\ used \subseteq 1 .. MaxId
  BY SessionAssumption DEF Ids
<1>2. T \subseteq Nat /\ MaxId + 1 \in T
  BY <1>1
<1> HIDE DEF T
<1>3. PICK n \in T : \A k \in T : n <= k
  BY <1>2, Least
<1>4. n \in 1 .. MaxId + 1 /\ \A m \in used : m < n
  BY DEF T
<1>5. n = 1 \/ n - 1 \in used
  <2> SUFFICES ASSUME n # 1 PROVE n - 1 \in used
    OBVIOUS
  <2>1. n - 1 \in 1 .. MaxId + 1 /\ ~ (n <= n - 1)
    BY <1>1, <1>4
  <2>2. n - 1 \notin T
    BY <1>3, <2>1
  <2>3. PICK m \in used : ~ (m < n - 1)
    BY <2>1, <2>2 DEF T
  <2>4. m = n - 1
    BY <1>1, <1>4, <2>1, <2>3
  <2> QED
    BY <2>4
<1>6. \A m \in used : m < NextId(used)
  BY <1>4, <1>5 DEF NextId
<1>7. \A m \in used : m \in Nat
  BY <1>1
<1> QED
  BY <1>6, <1>7

(* A step of the one process that leaves the directories alone. *)
LEMMA PlaceKept ==
    ASSUME Alone, OInv, NEW p \in Procs, NEW n \in Busy \cup {Idle}, TypeOK',
           proc' = [proc EXCEPT ![p] = n], UNCHANGED <<active, archived>>,
           n.pc \in {"mkdir", "create_1", "create_2", "update_1", "update_2"} =>
               ~archived[n.id].exists
    PROVE  OInv'
<1>1. proc'[p] = n
  BY DEF OInv, TypeOK
<1>2. \A q \in Procs : proc'[q] = n
  BY <1>1 DEF Alone
<1> QED
  BY <1>2 DEF OInv, OnePlace, Writing

(* One that writes in the active directory of a session without archive.   *)
LEMMA PlaceWritten ==
    ASSUME Alone, OInv, NEW p \in Procs, NEW n \in Busy \cup {Idle}, TypeOK',
           proc' = [proc EXCEPT ![p] = n], NEW i \in Ids, ~archived[i].exists, NEW d,
           active' = [active EXCEPT ![i] = d], UNCHANGED archived,
           n.pc = "idle" \/ n.id = i
    PROVE  OInv'
<1>1. proc'[p] = n
  BY DEF OInv, TypeOK
<1>2. \A q \in Procs : proc'[q] = n
  BY <1>1 DEF Alone
<1>3. OnePlace'
  BY DEF OInv, OnePlace, TypeOK
<1> QED
  BY <1>2, <1>3 DEF OInv, Writing

(* One that leaves every session.json alone and does not go on to write one. *)
LEMMA PlacePoints ==
    ASSUME Alone, OInv, NEW p \in Procs, NEW n \in Busy \cup {Idle}, TypeOK',
           proc' = [proc EXCEPT ![p] = n], n.pc \in {"idle", "seal_point"},
           NEW i \in Ids, NEW d, d.session = active[i].session,
           active' = [active EXCEPT ![i] = d], UNCHANGED archived
    PROVE  OInv'
<1>1. \A q \in Procs : proc'[q] = n
  BY DEF OInv, TypeOK, Alone
<1>2. \A j \in Ids : active'[j].session = active[j].session
  BY DEF OInv, TypeOK
<1>3. OnePlace'
  BY <1>2 DEF OInv, OnePlace
<1> QED
  BY <1>1, <1>3 DEF OInv, Writing


LEMMA PlaceBegins ==
    ASSUME Alone, OInv, NEW p \in Procs, CallBegins(p), TypeOK'
    PROVE  OInv'
<1>0. TypeOK
  BY DEF OInv
<1>1. ASSUME NEW pc \in PC, NEW i \in Ids, NEW to \in States \cup {"idle"}, Enter(p, pc, i, to)
      PROVE  \E n \in Busy : /\ n.pc = pc /\ n.id = i
                             /\ proc' = [proc EXCEPT ![p] = n]
  <2> DEFINE n == [pc |-> pc, id |-> i, to |-> to, seen |-> NoSession,
                   at |-> Len(active[i].points) + 1, todo |-> {}, sweeping |-> FALSE]
  <2>1. active[i].points \in Seq(Seal) BY <1>0 DEF TypeOK, Dir
  <2>2. Len(active[i].points) + 1 \in Nat BY <2>1
  <2>3. n \in Busy BY <2>2, Records DEF Busy
  <2>4. n.pc = pc /\ n.id = i OBVIOUS
  <2>5. proc' = [proc EXCEPT ![p] = n] BY <1>1 DEF Enter
  <2> HIDE DEF n
  <2> QED BY <2>3, <2>4, <2>5
<1>2. CASE CreateCall(p)
  <2>1. PICK i \in Ids : i = NextId(Used) /\ Enter(p, "mkdir", i, "idle")
    BY <1>2 DEF CreateCall
  <2>2. i \notin Used
    <3>1. Used \in SUBSET Ids
      BY DEF Used
    <3> QED
      BY <2>1, <3>1, NextIdIsNew
  <2>3. ~archived[i].exists
    BY <2>2 DEF Used
  <2>4. PICK n \in Busy : n.pc = "mkdir" /\ n.id = i /\ proc' = [proc EXCEPT ![p] = n]
    BY <1>1, <2>1 DEF PC
  <2> QED
    BY <1>2, <2>3, <2>4, PlaceKept DEF CreateCall
<1>3. ASSUME NEW i \in Ids, NEW s \in States, UpdateCall(p, i, s) PROVE OInv'
  <2>1. PICK n \in Busy : n.pc = "read" /\ n.id = i /\ proc' = [proc EXCEPT ![p] = n]
    BY <1>1, <1>3 DEF UpdateCall, PC
  <2> QED
    BY <1>3, <2>1, PlaceKept DEF UpdateCall
<1>4. ASSUME NEW i \in Ids, ArchiveCall(p, i) PROVE OInv'
  <2>1. PICK n \in Busy : n.pc = "check" /\ n.id = i /\ proc' = [proc EXCEPT ![p] = n]
    BY <1>1, <1>4 DEF ArchiveCall, PC
  <2> QED
    BY <1>4, <2>1, PlaceKept DEF ArchiveCall
<1>5. ASSUME NEW i \in Ids, CheckpointCall(p, i) PROVE OInv'
  <2>1. PICK n \in Busy : n.pc = "seal_point" /\ n.id = i /\ proc' = [proc EXCEPT ![p] = n]
    BY <1>1, <1>5 DEF CheckpointCall, PC
  <2> DEFINE d == [active[i] EXCEPT !.exists = TRUE,
                                    !.points = Append(active[i].points, "none")]
  <2>2. d.session = active[i].session
    BY <1>0 DEF TypeOK, Dir
  <2>3. active' = [active EXCEPT ![i] = d] /\ UNCHANGED archived
    BY <1>5 DEF CheckpointCall
  <2> HIDE DEF d
  <2> QED
    BY <2>1, <2>2, <2>3, PlacePoints
<1>6. CASE SweepCall(p)
  <2>1. PICK i \in Ids : proc' = [proc EXCEPT ![p] =
         [pc |-> "sweep", id |-> i, to |-> "idle", seen |-> NoSession, at |-> 0,
          todo |-> {j \in Listed : Expired(j)}, sweeping |-> TRUE]]
    BY <1>6 DEF SweepCall
  <2> DEFINE n ==
         [pc |-> "sweep", id |-> i, to |-> "idle", seen |-> NoSession, at |-> 0,
          todo |-> {j \in Listed : Expired(j)}, sweeping |-> TRUE]
  <2>2. {j \in Listed : Expired(j)} \in SUBSET Ids BY DEF Listed
  <2>3. n \in Busy BY <2>2, Records DEF Busy, PC
  <2>4. n.pc = "sweep" OBVIOUS
  <2>5. UNCHANGED <<active, archived>> BY <1>6 DEF SweepCall
  <2> HIDE DEF n
  <2> QED BY <2>1, <2>3, <2>4, <2>5, PlaceKept DEF n
<1> QED
  BY <1>2, <1>3, <1>4, <1>5, <1>6 DEF CallBegins

(* Return, Goto and Finish. *)
LEMMA PlaceIdle ==
    ASSUME Alone, OInv, NEW p \in Procs, TypeOK', Return(p), UNCHANGED <<active, archived>>
    PROVE  OInv'
BY Records, PlaceKept, Idle \in Busy \cup {Idle} DEF Return

LEMMA PlaceGoto ==
    ASSUME Alone, OInv, NEW p \in Procs, TypeOK', proc[p].pc # "idle", NEW pc \in PC,
           ~archived[proc[p].id].exists \/ pc \in {"check", "move", "note", "extract", "sweep"},
           Goto(p, pc), UNCHANGED <<active, archived>>
    PROVE  OInv'
<1> DEFINE n == [proc[p] EXCEPT !.pc = pc]
<1>1. n \in Busy BY GotoBusy DEF OInv
<1>2. n.pc = pc /\ n.id = proc[p].id BY BusyProc DEF OInv, Busy
<1>3. proc' = [proc EXCEPT ![p] = n] BY DEF Goto
<1> HIDE DEF n
<1> QED BY <1>1, <1>2, <1>3, PlaceKept

LEMMA PlaceFinish ==
    ASSUME Alone, OInv, NEW p \in Procs, TypeOK', proc[p].pc # "idle", Finish(p),
           UNCHANGED <<active, archived>>
    PROVE  OInv'
<1> PICK n \in Busy \cup {Idle} :
            n.pc \in {"idle", "sweep"} /\ proc' = [proc EXCEPT ![p] = n]
  BY Finished DEF OInv
<1> QED BY PlaceKept

LEMMA PlaceWrites ==
    ASSUME Alone, OInv, NEW p \in Procs, TypeOK',
           MakeDir(p) \/ CreateWrite1(p) \/ CreateWrite2(p) \/ UpdateWrite1(p)
             \/ UpdateWrite2(p)
    PROVE  OInv'
<1> DEFINE i == proc[p].id
<1>1. Writing(p) /\ proc[p].pc # "idle" /\ TypeOK
  BY DEF OInv, MakeDir, CreateWrite1, CreateWrite2, UpdateWrite1, UpdateWrite2, Writing
<1>2. i \in Ids /\ ~archived[i].exists
  BY <1>1, BusyProc DEF OInv, Busy
<1>3. UNCHANGED archived /\ \E d : active' = [active EXCEPT ![i] = d]
  BY DEF MakeDir, CreateWrite1, CreateWrite2, UpdateWrite1, UpdateWrite2, SetSession
<1>4. Return(p) \/ \E pc \in PC : Goto(p, pc)
  BY DEF MakeDir, CreateWrite1, CreateWrite2, UpdateWrite1, UpdateWrite2, PC
<1>5. \E n \in Busy \cup {Idle} : /\ n.pc = "idle" \/ n.id = i
                                  /\ proc' = [proc EXCEPT ![p] = n]
  <2>1. CASE Return(p)
    BY <2>1, Records DEF Return
  <2>2. ASSUME NEW pc \in PC, Goto(p, pc)
        PROVE  \E n \in Busy : n.id = i /\ proc' = [proc EXCEPT ![p] = n]
    <3> DEFINE n == [proc[p] EXCEPT !.pc = pc]
    <3>1. n \in Busy BY <1>1, GotoBusy
    <3>2. n.id = i BY <1>1, BusyProc DEF Busy
    <3>3. proc' = [proc EXCEPT ![p] = n] BY <2>2 DEF Goto
    <3> HIDE DEF n
    <3> QED BY <3>1, <3>2, <3>3
  <2> QED
    BY <1>4, <2>1, <2>2
<1> HIDE DEF i
<1> QED
  BY <1>2, <1>3, <1>5, PlaceWritten

LEMMA PlaceSeals ==
    ASSUME Alone, OInv, NEW p \in Procs, TypeOK', SealPoint(p)
    PROVE  OInv'
<1> DEFINE i == proc[p].id
           s == active[i].points
           d == [active[i] EXCEPT !.exists = TRUE,
                   !.points = IF proc[p].at \in DOMAIN s THEN [s EXCEPT ![proc[p].at] = "valid"]
                              ELSE Append(s, "valid")]
<1>1. TypeOK /\ i \in Ids
  BY BusyProc DEF OInv, SealPoint, Busy
<1>2. d.session = active[i].session
  BY <1>1 DEF TypeOK, Dir
<1>3. active' = [active EXCEPT ![i] = d] /\ UNCHANGED archived
  BY DEF SealPoint
<1>4. proc' = [proc EXCEPT ![p] = Idle] /\ Idle.pc = "idle"
  BY Records DEF SealPoint, Return
<1> HIDE DEF d, i
<1> QED
  BY <1>1, <1>2, <1>3, <1>4, PlacePoints, Idle \in Busy \cup {Idle}

LEMMA PlaceMoves ==
    ASSUME Alone, OInv, NEW p \in Procs, TypeOK', Move(p)
    PROVE  OInv'
<1> DEFINE i == proc[p].id
<1>1. TypeOK /\ proc[p].pc # "idle" /\ i \in Ids
  BY BusyProc DEF OInv, Move, Busy
<1>2. CASE ~active[i].exists
  BY <1>1, <1>2, PlaceFinish, PlaceIdle DEF Move
<1>3. CASE active[i].exists /\ archived[i].exists
  BY <1>3, PlaceIdle DEF Move
<1>4. CASE active[i].exists /\ ~archived[i].exists
  <2>1. /\ archived' = [archived EXCEPT ![i] = active[i]]
        /\ active' = [active EXCEPT ![i] = NoDir]
        /\ proc'[p].pc = "note"
    <3>1. proc[p] \in Busy BY <1>1, BusyProc
    <3> QED BY <1>1, <1>4, <3>1 DEF Move, Goto, TypeOK, Busy
  <2>2. OnePlace'
    <3>1. ~NoDir.session.there BY DEF NoDir, NoSession
    <3> QED BY <1>1, <2>1, <3>1 DEF OInv, OnePlace, TypeOK
  <2>3. \A q \in Procs : ~Writing(q)'
    BY <2>1 DEF Alone, Writing
  <2> QED BY <2>2, <2>3 DEF OInv
<1> QED
  BY <1>2, <1>3, <1>4

LEMMA PlaceSteps ==
    ASSUME Alone, OInv, NEW p \in Procs, TypeOK', CallStep(p)
    PROVE  OInv'
<1>1. CASE UpdateRead(p)
  <2>1. proc[p].pc = "read" /\ proc[p].pc # "idle" /\ TypeOK
    BY <1>1 DEF UpdateRead, OInv
  <2>2. proc[p] \in Busy /\ proc[p].id \in Ids
    BY <2>1, BusyProc DEF Busy
  <2>3. CASE ~CanRead(proc[p].id)
    BY <1>1, <2>3, PlaceIdle DEF UpdateRead
  <2>4. CASE CanRead(proc[p].id)
    <3> DEFINE n == [proc[p] EXCEPT !.pc = "update_1",
                                    !.seen = active[proc[p].id].session]
    <3>1. active[proc[p].id].session \in Session
      BY <2>1, <2>2 DEF TypeOK, Dir
    <3>2. n \in Busy /\ n.pc = "update_1" /\ n.id = proc[p].id
      BY <2>2, <3>1 DEF Busy, PC
    <3>3. proc' = [proc EXCEPT ![p] = n] /\ UNCHANGED <<active, archived, fired>>
      BY <1>1, <2>4 DEF UpdateRead
    <3>4. ~archived[proc[p].id].exists
      BY <2>2, <2>4 DEF OInv, OnePlace, CanRead
    <3> HIDE DEF n
    <3> QED BY <3>2, <3>3, <3>4, PlaceKept
  <2> QED BY <2>3, <2>4
<1>2. CASE ArchiveCheck(p)
  <2>1. proc[p].pc # "idle"
    BY <1>2 DEF ArchiveCheck
  <2>2. UNCHANGED <<active, archived>> /\ (Finish(p) \/ Return(p) \/ Goto(p, "move"))
    BY <1>2 DEF ArchiveCheck
  <2> QED
    BY <2>1, <2>2, PlaceFinish, PlaceIdle, PlaceGoto DEF PC
<1>3. CASE Note(p)
  <2>1. proc[p] \in Busy /\ proc[p].id \in Ids /\ TypeOK
    BY <1>3, BusyProc DEF Note, OInv, Busy
  <2>2. \A j \in Ids : archived'[j].exists <=> archived[j].exists
    <3>1. archived[proc[p].id] \in Dir BY <2>1 DEF TypeOK
    <3> QED BY <1>3, <2>1, <3>1 DEF Note, TypeOK, Dir
  <2>3. OnePlace'
    BY <1>3, <2>2 DEF Note, OInv, OnePlace
  <2>4. proc'[p].pc = "extract"
    BY <1>3, <2>1 DEF Note, Goto, TypeOK, Busy
  <2>5. \A q \in Procs : ~Writing(q)'
    BY <2>4 DEF Alone, Writing
  <2> QED
    BY <2>3, <2>5 DEF OInv
<1>4. CASE Extract(p)
  <2>1. proc[p].pc # "idle" /\ UNCHANGED <<active, archived>> /\ (Finish(p) \/ Return(p))
    BY <1>4 DEF Extract
  <2> QED
    BY <2>1, PlaceFinish, PlaceIdle
<1>5. CASE SweepNext(p)
  <2>1. PICK i \in proc[p].todo :
        proc' = [proc EXCEPT ![p].pc = "check", ![p].id = i, ![p].todo = @ \ {i}]
    BY <1>5 DEF SweepNext
  <2>2. proc[p] \in Busy
    BY <1>5, BusyProc DEF SweepNext, OInv
  <2> DEFINE n == [proc[p] EXCEPT !.pc = "check", !.id = i, !.todo = @ \ {i}]
  <2>3. n \in Busy /\ n.pc = "check" BY <2>2 DEF Busy, PC
  <2>4. proc' = [proc EXCEPT ![p] = n] BY <2>1
  <2>5. UNCHANGED <<active, archived>> BY <1>5 DEF SweepNext
  <2> HIDE DEF n
  <2> QED BY <2>3, <2>4, <2>5, PlaceKept
<1>6. CASE SweepEnd(p)
  BY <1>6, PlaceIdle DEF SweepEnd
<1> QED
  BY <1>1, <1>2, <1>3, <1>4, <1>5, <1>6, PlaceWrites, PlaceSeals, PlaceMoves DEF CallStep


(* Age and damage make or remove no session.json. *)
LEMMA OutsidePlace ==
    ASSUME OInv, NEW i \in Ids, GrowStale(i) \/ Damage(i) \/ DamagePoint(i), TypeOK'
    PROVE  OInv'
<1>1. UNCHANGED <<archived, proc>> /\ TypeOK
  BY DEF GrowStale, Damage, DamagePoint, OInv
<1>2. \A j \in Ids : j # i => active'[j] = active[j]
  BY <1>1 DEF GrowStale, Damage, DamagePoint, TypeOK
<1>3. active'[i].session.there = active[i].session.there
  <2>1. active[i] \in Dir /\ active[i].session \in Session
    BY <1>1 DEF TypeOK, Dir
  <2>2. CASE GrowStale(i)
    <3>1. active' = [active EXCEPT ![i].session.stale = TRUE]
      BY <2>2 DEF GrowStale
    <3> QED BY <1>1, <2>1, <3>1 DEF TypeOK, Dir, Session
  <2>3. CASE Damage(i)
    <3>1. PICK to : active' = [active EXCEPT ![i].session.seal = to]
      BY <2>3 DEF Damage
    <3> QED BY <1>1, <2>1, <3>1 DEF TypeOK, Dir, Session
  <2>4. CASE DamagePoint(i)
    <3>1. PICK n : active' = [active EXCEPT ![i].points[n] = "invalid"]
      BY <2>4 DEF DamagePoint
    <3> QED BY <1>1, <2>1, <3>1 DEF TypeOK, Dir
  <2> QED
    BY <2>2, <2>3, <2>4
<1>4. OnePlace'
  BY <1>1, <1>2, <1>3 DEF OInv, OnePlace
<1> QED
  BY <1>1, <1>4 DEF OInv, Writing

LEMMA PlaceInductive == Alone => (Spec => []OInv)
<1> SUFFICES ASSUME Alone PROVE Spec => []OInv OBVIOUS
<1>1. Init => OInv
  <2> SUFFICES ASSUME Init PROVE OInv OBVIOUS
  <2>1. TypeOK BY InitIInv DEF IInv
  <2> QED BY <2>1, Records DEF Init, OInv, OnePlace, NoDir, NoSession, Writing
<1>2. TypeOK' /\ OInv /\ [Next]_vars => OInv'
  <2> SUFFICES ASSUME TypeOK', OInv, [Next]_vars PROVE OInv' OBVIOUS
  <2>1. CASE UNCHANGED vars
    BY <2>1 DEF vars, OInv, OnePlace, Writing
  <2>2. ASSUME NEW p \in Procs, Crash(p) PROVE OInv'
    BY <2>2, PlaceIdle DEF Crash
  <2> QED
    BY <2>1, <2>2, PlaceBegins, PlaceSteps, OutsidePlace DEF Next
<1> QED BY <1>1, <1>2, TypeCorrect, PTL DEF Spec

(* One process: archive_session moves a session and no later create,       *)
(* update, checkpoint or sweep writes a session.json of it in active/      *)
(* again, wherever calls are killed.                                       *)
THEOREM SessionInOnePlace == Alone => (Spec => []OnePlace)
<1> SUFFICES ASSUME Alone PROVE Spec => []OnePlace OBVIOUS
<1>1. OInv => OnePlace BY DEF OInv
<1> QED BY <1>1, PlaceInductive, PTL

=============================================================================
