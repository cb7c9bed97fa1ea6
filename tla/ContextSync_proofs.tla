------------------------- MODULE ContextSync_proofs -------------------------
(* Proofs about ContextSync, for any number of workspaces and hosts.  What *)
(* holds whatever processes overlap and abort comes first; what only holds *)
(* of one process at a time that runs to its end has that for hypothesis.  *)
EXTENDS ContextSync, TLAPS

(***************************************************************************)
(* Helpers of the loop.                                                    *)
(***************************************************************************)
InLoop == {"decide", "compose", "truncate", "flush"}

(* Inside the loop there is a current target. *)
LoopInv == \A r \in Runs : run[r].pc \in InLoop \cup {"compiled"} => run[r].todo # <<>>

(* What a run has composed is the block it compiled. *)
BufferInv ==
    \A r \in Runs : run[r].pc \in {"truncate", "flush"} => run[r].buf.body \in Contents

IInv == TypeOK /\ LoopInv /\ BufferInv

LEMMA RequestsTyped ==
    ASSUME NEW want \in Requests
    PROVE  want \in Seq(Targets) /\ want # <<>>
  <1>1. want \in Seq(Hosts \X Scopes) /\ want # <<>>
    BY SyncAssumption
  <1>2. \A i \in DOMAIN want : want[i] \in Targets
    BY DEF Targets
  <1>3. QED
    BY <1>1, <1>2

LEMMA InitIInv == Init => IInv
<1> SUFFICES ASSUME Init PROVE IInv
  OBVIOUS
<1>1. NoFile \in File /\ [EmptyFile EXCEPT !.outside = TRUE] \in File
  BY DEF NoFile, EmptyFile, File, Body
<1>2. file \in [Places -> File]
  BY <1>1 DEF Init
<1>3. NoEntries \in Entries
  BY DEF NoEntries, Entries
<1>4. manifest \in [Workspaces -> Manifest]
  BY <1>3 DEF Init, Manifest
<1>5. run \in [Runs -> Active \cup {Idle}] /\ \A r \in Runs : run[r].pc = "idle"
  BY DEF Init, Idle
<1>6. LoopInv /\ BufferInv
  BY <1>5 DEF LoopInv, BufferInv, InLoop
<1>7. QED
  BY <1>2, <1>4, <1>5, <1>6 DEF IInv, TypeOK, Init

(* A finished target leaves a well-formed process behind. *)
LEMMA DoneTyped ==
    ASSUME NEW r \in Runs, IInv, run[r].pc \in InLoop,
           NEW entry \in Contents \cup {None}
    PROVE  /\ Done(r, entry) \in Active
           /\ Done(r, entry).pc \in {"decide", "open_manifest"}
           /\ Done(r, entry).pc = "decide" => Done(r, entry).todo # <<>>
  <1>1. run[r] \in Active /\ run[r].todo \in Seq(Targets) /\ run[r].todo # <<>>
    BY DEF IInv, TypeOK, LoopInv, InLoop, Idle, Active
  <1>2. Tail(run[r].todo) \in Seq(Targets)
    BY <1>1
  <1>3. [run[r].new EXCEPT ![Current(r)] = entry] \in Entries
    BY <1>1 DEF Active, Entries
  <1>4. NoFile \in File
    BY DEF NoFile, File, Body
  <1>5. QED
    BY <1>1, <1>2, <1>3, <1>4 DEF Done, Active, PC

(* The file of the current target is one of the files of the model. *)
LEMMA PlaceTyped ==
    ASSUME NEW r \in Runs, IInv, run[r].pc \in InLoop
    PROVE  /\ run[r] \in Active
           /\ Current(r) \in Targets
           /\ Place(r) \in Places
           /\ file[Place(r)] \in File
<1>1. run[r] \in Active /\ run[r].todo \in Seq(Targets) /\ run[r].todo # <<>>
  BY DEF IInv, TypeOK, LoopInv, InLoop, Idle, Active
<1>2. Current(r) \in Targets
  BY <1>1 DEF Current
<1>3. run[r].ws \in Workspaces
  BY <1>1 DEF Active
<1>4. Place(r) \in Places
  BY <1>2, <1>3 DEF Place, Places
<1>5. QED
  BY <1>1, <1>2, <1>4 DEF IInv, TypeOK

(* A step that changes the process r alone preserves the invariant if the  *)
(* new process state does.                                                 *)
LEMMA OneRun ==
    ASSUME NEW r \in Runs, IInv, NEW next \in Active \cup {Idle},
           run' = [run EXCEPT ![r] = next],
           next.pc \in InLoop \cup {"compiled"} => next.todo # <<>>,
           next.pc \in {"truncate", "flush"} => next.buf.body \in Contents
    PROVE  /\ run' \in [Runs -> Active \cup {Idle}]
           /\ LoopInv' /\ BufferInv'
<1>1. run \in [Runs -> Active \cup {Idle}]
  BY DEF IInv, TypeOK
<1>2. run'[r] = next /\ \A q \in Runs \ {r} : run'[q] = run[q]
  BY <1>1
<1>3. run' \in [Runs -> Active \cup {Idle}]
  BY <1>1
<1>4. LoopInv'
  BY <1>2 DEF LoopInv, IInv, InLoop
<1>5. BufferInv'
  BY <1>2 DEF BufferInv, IInv
<1>6. QED
  BY <1>3, <1>4, <1>5

LEMMA IdleHarmless ==
    /\ Idle \in Active \cup {Idle}
    /\ Idle.pc \notin InLoop \cup {"compiled"}
    /\ Idle.pc \notin {"truncate", "flush"}
  BY DEF Idle, InLoop

LEMMA StartIInv ==
    ASSUME IInv, NEW r \in Runs, NEW w \in Workspaces, NEW want \in Requests,
           NEW force \in BOOLEAN, Start(r, w, want, force)
    PROVE  IInv'
<1> DEFINE next == [pc |-> "compiled", ws |-> w, todo |-> want, force |-> force,
                    fresh |-> knowledge[w], prior |-> NoEntries,
                    new |-> NoEntries, buf |-> NoFile]
<1>1. want \in Seq(Targets) /\ want # <<>>
  BY RequestsTyped
<1>2. NoEntries \in Entries /\ NoFile \in File /\ knowledge[w] \in Contents
  BY DEF NoEntries, Entries, NoFile, File, Body, IInv, TypeOK
<1>3. next \in Active
  BY <1>1, <1>2 DEF Active, PC
<1>4. run' = [run EXCEPT ![r] = next] /\ UNCHANGED <<file, knowledge, manifest>>
  BY DEF Start
<1>5. /\ run' \in [Runs -> Active \cup {Idle}]
      /\ LoopInv' /\ BufferInv'
  <2> HIDE DEF next
  <2>1. next.pc = "compiled" /\ next.todo = want
    BY DEF next
  <2>2. QED
    BY <1>1, <1>3, <1>4, <2>1, OneRun
<1>6. QED
  BY <1>4, <1>5 DEF IInv, TypeOK

LEMMA ReadManifestIInv ==
    ASSUME IInv, NEW r \in Runs, ReadManifest(r)
    PROVE  IInv'
<1>1. run[r] \in Active /\ run[r].ws \in Workspaces /\ run[r].todo # <<>>
  BY DEF ReadManifest, IInv, TypeOK, LoopInv, Idle, Active
<1>2. manifest[run[r].ws].hash \in Entries
  BY <1>1 DEF IInv, TypeOK, Manifest
<1> DEFINE next == [run[r] EXCEPT !.pc = "decide", !.prior = manifest[run[r].ws].hash]
<1>3. next \in Active /\ next.pc = "decide" /\ next.todo # <<>>
  BY <1>1, <1>2 DEF Active, PC
<1>4. UNCHANGED <<file, knowledge, manifest>>
  BY DEF ReadManifest
<1>5. \/ run' = [run EXCEPT ![r] = next]
      \/ run' = [run EXCEPT ![r] = Idle]
  BY DEF ReadManifest
<1>6. /\ run' \in [Runs -> Active \cup {Idle}]
      /\ LoopInv' /\ BufferInv'
  <2> HIDE DEF next
  <2>1. CASE run' = [run EXCEPT ![r] = next]
    BY <1>3, <2>1, OneRun
  <2>2. CASE run' = [run EXCEPT ![r] = Idle]
    BY <2>2, OneRun, IdleHarmless
  <2>3. QED
    BY <1>5, <2>1, <2>2
<1>7. QED
  BY <1>4, <1>6 DEF IInv, TypeOK

(* Steps of a process that end the visit of its current target. *)
LEMMA DoneIInv ==
    ASSUME IInv, NEW r \in Runs, run[r].pc \in InLoop,
           NEW entry \in Contents \cup {None},
           run' = [run EXCEPT ![r] = Done(r, entry)]
    PROVE  /\ run' \in [Runs -> Active \cup {Idle}]
           /\ LoopInv' /\ BufferInv'
<1> DEFINE next == Done(r, entry)
<1>1. /\ next \in Active
      /\ next.pc \in {"decide", "open_manifest"}
      /\ next.pc = "decide" => next.todo # <<>>
  BY DoneTyped
<1>2. run' = [run EXCEPT ![r] = next]
  OBVIOUS
<1> HIDE DEF next
<1>3. QED
  BY <1>1, <1>2, OneRun DEF InLoop

LEMMA DecideIInv ==
    ASSUME IInv, NEW r \in Runs, Decide(r)
    PROVE  IInv'
<1>1. run[r].pc = "decide" /\ run[r].pc \in InLoop
  BY DEF Decide, InLoop
<1>2. run[r] \in Active /\ Current(r) \in Targets
  BY <1>1, PlaceTyped
<1>3. run[r].prior[Current(r)] \in Contents \cup {None}
  BY <1>2 DEF Active, Entries
<1>4. UNCHANGED <<file, knowledge, manifest>>
  BY DEF Decide
<1> DEFINE next == [run[r] EXCEPT !.pc = "compose"]
<1>5. next \in Active /\ next.pc = "compose" /\ next.todo # <<>>
  BY <1>1, <1>2 DEF Active, PC, IInv, LoopInv
<1>6. \/ run' = [run EXCEPT ![r] = Done(r, run[r].prior[Current(r)])]
      \/ run' = [run EXCEPT ![r] = next]
  BY DEF Decide
<1>7. /\ run' \in [Runs -> Active \cup {Idle}]
      /\ LoopInv' /\ BufferInv'
  <2> HIDE DEF next
  <2>1. CASE run' = [run EXCEPT ![r] = Done(r, run[r].prior[Current(r)])]
    BY <1>1, <1>3, <2>1, DoneIInv
  <2>2. CASE run' = [run EXCEPT ![r] = next]
    BY <1>5, <2>2, OneRun
  <2>3. QED
    BY <1>6, <2>1, <2>2
<1>8. QED
  BY <1>4, <1>7 DEF IInv, TypeOK

LEMMA ComposeIInv ==
    ASSUME IInv, NEW r \in Runs, Compose(r)
    PROVE  IInv'
<1>1. run[r].pc = "compose" /\ run[r].pc \in InLoop
  BY DEF Compose, InLoop
<1>2. run[r] \in Active /\ file[Place(r)] \in File
  BY <1>1, PlaceTyped
<1> DEFINE buf  == Composed(file[Place(r)], run[r].fresh)
           next == [run[r] EXCEPT !.pc = "truncate", !.buf = buf]
<1>3. buf \in File /\ buf.body = run[r].fresh /\ run[r].fresh \in Contents
  BY <1>2 DEF Composed, File, Body, Active
<1>4. UNCHANGED <<file, knowledge, manifest>> /\ run' = [run EXCEPT ![r] = next]
  BY DEF Compose
<1>5. /\ next \in Active
      /\ next.pc = "truncate" /\ next.todo # <<>> /\ next.buf.body \in Contents
  <2> HIDE DEF buf
  <2>1. QED
    BY <1>1, <1>2, <1>3 DEF Active, PC, IInv, LoopInv, InLoop
<1>6. /\ run' \in [Runs -> Active \cup {Idle}]
      /\ LoopInv' /\ BufferInv'
  <2> HIDE DEF next
  <2>1. QED
    BY <1>4, <1>5, OneRun
<1>7. QED
  BY <1>4, <1>6 DEF IInv, TypeOK

LEMMA SkipWriteIInv ==
    ASSUME IInv, NEW r \in Runs, SkipWrite(r)
    PROVE  IInv'
<1>1. run[r].pc \in InLoop
  BY DEF SkipWrite, InLoop
<1>2. run[r].fresh \in Contents
  BY <1>1, PlaceTyped DEF Active
<1>3. /\ UNCHANGED <<file, knowledge, manifest>>
      /\ run' = [run EXCEPT ![r] = Done(r, run[r].fresh)]
  BY DEF SkipWrite
<1>4. /\ run' \in [Runs -> Active \cup {Idle}]
      /\ LoopInv' /\ BufferInv'
  BY <1>1, <1>2, <1>3, DoneIInv
<1>5. QED
  BY <1>3, <1>4 DEF IInv, TypeOK

LEMMA TruncateIInv ==
    ASSUME IInv, NEW r \in Runs, Truncate(r)
    PROVE  IInv'
<1>1. run[r].pc = "truncate" /\ run[r].pc \in InLoop
  BY DEF Truncate, InLoop
<1>2. run[r] \in Active
  BY <1>1, PlaceTyped
<1> DEFINE next == [run[r] EXCEPT !.pc = "flush"]
<1>3. next \in Active /\ next.todo # <<>> /\ next.buf.body \in Contents
  BY <1>1, <1>2 DEF Active, PC, IInv, LoopInv, BufferInv, InLoop
<1>4. UNCHANGED <<knowledge, manifest>> /\ run' = [run EXCEPT ![r] = next]
  BY DEF Truncate
<1>5. /\ run' \in [Runs -> Active \cup {Idle}]
      /\ LoopInv' /\ BufferInv'
  <2> HIDE DEF next
  <2>1. QED
    BY <1>3, <1>4, OneRun
<1>6. EmptyFile \in File
  BY DEF EmptyFile, NoFile, File, Body
<1>7. file' \in [Places -> File]
  BY <1>6 DEF Truncate, IInv, TypeOK
<1>8. QED
  BY <1>4, <1>5, <1>7 DEF IInv, TypeOK

LEMMA FlushIInv ==
    ASSUME IInv, NEW r \in Runs, Flush(r)
    PROVE  IInv'
<1>1. run[r].pc \in InLoop
  BY DEF Flush, InLoop
<1>2. run[r].fresh \in Contents /\ run[r].buf \in File
  BY <1>1, PlaceTyped DEF Active
<1>3. /\ UNCHANGED <<knowledge, manifest>>
      /\ run' = [run EXCEPT ![r] = Done(r, run[r].fresh)]
  BY DEF Flush
<1>4. /\ run' \in [Runs -> Active \cup {Idle}]
      /\ LoopInv' /\ BufferInv'
  BY <1>1, <1>2, <1>3, DoneIInv
<1>5. file' \in [Places -> File]
  BY <1>2 DEF Flush, IInv, TypeOK
<1>6. QED
  BY <1>3, <1>4, <1>5 DEF IInv, TypeOK

LEMMA OpenManifestIInv ==
    ASSUME IInv, NEW r \in Runs, OpenManifest(r)
    PROVE  IInv'
<1> DEFINE next == [run[r] EXCEPT !.pc = "write_manifest"]
<1>1. run[r] \in Active
  BY DEF OpenManifest, IInv, TypeOK, Idle
<1>2. next \in Active /\ next.pc = "write_manifest"
  BY <1>1 DEF Active, PC
<1>3. UNCHANGED <<file, knowledge>> /\ run' = [run EXCEPT ![r] = next]
  BY DEF OpenManifest
<1>4. /\ run' \in [Runs -> Active \cup {Idle}]
      /\ LoopInv' /\ BufferInv'
  <2> HIDE DEF next
  <2>1. QED
    BY <1>2, <1>3, OneRun DEF InLoop
<1>5. Torn \in Manifest
  BY DEF Torn, Manifest, NoEntries, Entries
<1>6. manifest' \in [Workspaces -> Manifest]
  BY <1>5 DEF OpenManifest, IInv, TypeOK
<1>7. QED
  BY <1>3, <1>4, <1>6 DEF IInv, TypeOK

LEMMA WriteManifestIInv ==
    ASSUME IInv, NEW r \in Runs, WriteManifest(r)
    PROVE  IInv'
<1>1. run[r] \in Active
  BY DEF WriteManifest, IInv, TypeOK, Idle
<1>2. [readable |-> TRUE, hash |-> run[r].new] \in Manifest
  BY <1>1 DEF Active, Manifest
<1>3. manifest' \in [Workspaces -> Manifest]
  BY <1>2 DEF WriteManifest, IInv, TypeOK
<1>4. UNCHANGED <<file, knowledge>> /\ run' = [run EXCEPT ![r] = Idle]
  BY DEF WriteManifest
<1>5. /\ run' \in [Runs -> Active \cup {Idle}]
      /\ LoopInv' /\ BufferInv'
  BY <1>4, OneRun, IdleHarmless
<1>6. QED
  BY <1>3, <1>4, <1>5 DEF IInv, TypeOK

LEMMA AbortIInv ==
    ASSUME IInv, NEW r \in Runs, Abort(r)
    PROVE  IInv'
<1>1. UNCHANGED <<file, knowledge, manifest>> /\ run' = [run EXCEPT ![r] = Idle]
  BY DEF Abort
<1>2. /\ run' \in [Runs -> Active \cup {Idle}]
      /\ LoopInv' /\ BufferInv'
  BY <1>1, OneRun, IdleHarmless
<1>3. QED
  BY <1>1, <1>2 DEF IInv, TypeOK

(* The user changes files and knowledge, never a process or a manifest. *)
LEMMA UserIInv ==
    ASSUME IInv, User
    PROVE  IInv'
<1>1. ASSUME NEW d \in Places, NEW f \in File, UserSaves(d, f)
      PROVE  IInv'
  BY <1>1 DEF UserSaves, IInv, TypeOK, LoopInv, BufferInv
<1>2. ASSUME NEW d \in Places, NEW u \in UserTexts, EditBlock(d, u)
      PROVE  IInv'
  <2>1. [file[d] EXCEPT !.body = u] \in File
    BY DEF IInv, TypeOK, File, Body
  <2>2. QED
    BY <1>1, <1>2, <2>1 DEF EditBlock
<1>3. ASSUME NEW d \in Places, EditBelowFooter(d)
      PROVE  IInv'
  <2>1. [file[d] EXCEPT !.tail = TRUE] \in File
    BY DEF IInv, TypeOK, File, Body
  <2>2. QED
    BY <1>1, <1>3, <2>1 DEF EditBelowFooter
<1>4. ASSUME NEW d \in Places, WriteOutside(d)
      PROVE  IInv'
  <2>1. [file[d] EXCEPT !.exists = TRUE, !.outside = TRUE] \in File
    BY DEF IInv, TypeOK, File, Body
  <2>2. QED
    BY <1>1, <1>4, <2>1 DEF WriteOutside
<1>5. ASSUME NEW d \in Places, RemoveBlock(d)
      PROVE  IInv'
  <2>1. [file[d] EXCEPT !.body = None, !.tail = FALSE] \in File
    BY DEF IInv, TypeOK, File, Body
  <2>2. QED
    BY <1>1, <1>5, <2>1 DEF RemoveBlock
<1>6. ASSUME NEW d \in Places, DeleteFile(d)
      PROVE  IInv'
  <2>1. NoFile \in File
    BY DEF NoFile, File, Body
  <2>2. QED
    BY <1>1, <1>6, <2>1 DEF DeleteFile
<1>7. ASSUME NEW w \in Workspaces, NEW c \in Contents, Learn(w, c)
      PROVE  IInv'
  BY <1>7 DEF Learn, IInv, TypeOK, LoopInv, BufferInv
<1>8. QED
  BY <1>2, <1>3, <1>4, <1>5, <1>6, <1>7 DEF User

LEMMA NextIInv == IInv /\ [Next]_vars => IInv'
<1> SUFFICES ASSUME IInv, [Next]_vars
             PROVE  IInv'
  OBVIOUS
<1>1. CASE User
  BY <1>1, UserIInv
<1>2. CASE Command
  BY <1>2, StartIInv DEF Command
<1>3. ASSUME NEW r \in Runs, RunStep(r) \/ Abort(r)
      PROVE  IInv'
  BY <1>3, ReadManifestIInv, DecideIInv, ComposeIInv, SkipWriteIInv, TruncateIInv,
     FlushIInv, OpenManifestIInv, WriteManifestIInv, AbortIInv DEF RunStep
<1>4. CASE UNCHANGED vars
  BY <1>4 DEF vars, IInv, TypeOK, LoopInv, BufferInv
<1>5. QED
  BY <1>1, <1>2, <1>3, <1>4 DEF Next

(* Every value stays in its type, whatever runs overlap and abort.  In     *)
(* particular a manifest only ever records blocks the compiler produced:   *)
(* the edit of a user that is skipped is never adopted as `last synced`.   *)
THEOREM TypeCorrect == Spec => []TypeOK
<1>1. Spec => []IInv
  BY InitIInv, NextIInv, PTL DEF Spec
<1>2. IInv => TypeOK
  BY DEF IInv
<1>3. QED
  BY <1>1, <1>2, PTL

---------------------------------------------------------------------------
(***************************************************************************)
(* No unforced run writes over an edit.  NoEditInWindow is inductive on    *)
(* top of IInv: the verdict lets an unforced run go on only if the file    *)
(* has no block or the block of a manifest entry, entries are never user   *)
(* text (TypeOK), nobody edits the file until the write is over, and what  *)
(* other runs write meanwhile is generated (BufferInv).                    *)
(***************************************************************************)
EditInv == IInv /\ NoEditInWindow

(* The window of a process depends on that process alone. *)
LEMMA OtherWindows ==
    ASSUME NEW r \in Runs, NEW q \in Runs \ {r}, NEW next, IInv,
           run' = [run EXCEPT ![r] = next]
    PROVE  /\ run'[q] = run[q]
           /\ \A d \in Places : InWindow(q, d)' <=> InWindow(q, d)
<1>1. run'[q] = run[q]
  BY DEF IInv, TypeOK
<1>2. QED
  BY <1>1 DEF InWindow, Place, Current

(* Steps that write no file and open no new window. *)
LEMMA QuietStep ==
    ASSUME EditInv, NEW r \in Runs, NEW next, run' = [run EXCEPT ![r] = next],
           UNCHANGED file,
           next.pc \notin {"compose", "truncate", "flush"}
    PROVE  NoEditInWindow'
<1> SUFFICES ASSUME NEW q \in Runs, NEW d \in Places, InWindow(q, d)', ~run'[q].force
             PROVE  file[d].body \notin UserTexts
  BY DEF NoEditInWindow
<1>1. q # r
  BY DEF InWindow, EditInv, IInv, TypeOK
<1>2. InWindow(q, d) /\ ~run[q].force
  BY <1>1, OtherWindows DEF EditInv
<1>3. QED
  BY <1>2 DEF EditInv, NoEditInWindow

(* Steps inside a window that leave the target and the force flag alone,   *)
(* and write at most generated text.                                       *)
LEMMA WindowStep ==
    ASSUME EditInv, NEW r \in Runs, NEW next, run' = [run EXCEPT ![r] = next],
           \/ next.pc \notin {"compose", "truncate", "flush"}
           \/ /\ run[r].pc \in {"compose", "truncate", "flush"}
              /\ next.ws = run[r].ws /\ next.todo = run[r].todo
              /\ next.force = run[r].force,
           NEW f, f.body \notin UserTexts,
           UNCHANGED file \/ file' = [file EXCEPT ![Place(r)] = f]
    PROVE  NoEditInWindow'
<1> SUFFICES ASSUME NEW q \in Runs, NEW d \in Places, InWindow(q, d)', ~run'[q].force
             PROVE  file'[d].body \notin UserTexts
  BY DEF NoEditInWindow
<1>1. InWindow(q, d) /\ ~run[q].force
  <2>1. CASE q # r
    BY <2>1, OtherWindows DEF EditInv
  <2>2. CASE q = r
    <3>1. run'[r] = next
      BY DEF EditInv, IInv, TypeOK
    <3>2. QED
      BY <2>2, <3>1 DEF InWindow, Place, Current
  <2>3. QED
    BY <2>1, <2>2
<1>2. file[d].body \notin UserTexts
  BY <1>1 DEF EditInv, NoEditInWindow
<1>3. QED
  BY <1>2 DEF EditInv, IInv, TypeOK

LEMMA DecideEditInv ==
    ASSUME EditInv, NEW r \in Runs, Decide(r)
    PROVE  NoEditInWindow'
<1>1. run[r].pc = "decide" /\ run[r].pc \in InLoop /\ IInv
  BY DEF Decide, InLoop, EditInv
<1>2. run[r] \in Active /\ Current(r) \in Targets /\ Place(r) \in Places
  BY <1>1, PlaceTyped
<1>3. CASE VerdictOf(r) \in {"unchanged", "skip_locally_modified"}
  <2> DEFINE next == Done(r, run[r].prior[Current(r)])
  <2>1. run' = [run EXCEPT ![r] = next] /\ UNCHANGED file
    BY <1>3 DEF Decide
  <2>2. next.pc \in {"decide", "open_manifest"}
    BY <1>1, <1>2, DoneTyped DEF Active, Entries
  <2> HIDE DEF next
  <2>3. QED
    BY <2>1, <2>2, QuietStep
<1>4. CASE VerdictOf(r) \notin {"unchanged", "skip_locally_modified"}
  <2> DEFINE next == [run[r] EXCEPT !.pc = "compose"]
  <2>1. run' = [run EXCEPT ![r] = next] /\ UNCHANGED file
    BY <1>4 DEF Decide
  <2>2. next.ws = run[r].ws /\ next.todo = run[r].todo /\ next.force = run[r].force
    BY <1>2 DEF Active
  <2>3. ~run[r].force => file[Place(r)].body \notin UserTexts
    <3>1. SUFFICES ASSUME ~run[r].force, file[Place(r)].body \in UserTexts
                   PROVE  VerdictOf(r) = "skip_locally_modified"
      BY <1>4
    <3>2. run[r].prior[Current(r)] \in Contents \cup {None}
      BY <1>2 DEF Active, Entries
    <3>3. /\ file[Place(r)].body # None
          /\ file[Place(r)].body # run[r].prior[Current(r)]
      BY <3>1, <3>2, SyncAssumption
    <3>4. QED
      BY <3>1, <3>3 DEF VerdictOf, Verdict
  <2>4. run'[r] = next
    BY <1>1, <2>1 DEF IInv, TypeOK
  <2> HIDE DEF next
  <2> SUFFICES ASSUME NEW q \in Runs, NEW d \in Places, InWindow(q, d)', ~run'[q].force
               PROVE  file[d].body \notin UserTexts
    BY <2>1 DEF NoEditInWindow
  <2>5. CASE q # r
    <3>1. InWindow(q, d) /\ ~run[q].force
      BY <2>1, <2>5, OtherWindows DEF EditInv
    <3>2. QED
      BY <3>1 DEF EditInv, NoEditInWindow
  <2>6. CASE q = r
    BY <2>2, <2>3, <2>4, <2>6 DEF InWindow, Place, Current
  <2>7. QED
    BY <2>5, <2>6
<1>5. QED
  BY <1>3, <1>4

LEMMA RunEditInv ==
    ASSUME EditInv, NEW r \in Runs, RunStep(r) \/ Abort(r)
    PROVE  NoEditInWindow'
<1> USE DEF EditInv
<1>1. CASE ReadManifest(r)
  <2> DEFINE next == [run[r] EXCEPT !.pc = "decide", !.prior = manifest[run[r].ws].hash]
  <2>1. run[r] \in Active
    BY <1>1 DEF ReadManifest, IInv, TypeOK, Idle
  <2>2. next.pc = "decide" /\ Idle.pc = "idle"
    BY <2>1 DEF Active, Idle
  <2>3. /\ UNCHANGED file
        /\ run' = [run EXCEPT ![r] = next] \/ run' = [run EXCEPT ![r] = Idle]
    BY <1>1 DEF ReadManifest
  <2> HIDE DEF next
  <2>4. QED
    BY <2>2, <2>3, QuietStep
<1>2. CASE Decide(r)
  BY <1>2, DecideEditInv
<1>3. ASSUME run[r].pc \in InLoop, run' = [run EXCEPT ![r] = Done(r, run[r].fresh)],
             UNCHANGED file \/ file' = [file EXCEPT ![Place(r)] = run[r].buf],
             run[r].buf.body \notin UserTexts
      PROVE  NoEditInWindow'
  <2> DEFINE next == Done(r, run[r].fresh)
  <2>1. next.pc \in {"decide", "open_manifest"}
    BY <1>3, PlaceTyped, DoneTyped DEF Active
  <2>2. run' = [run EXCEPT ![r] = next]
    BY <1>3
  <2> HIDE DEF next
  <2>3. QED
    BY <1>3, <2>1, <2>2, WindowStep
<1>4. CASE Compose(r)
  <2> DEFINE next == [run[r] EXCEPT !.pc = "truncate",
                                    !.buf = Composed(file[Place(r)], run[r].fresh)]
  <2>1. run[r] \in Active /\ run[r].pc = "compose"
    BY <1>4, PlaceTyped DEF Compose, InLoop
  <2>2. /\ next.ws = run[r].ws /\ next.todo = run[r].todo
        /\ next.force = run[r].force
    BY <2>1 DEF Active
  <2>3. run' = [run EXCEPT ![r] = next] /\ UNCHANGED file
    BY <1>4 DEF Compose
  <2>4. NoFile.body \notin UserTexts
    BY SyncAssumption DEF NoFile
  <2> HIDE DEF next
  <2>5. QED
    BY <2>1, <2>2, <2>3, <2>4, WindowStep
<1>5. CASE SkipWrite(r)
  <2>1. run[r].buf.body \notin UserTexts
    BY <1>5, SyncAssumption DEF SkipWrite, IInv, BufferInv
  <2>2. QED
    BY <1>3, <1>5, <2>1 DEF SkipWrite, InLoop
<1>6. CASE Truncate(r)
  <2> DEFINE next == [run[r] EXCEPT !.pc = "flush"]
  <2>1. run[r] \in Active /\ run[r].pc = "truncate"
    BY <1>6, PlaceTyped DEF Truncate, InLoop
  <2>2. /\ next.ws = run[r].ws /\ next.todo = run[r].todo
        /\ next.force = run[r].force
    BY <2>1 DEF Active
  <2>3. /\ run' = [run EXCEPT ![r] = next]
        /\ file' = [file EXCEPT ![Place(r)] = EmptyFile]
    BY <1>6 DEF Truncate
  <2>4. EmptyFile.body \notin UserTexts
    BY SyncAssumption DEF NoFile, EmptyFile
  <2> HIDE DEF next
  <2>5. QED
    BY <2>1, <2>2, <2>3, <2>4, WindowStep
<1>7. CASE Flush(r)
  <2>1. run[r].buf.body \notin UserTexts
    BY <1>7, SyncAssumption DEF Flush, IInv, BufferInv
  <2>2. QED
    BY <1>3, <1>7, <2>1 DEF Flush, InLoop
<1>8. CASE OpenManifest(r)
  <2> DEFINE next == [run[r] EXCEPT !.pc = "write_manifest"]
  <2>1. run[r] \in Active
    BY <1>8 DEF OpenManifest, IInv, TypeOK, Idle
  <2>2. next.pc = "write_manifest"
    BY <2>1 DEF Active
  <2>3. UNCHANGED file /\ run' = [run EXCEPT ![r] = next]
    BY <1>8 DEF OpenManifest
  <2> HIDE DEF next
  <2>4. QED
    BY <2>2, <2>3, QuietStep
<1>9. CASE WriteManifest(r) \/ Abort(r)
  <2>1. UNCHANGED file /\ run' = [run EXCEPT ![r] = Idle] /\ Idle.pc = "idle"
    BY <1>9 DEF WriteManifest, Abort, Idle
  <2>2. QED
    BY <2>1, QuietStep
<1>10. QED
  BY <1>1, <1>2, <1>4, <1>5, <1>6, <1>7, <1>8, <1>9 DEF RunStep

(* The user may edit a file only while no run is in its window. *)
LEMMA UserEditInv ==
    ASSUME EditInv, User, "race" \notin Faults
    PROVE  NoEditInWindow'
<1>1. ASSUME NEW d \in Places, NEW f, UserSaves(d, f)
      PROVE  NoEditInWindow'
  <2> SUFFICES ASSUME NEW q \in Runs, NEW e \in Places, InWindow(q, e)', ~run'[q].force
               PROVE  file'[e].body \notin UserTexts
    BY DEF NoEditInWindow
  <2>1. InWindow(q, e) /\ ~run[q].force
    BY <1>1 DEF UserSaves, InWindow, Place, Current
  <2>2. e # d
    BY <1>1, <2>1 DEF UserSaves, Unattended
  <2>3. file'[e] = file[e]
    BY <1>1, <2>2 DEF UserSaves, EditInv, IInv, TypeOK
  <2>4. QED
    BY <2>1, <2>3 DEF EditInv, NoEditInWindow
<1>2. ASSUME NEW w \in Workspaces, NEW c \in Contents, Learn(w, c)
      PROVE  NoEditInWindow'
  BY <1>2 DEF Learn, EditInv, NoEditInWindow, InWindow, Place, Current
<1>3. QED
  BY <1>1, <1>2 DEF User, EditBlock, EditBelowFooter, WriteOutside, RemoveBlock, DeleteFile

LEMMA NextEditInv ==
    ASSUME "race" \notin Faults
    PROVE  EditInv /\ [Next]_vars => EditInv'
<1> SUFFICES ASSUME EditInv, [Next]_vars
             PROVE  NoEditInWindow'
  BY NextIInv DEF EditInv
<1>1. CASE User
  BY <1>1, UserEditInv
<1>2. CASE Command
  <2>1. PICK r \in Runs, w \in Workspaces, want \in Requests, force \in BOOLEAN :
          Start(r, w, want, force)
    BY <1>2 DEF Command
  <2> DEFINE next == [pc |-> "compiled", ws |-> w, todo |-> want, force |-> force,
                      fresh |-> knowledge[w], prior |-> NoEntries,
                      new |-> NoEntries, buf |-> NoFile]
  <2>2. next.pc = "compiled" /\ run' = [run EXCEPT ![r] = next] /\ UNCHANGED file
    BY <2>1 DEF Start
  <2> HIDE DEF next
  <2>3. QED
    BY <2>2, QuietStep
<1>3. ASSUME NEW r \in Runs, RunStep(r) \/ Abort(r)
      PROVE  NoEditInWindow'
  BY <1>3, RunEditInv
<1>4. CASE UNCHANGED vars
  BY <1>4 DEF vars, EditInv, NoEditInWindow, InWindow, Place, Current
<1>5. QED
  BY <1>1, <1>2, <1>3, <1>4 DEF Next

(* However many runs of however many workspaces overlap or abort, a run    *)
(* that was not forced never has a user's edit in the file it is about to  *)
(* overwrite - provided no editor saves the file inside its window.        *)
THEOREM NoEditOverwritten ==
    ASSUME "race" \notin Faults
    PROVE  Spec => []NoEditInWindow
<1>1. Init => EditInv
  BY InitIInv DEF EditInv, NoEditInWindow, InWindow, Init, Idle
<1>2. EditInv /\ [Next]_vars => EditInv'
  BY NextEditInv
<1>3. EditInv => NoEditInWindow
  BY DEF EditInv
<1>4. QED
  BY <1>1, <1>2, <1>3, PTL DEF Spec

---------------------------------------------------------------------------
(***************************************************************************)
(* The sync implements the promise of OwnedSection.                        *)
(***************************************************************************)
LEMMA FilesBookkeeping ==
    Opened \in SUBSET Places /\ Overridden \in SUBSET Opened
  BY DEF Opened, Overridden

LEMMA InitOwned == Init => Owned!Init
<1> SUFFICES ASSUME Init PROVE Owned!Init
  OBVIOUS
<1>1. Section = [d \in Places |-> None]
  <2>1. NoFile.body = None /\ [EmptyFile EXCEPT !.outside = TRUE].body = None
    BY DEF NoFile, EmptyFile
  <2>2. \A d \in Places : file[d].body = None
    BY <2>1 DEF Init
  <2>3. QED
    BY <2>2 DEF Section
<1>2. Opened = {} /\ Overridden = {}
  BY DEF Init, Opened, Overridden, InWindow, Idle
<1>3. QED
  BY <1>1, <1>2 DEF Owned!Init

(* A step that writes one file changes the section of that file. *)
LEMMA SectionStep ==
    ASSUME IInv, NEW d \in Places, NEW f, file' = [file EXCEPT ![d] = f]
    PROVE  Section' = [Section EXCEPT ![d] = f.body]
  BY DEF IInv, TypeOK, Section

(* Truncate and Flush write a section; the guard is NoEditInWindow. *)
LEMMA WriteOwned ==
    ASSUME EditInv, NEW r \in Runs, Truncate(r) \/ Flush(r)
    PROVE  \E d \in Places : Owned!Write(d)
<1>1. run[r].pc \in InLoop /\ run[r].pc \in {"compose", "truncate", "flush"} /\ IInv
  BY DEF Truncate, Flush, InLoop, EditInv
<1>2. Place(r) \in Places
  BY <1>1, PlaceTyped
<1>3. PICK f : file' = [file EXCEPT ![Place(r)] = f] /\ f.body \in Contents \cup {None}
  <2>1. CASE Truncate(r)
    <3>1. file' = [file EXCEPT ![Place(r)] = EmptyFile] /\ EmptyFile.body = None
      BY <2>1 DEF Truncate, EmptyFile, NoFile
    <3>2. QED
      BY <3>1
  <2>2. CASE Flush(r)
    <3>1. /\ file' = [file EXCEPT ![Place(r)] = run[r].buf]
          /\ run[r].buf.body \in Contents
      BY <2>2 DEF Flush, EditInv, IInv, BufferInv
    <3>2. QED
      BY <3>1
  <2>3. QED
    BY <2>1, <2>2
<1>4. Section' = [Section EXCEPT ![Place(r)] = f.body]
  BY <1>1, <1>2, <1>3, SectionStep
<1>5. Place(r) \in Opened
  BY <1>1, <1>2 DEF Opened, InWindow
<1>6. Section[Place(r)] \in UserTexts => Place(r) \in Overridden
  BY <1>1, <1>2 DEF Section, Overridden, InWindow, EditInv, NoEditInWindow
<1>7. Owned!Write(Place(r))
  BY <1>3, <1>4, <1>5, <1>6 DEF Owned!Write
<1>8. QED
  BY <1>2, <1>7

(* What the user saves between runs is an edit, or no section at all. *)
LEMMA UserOwned ==
    ASSUME EditInv, User, "race" \notin Faults
    PROVE  UNCHANGED Section \/ \E d \in Places : Owned!UserEdit(d)
<1>1. ASSUME NEW d \in Places, NEW f, UserSaves(d, f),
             f.body \in UserTexts \cup {None} \/ f.body = file[d].body
      PROVE  UNCHANGED Section \/ Owned!UserEdit(d)
  <2>1. file' = [file EXCEPT ![d] = f] /\ IInv
    BY <1>1 DEF UserSaves, EditInv
  <2>2. Section' = [Section EXCEPT ![d] = f.body]
    BY <2>1, SectionStep
  <2>3. d \notin Opened
    BY <1>1 DEF UserSaves, Unattended, Opened
  <2>4. CASE f.body \in UserTexts \cup {None}
    BY <2>2, <2>3, <2>4 DEF Owned!UserEdit
  <2>5. CASE f.body = file[d].body
    BY <2>1, <2>2, <2>5 DEF Section, IInv, TypeOK
  <2>6. QED
    BY <1>1, <2>4, <2>5
<1>2. file \in [Places -> File]
  BY DEF EditInv, IInv, TypeOK
<1>3. ASSUME NEW d \in Places, NEW u \in UserTexts, EditBlock(d, u)
      PROVE  UNCHANGED Section \/ Owned!UserEdit(d)
  <2>1. [file[d] EXCEPT !.body = u].body = u
    BY <1>2 DEF File
  <2>2. QED
    BY <1>1, <1>3, <2>1 DEF EditBlock
<1>4. ASSUME NEW d \in Places, EditBelowFooter(d)
      PROVE  UNCHANGED Section \/ Owned!UserEdit(d)
  <2>1. [file[d] EXCEPT !.tail = TRUE].body = file[d].body
    BY <1>2 DEF File
  <2>2. QED
    BY <1>1, <1>4, <2>1 DEF EditBelowFooter
<1>5. ASSUME NEW d \in Places, WriteOutside(d)
      PROVE  UNCHANGED Section \/ Owned!UserEdit(d)
  <2>1. [file[d] EXCEPT !.exists = TRUE, !.outside = TRUE].body = file[d].body
    BY <1>2 DEF File
  <2>2. QED
    BY <1>1, <1>5, <2>1 DEF WriteOutside
<1>6. ASSUME NEW d \in Places, RemoveBlock(d)
      PROVE  UNCHANGED Section \/ Owned!UserEdit(d)
  <2>1. [file[d] EXCEPT !.body = None, !.tail = FALSE].body = None
    BY <1>2 DEF File
  <2>2. QED
    BY <1>1, <1>6, <2>1 DEF RemoveBlock
<1>7. ASSUME NEW d \in Places, DeleteFile(d)
      PROVE  UNCHANGED Section \/ Owned!UserEdit(d)
  <2>1. NoFile.body = None
    BY DEF NoFile
  <2>2. QED
    BY <1>1, <1>7, <2>1 DEF DeleteFile
<1>8. ASSUME NEW w \in Workspaces, NEW c \in Contents, Learn(w, c)
      PROVE  UNCHANGED Section
  BY <1>8 DEF Learn, Section
<1>9. QED
  BY <1>3, <1>4, <1>5, <1>6, <1>7, <1>8 DEF User

LEMMA NextOwned ==
    ASSUME "race" \notin Faults
    PROVE  EditInv /\ [Next]_vars => [Owned!Next]_<<Section, Opened, Overridden>>
<1> SUFFICES ASSUME EditInv, [Next]_vars
             PROVE  \/ UNCHANGED Section
                    \/ \E d \in Places : Owned!Write(d) \/ Owned!UserEdit(d)
  <2>1. Opened' \in SUBSET Places /\ Overridden' \in SUBSET Opened'
    BY DEF Opened, Overridden
  <2>2. QED
    BY <2>1 DEF Owned!Next
<1>1. CASE User
  BY <1>1, UserOwned
<1>2. ASSUME UNCHANGED file
      PROVE  UNCHANGED Section
  BY <1>2 DEF Section
<1>3. CASE Command
  BY <1>2, <1>3 DEF Command, Start
<1>4. ASSUME NEW r \in Runs, RunStep(r) \/ Abort(r)
      PROVE  UNCHANGED file \/ \E d \in Places : Owned!Write(d)
  <2>1. CASE Truncate(r) \/ Flush(r)
    BY <2>1, WriteOwned
  <2>2. CASE ~(Truncate(r) \/ Flush(r))
    BY <1>4, <2>2 DEF RunStep, ReadManifest, Decide, Compose, SkipWrite,
       OpenManifest, WriteManifest, Abort
  <2>3. QED
    BY <2>1, <2>2
<1>5. CASE UNCHANGED vars
  BY <1>2, <1>5 DEF vars
<1>6. QED
  BY <1>1, <1>2, <1>3, <1>4, <1>5 DEF Next

(* The promise kept: every behaviour of the sync is one of OwnedSection.   *)
THEOREM SyncImplementsOwnership ==
    ASSUME "race" \notin Faults
    PROVE  Spec => SectionIsOwned
<1>1. Init => EditInv
  BY InitIInv DEF EditInv, NoEditInWindow, InWindow, Init, Idle
<1>2. EditInv /\ [Next]_vars => EditInv'
  BY NextEditInv
<1>3. EditInv /\ [Next]_vars => [Owned!Next]_<<Section, Opened, Overridden>>
  BY NextOwned
<1>4. QED
  BY <1>1, <1>2, <1>3, InitOwned, PTL DEF Spec, SectionIsOwned, Owned!Spec


---------------------------------------------------------------------------
(***************************************************************************)
(* A single terminal that always names every target and is never aborted   *)
(* calls a section edited only if a user edited it.  The invariant: what   *)
(* is on disk is what is known of it, an edit, or nothing, where what is   *)
(* known of a target is its entry in the manifest, or, once the run has    *)
(* read that, the old entry if the run has yet to visit the target and the *)
(* new one if it has.                                                      *)
(***************************************************************************)
Alone    == \A p, q \in Runs : p = q
Complete == \A want \in Requests : {want[i] : i \in DOMAIN want} = Targets
Unshared == \A w, x \in Workspaces, t \in Targets : Dst(w, t) = Dst(x, t) => w = x

Merging == InLoop \cup {"open_manifest", "write_manifest"}

Names(want, t) == \E i \in DOMAIN want : want[i] = t

Known(r, w, t) ==
    IF run[r].pc \in Merging /\ run[r].ws = w
    THEN IF Names(run[r].todo, t) THEN run[r].prior[t] ELSE run[r].new[t]
    ELSE manifest[w].hash[t]

KnownInv ==
    \A r \in Runs, w \in Workspaces, t \in Targets :
        file[Dst(w, t)].body \in {Known(r, w, t), None} \cup UserTexts

VisitInv ==
    \A r \in Runs :
        /\ run[r].pc = "compiled" => \A t \in Targets : Names(run[r].todo, t)
        /\ run[r].pc # "idle" => HostsOnce(run[r].todo)
        /\ run[r].pc \in {"open_manifest", "write_manifest"} => run[r].todo = <<>>

FreshInv ==
    \A r \in Runs :
        run[r].pc \in {"truncate", "flush"} => run[r].buf.body = run[r].fresh

ConflictInv == IInv /\ VisitInv /\ FreshInv /\ KnownInv

(* Leaving the first target of a list. *)
LEMMA TailNames ==
    ASSUME NEW want \in Seq(Targets), want # <<>>, HostsOnce(want)
    PROVE  /\ HostsOnce(Tail(want))
           /\ Names(want, Head(want))
           /\ \A t : Names(Tail(want), t) <=> t # Head(want) /\ Names(want, t)
<1>1. /\ Len(want) \in Nat /\ Len(want) > 0 /\ DOMAIN want = 1 .. Len(want)
      /\ DOMAIN Tail(want) = 1 .. (Len(want) - 1)
      /\ \A i \in 1 .. (Len(want) - 1) : Tail(want)[i] = want[i + 1]
      /\ Head(want) = want[1]
  OBVIOUS
<1>2. HostsOnce(Tail(want))
  <2> SUFFICES ASSUME NEW i \in DOMAIN Tail(want), NEW j \in DOMAIN Tail(want),
                      Tail(want)[i][1] = Tail(want)[j][1]
               PROVE  i = j
    BY DEF HostsOnce
  <2>1. i + 1 \in DOMAIN want /\ j + 1 \in DOMAIN want
    BY <1>1
  <2>2. want[i + 1][1] = want[j + 1][1]
    BY <1>1
  <2>3. i + 1 = j + 1
    BY <2>1, <2>2 DEF HostsOnce
  <2>4. QED
    BY <1>1, <2>3
<1>3. Names(want, Head(want))
  BY <1>1 DEF Names
<1>4. ASSUME NEW t, Names(Tail(want), t)
      PROVE  t # Head(want) /\ Names(want, t)
  <2>1. PICK i \in DOMAIN Tail(want) : Tail(want)[i] = t
    BY <1>4 DEF Names
  <2>2. i + 1 \in DOMAIN want /\ want[i + 1] = t /\ i + 1 # 1 /\ 1 \in DOMAIN want
    BY <1>1, <2>1
  <2>3. t # want[1]
    BY <2>2 DEF HostsOnce
  <2>4. QED
    BY <1>1, <2>2, <2>3 DEF Names
<1>5. ASSUME NEW t, t # Head(want), Names(want, t)
      PROVE  Names(Tail(want), t)
  <2>1. PICK i \in DOMAIN want : want[i] = t
    BY <1>5 DEF Names
  <2>2. i # 1
    BY <1>1, <1>5, <2>1
  <2>3. i - 1 \in DOMAIN Tail(want) /\ Tail(want)[i - 1] = want[(i - 1) + 1]
    BY <1>1, <2>2
  <2>4. (i - 1) + 1 = i
    BY <1>1
  <2>5. QED
    BY <2>1, <2>3, <2>4 DEF Names
<1>6. QED
  BY <1>2, <1>3, <1>4, <1>5

(* Distinct targets, and distinct workspaces, have distinct files. *)
LEMMA PlacesApart ==
    ASSUME Complete, Unshared,
           NEW w \in Workspaces, NEW x \in Workspaces,
           NEW t \in Targets, NEW u \in Targets, Dst(w, t) = Dst(x, u)
    PROVE  w = x /\ t = u
<1>1. t[1] = u[1]
  BY DEF Dst
<1>2. PICK want \in Requests : Names(want, t)
  BY DEF Targets, Names
<1>3. PICK i \in DOMAIN want : want[i] = t
  BY <1>2 DEF Names
<1>4. PICK j \in DOMAIN want : want[j] = u
  BY DEF Complete
<1>5. i = j
  BY <1>1, <1>3, <1>4, SyncAssumption DEF HostsOnce
<1>6. QED
  BY <1>3, <1>4, <1>5 DEF Unshared


(* The entry of the current target is recorded, the others stay known. *)
LEMMA DoneKnown ==
    ASSUME IInv, VisitInv, NEW r \in Runs, run[r].pc \in InLoop,
           NEW entry \in Contents \cup {None},
           run' = [run EXCEPT ![r] = Done(r, entry)], UNCHANGED manifest
    PROVE  /\ \A w \in Workspaces, t \in Targets :
                Known(r, w, t)' = IF w = run[r].ws /\ t = Current(r) THEN entry
                                  ELSE Known(r, w, t)
           /\ HostsOnce(run'[r].todo)
           /\ run'[r].pc \in {"decide", "open_manifest"}
           /\ run'[r].pc = "open_manifest" => run'[r].todo = <<>>
<1>1. /\ run[r] \in Active /\ run[r].todo \in Seq(Targets) /\ run[r].todo # <<>>
      /\ Current(r) \in Targets /\ HostsOnce(run[r].todo)
  BY PlaceTyped DEF Active, IInv, LoopInv, VisitInv, InLoop
<1>2. run'[r] = Done(r, entry)
  BY DEF IInv, TypeOK
<1> DEFINE left == Tail(run[r].todo)
<1>3. /\ run'[r].ws = run[r].ws /\ run'[r].prior = run[r].prior
      /\ run'[r].todo = left
      /\ run'[r].new = [run[r].new EXCEPT ![Current(r)] = entry]
      /\ run'[r].pc = IF left = <<>> THEN "open_manifest" ELSE "decide"
  <2> DEFINE pc  == IF left = <<>> THEN "open_manifest" ELSE "decide"
             new == [run[r].new EXCEPT ![Current(r)] = entry]
  <2>1. run'[r] = [run[r] EXCEPT !.pc = pc, !.todo = left, !.new = new, !.buf = NoFile]
    BY <1>2 DEF Done
  <2> HIDE DEF pc, new, left
  <2>2. run[r] \in Active
    BY <1>1
  <2>3. run'[r].ws = run[r].ws /\ run'[r].prior = run[r].prior
    BY <2>1, <2>2 DEF Active
  <2>4. run'[r].todo = left /\ run'[r].new = new
    BY <2>1, <2>2 DEF Active
  <2>5. run'[r].pc = pc
    BY <2>1, <2>2 DEF Active
  <2>6. QED
    BY <2>3, <2>4, <2>5 DEF pc, new
<1>4. /\ HostsOnce(left) /\ Names(run[r].todo, Current(r))
      /\ \A t : Names(left, t) <=> t # Current(r) /\ Names(run[r].todo, t)
  BY <1>1, TailNames DEF Current
<1>5. ASSUME NEW w \in Workspaces, NEW t \in Targets
      PROVE  Known(r, w, t)' = IF w = run[r].ws /\ t = Current(r) THEN entry
                               ELSE Known(r, w, t)
  <2>1. CASE w # run[r].ws
    BY <1>3, <2>1 DEF Known
  <2>2. CASE w = run[r].ws
    <3>1. run[r].pc \in Merging /\ run'[r].pc \in Merging
      BY <1>3 DEF Merging, InLoop
    <3>2. Known(r, w, t)' = IF Names(left, t) THEN run[r].prior[t] ELSE run'[r].new[t]
      BY <1>3, <2>2, <3>1 DEF Known
    <3>3. Known(r, w, t) = IF Names(run[r].todo, t) THEN run[r].prior[t] ELSE run[r].new[t]
      BY <2>2, <3>1 DEF Known
    <3>4. run'[r].new[t] = IF t = Current(r) THEN entry ELSE run[r].new[t]
      BY <1>1, <1>3 DEF Active, Entries
    <3>5. QED
      BY <1>4, <2>2, <3>2, <3>3, <3>4
  <2>3. QED
    BY <2>1, <2>2
<1>6. HostsOnce(run'[r].todo)
  BY <1>3, <1>4
<1>7. /\ run'[r].pc \in {"decide", "open_manifest"}
      /\ run'[r].pc = "open_manifest" => run'[r].todo = <<>>
  <2>1. /\ run'[r].todo = left
        /\ run'[r].pc = IF left = <<>> THEN "open_manifest" ELSE "decide"
    BY <1>3
  <2> HIDE DEF left
  <2>2. QED
    BY <2>1
<1>8. QED
  BY <1>5, <1>6, <1>7

(* The single process has taken a step that writes no file. *)
LEMMA KnownKept ==
    ASSUME Alone, ConflictInv, NEW r \in Runs, UNCHANGED file,
           \A w \in Workspaces, t \in Targets : Known(r, w, t)' = Known(r, w, t)
    PROVE  KnownInv'
<1> SUFFICES ASSUME NEW q \in Runs, NEW w \in Workspaces, NEW t \in Targets
             PROVE  (file[Dst(w, t)].body \in {Known(q, w, t), None} \cup UserTexts)'
  BY DEF KnownInv
<1>1. q = r
  BY DEF Alone
<1>2. file[Dst(w, t)].body \in {Known(r, w, t), None} \cup UserTexts
  BY DEF ConflictInv, KnownInv
<1>3. Known(r, w, t)' = Known(r, w, t)
  OBVIOUS
<1>4. (file[Dst(w, t)].body)' = file[Dst(w, t)].body
  OBVIOUS
<1>5. QED
  BY <1>1, <1>2, <1>3, <1>4

(* The single process has visited its current target and left it alone     *)
(* with its old entry, or with the fresh block and the entry for that.     *)
LEMMA DoneConflict ==
    ASSUME Alone, Complete, Unshared, ConflictInv, NEW r \in Runs,
           run[r].pc \in InLoop, NEW entry \in Contents \cup {None},
           run' = [run EXCEPT ![r] = Done(r, entry)], UNCHANGED manifest,
           NEW f \in File, UNCHANGED file \/ file' = [file EXCEPT ![Place(r)] = f],
           file'[Place(r)].body \in {entry, None} \cup UserTexts
    PROVE  VisitInv' /\ FreshInv' /\ KnownInv'
<1>1. IInv /\ VisitInv
  BY DEF ConflictInv
<1>2. /\ \A w \in Workspaces, t \in Targets :
           Known(r, w, t)' = IF w = run[r].ws /\ t = Current(r) THEN entry
                             ELSE Known(r, w, t)
      /\ HostsOnce(run'[r].todo)
      /\ run'[r].pc \in {"decide", "open_manifest"}
      /\ run'[r].pc = "open_manifest" => run'[r].todo = <<>>
  BY <1>1, DoneKnown
<1>3. VisitInv' /\ FreshInv'
  BY <1>2 DEF VisitInv, FreshInv, Alone
<1>4. run[r].ws \in Workspaces /\ Current(r) \in Targets /\ Place(r) \in Places
  BY <1>1, PlaceTyped DEF Active
<1>5. ASSUME NEW w \in Workspaces, NEW t \in Targets
      PROVE  (file[Dst(w, t)].body \in {Known(r, w, t), None} \cup UserTexts)'
  <2>1. CASE w = run[r].ws /\ t = Current(r)
    BY <1>2, <2>1 DEF Place
  <2>2. CASE ~(w = run[r].ws /\ t = Current(r))
    <3>1. Dst(w, t) # Place(r)
      BY <1>4, <2>2, PlacesApart DEF Place
    <3>2. Dst(w, t) \in Places /\ file \in [Places -> File]
      BY <1>1 DEF Places, IInv, TypeOK
    <3>3. file'[Dst(w, t)] = file[Dst(w, t)]
      BY <3>1, <3>2
    <3>4. file[Dst(w, t)].body \in {Known(r, w, t), None} \cup UserTexts
      BY DEF ConflictInv, KnownInv
    <3>5. Known(r, w, t)' = Known(r, w, t)
      BY <1>2, <2>2
    <3>6. QED
      BY <3>3, <3>4, <3>5
  <2>3. QED
    BY <2>1, <2>2
<1>6. KnownInv'
  <2> SUFFICES ASSUME NEW q \in Runs, NEW w \in Workspaces, NEW t \in Targets
               PROVE  (file[Dst(w, t)].body \in {Known(q, w, t), None} \cup UserTexts)'
    BY DEF KnownInv
  <2>1. q = r
    BY DEF Alone
  <2>2. QED
    BY <1>5, <2>1
<1>7. QED
  BY <1>3, <1>6


LEMMA RunConflict ==
    ASSUME Alone, Complete, Unshared, ConflictInv, NEW r \in Runs, RunStep(r)
    PROVE  VisitInv' /\ FreshInv' /\ KnownInv'
<1>1. IInv /\ VisitInv /\ FreshInv /\ file \in [Places -> File]
  BY DEF ConflictInv, IInv, TypeOK
<1>2. run \in [Runs -> Active \cup {Idle}]
  BY <1>1 DEF IInv, TypeOK
(* A step that goes on to another point of the same visit. *)
<1>3. ASSUME NEW next \in Active, run' = [run EXCEPT ![r] = next],
             run[r] \in Active, run[r].pc # "idle",
             next.pc \in Merging, next.ws = run[r].ws, next.todo = run[r].todo,
             next.pc = "open_manifest" \/ next.pc = "write_manifest" => next.todo = <<>>,
             next.pc \in {"truncate", "flush"} => next.buf.body = next.fresh,
             run[r].pc \in Merging,
             next.prior = run[r].prior /\ next.new = run[r].new,
             \A w \in Workspaces : w # run[r].ws => manifest'[w] = manifest[w]
      PROVE  /\ VisitInv' /\ FreshInv'
             /\ \A w \in Workspaces, t \in Targets : Known(r, w, t)' = Known(r, w, t)
  <2>1. run'[r] = next
    BY <1>2, <1>3
  <2>2. next.pc # "compiled" /\ next.pc # "idle"
    BY <1>3 DEF Merging, InLoop
  <2>3. HostsOnce(run[r].todo)
    BY <1>1, <1>3 DEF VisitInv
  <2>4. VisitInv' /\ FreshInv'
    BY <1>3, <2>1, <2>2, <2>3 DEF VisitInv, FreshInv, Alone
  <2>5. ASSUME NEW w \in Workspaces, NEW t \in Targets
        PROVE  Known(r, w, t)' = Known(r, w, t)
    <3>1. CASE w = run[r].ws
      BY <1>3, <2>1, <3>1 DEF Known
    <3>2. CASE w # run[r].ws
      BY <1>3, <2>1, <3>2 DEF Known
    <3>3. QED
      BY <3>1, <3>2
  <2>6. QED
    BY <2>4, <2>5
<1>4. CASE ReadManifest(r)
  <2>1. run[r].pc = "compiled" /\ run[r] \in Active /\ UNCHANGED <<file, manifest>>
    BY <1>2, <1>4 DEF ReadManifest, Idle
  <2>2. run[r].ws \in Workspaces
    BY <2>1 DEF Active
  <2>3. CASE ~manifest[run[r].ws].readable
    <3>1. run' = [run EXCEPT ![r] = Idle]
      BY <1>4, <2>3 DEF ReadManifest
    <3>2. run'[r].pc = "idle"
      BY <1>2, <3>1 DEF Idle
    <3>3. VisitInv' /\ FreshInv'
      BY <3>2 DEF VisitInv, FreshInv, Alone
    <3>4. \A w \in Workspaces, t \in Targets : Known(r, w, t)' = Known(r, w, t)
      BY <2>1, <3>2 DEF Known, Merging, InLoop
    <3>5. QED
      BY <2>1, <3>3, <3>4, KnownKept
  <2>4. CASE manifest[run[r].ws].readable
    <3> DEFINE next == [run[r] EXCEPT !.pc = "decide", !.prior = manifest[run[r].ws].hash]
    <3>1. run' = [run EXCEPT ![r] = next]
      BY <1>4, <2>4 DEF ReadManifest
    <3>2. /\ next.pc = "decide" /\ next.ws = run[r].ws /\ next.todo = run[r].todo
          /\ next.prior = manifest[run[r].ws].hash
      BY <2>1 DEF Active
    <3> HIDE DEF next
    <3>3. run'[r] = next
      BY <1>2, <3>1
    <3>4. HostsOnce(run[r].todo) /\ \A t \in Targets : Names(run[r].todo, t)
      BY <1>1, <2>1 DEF VisitInv
    <3>5. VisitInv' /\ FreshInv'
      BY <3>2, <3>3, <3>4 DEF VisitInv, FreshInv, Alone
    <3>6. ASSUME NEW w \in Workspaces, NEW t \in Targets
          PROVE  Known(r, w, t)' = Known(r, w, t)
      <4>1. Known(r, w, t) = manifest[w].hash[t]
        BY <2>1 DEF Known, Merging, InLoop
      <4>2. CASE w = run[r].ws
        BY <3>2, <3>3, <3>4, <4>1, <4>2 DEF Known, Merging, InLoop
      <4>3. CASE w # run[r].ws
        BY <2>1, <3>2, <3>3, <4>1, <4>3 DEF Known
      <4>4. QED
        BY <4>2, <4>3
    <3>7. QED
      BY <2>1, <3>5, <3>6, KnownKept
  <2>5. QED
    BY <2>3, <2>4
<1>5. CASE Decide(r)
  <2>1. /\ run[r].pc = "decide" /\ run[r].pc \in InLoop
        /\ UNCHANGED <<file, knowledge, manifest>>
    BY <1>5 DEF Decide, InLoop
  <2>2. run[r] \in Active /\ Current(r) \in Targets /\ file[Place(r)] \in File
    BY <1>1, <2>1, PlaceTyped
  <2>3. CASE VerdictOf(r) \in {"unchanged", "skip_locally_modified"}
    <3>1. run' = [run EXCEPT ![r] = Done(r, run[r].prior[Current(r)])]
      BY <1>5, <2>3 DEF Decide
    <3>2. run[r].prior[Current(r)] \in Contents \cup {None}
      BY <2>2 DEF Active, Entries
    <3>3. Known(r, run[r].ws, Current(r)) = run[r].prior[Current(r)]
      <4>1. run[r].todo \in Seq(Targets) /\ run[r].todo # <<>> /\ HostsOnce(run[r].todo)
        BY <1>1, <2>1, <2>2 DEF Active, IInv, LoopInv, VisitInv
      <4>2. Names(run[r].todo, Current(r))
        BY <4>1, TailNames DEF Current
      <4>3. QED
        BY <2>1, <4>2 DEF Known, Merging
    <3>4. file[Place(r)].body \in {run[r].prior[Current(r)], None} \cup UserTexts
      BY <2>2, <3>3 DEF ConflictInv, KnownInv, Place, Active
    <3>5. file'[Place(r)] = file[Place(r)] /\ UNCHANGED manifest /\ UNCHANGED file
      BY <2>1
    <3>6. QED
      BY <2>1, <2>2, <3>1, <3>2, <3>4, <3>5, DoneConflict
  <2>4. CASE VerdictOf(r) \notin {"unchanged", "skip_locally_modified"}
    <3> DEFINE next == [run[r] EXCEPT !.pc = "compose"]
    <3>1. run' = [run EXCEPT ![r] = next]
      BY <1>5, <2>4 DEF Decide
    <3>2. /\ next \in Active /\ next.pc = "compose"
          /\ next.ws = run[r].ws /\ next.todo = run[r].todo
          /\ next.prior = run[r].prior /\ next.new = run[r].new
      BY <2>2 DEF Active, PC
    <3> HIDE DEF next
    <3>3. /\ VisitInv' /\ FreshInv'
          /\ \A w \in Workspaces, t \in Targets : Known(r, w, t)' = Known(r, w, t)
      BY <1>3, <2>1, <2>2, <3>1, <3>2 DEF Merging, InLoop
    <3>4. QED
      BY <2>1, <3>3, KnownKept
  <2>5. QED
    BY <2>3, <2>4
<1>6. CASE Compose(r)
  <2>1. /\ run[r].pc = "compose" /\ run[r].pc \in InLoop
        /\ UNCHANGED <<file, knowledge, manifest>>
    BY <1>6 DEF Compose, InLoop
  <2>2. run[r] \in Active /\ file[Place(r)] \in File
    BY <1>1, <2>1, PlaceTyped
  <2> DEFINE buf  == Composed(file[Place(r)], run[r].fresh)
             next == [run[r] EXCEPT !.pc = "truncate", !.buf = buf]
  <2>3. buf \in File /\ buf.body = run[r].fresh
    BY <2>2 DEF Composed, File, Body, Active
  <2>4. run' = [run EXCEPT ![r] = next]
    BY <1>6 DEF Compose
  <2>5. /\ next \in Active /\ next.pc = "truncate"
        /\ next.ws = run[r].ws /\ next.todo = run[r].todo
        /\ next.prior = run[r].prior /\ next.new = run[r].new
        /\ next.buf.body = next.fresh
    <3> HIDE DEF buf
    <3>1. QED
      BY <2>2, <2>3 DEF Active, PC
  <2> HIDE DEF next
  <2>6. /\ VisitInv' /\ FreshInv'
        /\ \A w \in Workspaces, t \in Targets : Known(r, w, t)' = Known(r, w, t)
    BY <1>3, <2>1, <2>2, <2>4, <2>5 DEF Merging, InLoop
  <2>7. QED
    BY <2>1, <2>6, KnownKept
<1>7. CASE SkipWrite(r)
  <2>1. /\ run[r].pc = "truncate" /\ run[r].pc \in InLoop
        /\ UNCHANGED <<file, manifest>>
        /\ run' = [run EXCEPT ![r] = Done(r, run[r].fresh)]
        /\ file[Place(r)] = run[r].buf
    BY <1>7 DEF SkipWrite, InLoop
  <2>2. run[r].fresh \in Contents /\ file[Place(r)] \in File
    BY <1>1, <2>1, PlaceTyped DEF Active
  <2>3. file'[Place(r)].body = run[r].fresh /\ UNCHANGED file /\ UNCHANGED manifest
    BY <1>1, <2>1 DEF FreshInv
  <2>4. QED
    BY <2>1, <2>2, <2>3, DoneConflict
<1>8. CASE Truncate(r)
  <2>1. /\ run[r].pc = "truncate" /\ run[r].pc \in InLoop /\ UNCHANGED manifest
        /\ file' = [file EXCEPT ![Place(r)] = EmptyFile]
    BY <1>8 DEF Truncate, InLoop
  <2>2. run[r] \in Active /\ Place(r) \in Places
    BY <1>1, <2>1, PlaceTyped
  <2> DEFINE next == [run[r] EXCEPT !.pc = "flush"]
  <2>3. run' = [run EXCEPT ![r] = next]
    BY <1>8 DEF Truncate
  <2>4. /\ next \in Active /\ next.pc = "flush"
        /\ next.ws = run[r].ws /\ next.todo = run[r].todo
        /\ next.prior = run[r].prior /\ next.new = run[r].new
        /\ next.buf = run[r].buf /\ next.fresh = run[r].fresh
    BY <2>2 DEF Active, PC
  <2> HIDE DEF next
  <2>5. run[r].buf.body = run[r].fresh
    BY <1>1, <2>1 DEF FreshInv
  <2>6. /\ VisitInv' /\ FreshInv'
        /\ \A w \in Workspaces, t \in Targets : Known(r, w, t)' = Known(r, w, t)
    BY <1>3, <2>1, <2>2, <2>3, <2>4, <2>5 DEF Merging, InLoop
  <2>7. EmptyFile.body = None
    BY DEF EmptyFile, NoFile
  <2>8. ASSUME NEW w \in Workspaces, NEW t \in Targets
        PROVE  (file[Dst(w, t)].body \in {Known(r, w, t), None} \cup UserTexts)'
    <3>1. file[Dst(w, t)].body \in {Known(r, w, t), None} \cup UserTexts
      BY DEF ConflictInv, KnownInv
    <3>2. Dst(w, t) \in Places
      BY DEF Places
    <3>3. file'[Dst(w, t)] = IF Dst(w, t) = Place(r) THEN EmptyFile ELSE file[Dst(w, t)]
      BY <1>1, <2>1, <3>2
    <3>4. Known(r, w, t)' = Known(r, w, t)
      BY <2>6
    <3>5. QED
      BY <2>7, <3>1, <3>3, <3>4
  <2>9. KnownInv'
    <3> SUFFICES ASSUME NEW q \in Runs, NEW w \in Workspaces, NEW t \in Targets
                 PROVE  (file[Dst(w, t)].body \in {Known(q, w, t), None} \cup UserTexts)'
      BY DEF KnownInv
    <3>1. q = r
      BY DEF Alone
    <3>2. QED
      BY <2>8, <3>1
  <2>10. QED
    BY <2>6, <2>9
<1>9. CASE Flush(r)
  <2>1. /\ run[r].pc = "flush" /\ run[r].pc \in InLoop /\ UNCHANGED manifest
        /\ run' = [run EXCEPT ![r] = Done(r, run[r].fresh)]
        /\ file' = [file EXCEPT ![Place(r)] = run[r].buf]
    BY <1>9 DEF Flush, InLoop
  <2>2. run[r].fresh \in Contents /\ run[r].buf \in File /\ Place(r) \in Places
    BY <1>1, <2>1, PlaceTyped DEF Active
  <2>3. file'[Place(r)].body = run[r].fresh
    BY <1>1, <2>1, <2>2 DEF FreshInv
  <2>4. QED
    BY <2>1, <2>2, <2>3, DoneConflict
<1>10. CASE OpenManifest(r)
  <2>1. /\ run[r].pc = "open_manifest" /\ UNCHANGED file
        /\ manifest' = [manifest EXCEPT ![run[r].ws] = Torn]
    BY <1>10 DEF OpenManifest
  <2>2. run[r] \in Active /\ run[r].todo = <<>>
    BY <1>1, <1>2, <2>1 DEF Idle, VisitInv
  <2> DEFINE next == [run[r] EXCEPT !.pc = "write_manifest"]
  <2>3. run' = [run EXCEPT ![r] = next]
    BY <1>10 DEF OpenManifest
  <2>4. /\ next \in Active /\ next.pc = "write_manifest"
        /\ next.ws = run[r].ws /\ next.todo = run[r].todo
        /\ next.prior = run[r].prior /\ next.new = run[r].new
    BY <2>2 DEF Active, PC
  <2> HIDE DEF next
  <2>5. \A w \in Workspaces : w # run[r].ws => manifest'[w] = manifest[w]
    BY <1>1, <2>1 DEF IInv, TypeOK
  <2>6. /\ VisitInv' /\ FreshInv'
        /\ \A w \in Workspaces, t \in Targets : Known(r, w, t)' = Known(r, w, t)
    BY <1>3, <2>1, <2>2, <2>3, <2>4, <2>5 DEF Merging, InLoop
  <2>7. QED
    BY <2>1, <2>6, KnownKept
<1>11. CASE WriteManifest(r)
  <2>1. /\ run[r].pc = "write_manifest" /\ UNCHANGED file
        /\ manifest' = [manifest EXCEPT ![run[r].ws] =
                          [readable |-> TRUE, hash |-> run[r].new]]
        /\ run' = [run EXCEPT ![r] = Idle]
    BY <1>11 DEF WriteManifest
  <2>2. run[r] \in Active /\ run[r].todo = <<>>
    BY <1>1, <1>2, <2>1 DEF Idle, VisitInv
  <2>3. run'[r].pc = "idle"
    BY <1>2, <2>1 DEF Idle
  <2>4. VisitInv' /\ FreshInv'
    BY <2>3 DEF VisitInv, FreshInv, Alone
  <2>5. ASSUME NEW w \in Workspaces, NEW t \in Targets
        PROVE  Known(r, w, t)' = Known(r, w, t)
    <3>1. Known(r, w, t)' = manifest'[w].hash[t]
      BY <2>3 DEF Known, Merging, InLoop
    <3>2. CASE w = run[r].ws
      <4>1. manifest'[w].hash = run[r].new
        BY <1>1, <2>1, <3>2 DEF IInv, TypeOK
      <4>2. ~Names(run[r].todo, t)
        BY <2>2 DEF Names
      <4>3. Known(r, w, t) = run[r].new[t]
        BY <2>1, <3>2, <4>2 DEF Known, Merging
      <4>4. QED
        BY <3>1, <4>1, <4>3
    <3>3. CASE w # run[r].ws
      <4>1. manifest'[w] = manifest[w]
        BY <1>1, <2>1, <3>3 DEF IInv, TypeOK
      <4>2. Known(r, w, t) = manifest[w].hash[t]
        BY <3>3 DEF Known
      <4>3. QED
        BY <3>1, <4>1, <4>2
    <3>4. QED
      BY <3>2, <3>3
  <2>6. QED
    BY <2>1, <2>4, <2>5, KnownKept
<1>12. QED
  BY <1>4, <1>5, <1>6, <1>7, <1>8, <1>9, <1>10, <1>11 DEF RunStep


(* A user who saves a file leaves the block, edits it, or takes it away. *)
LEMMA UserConflict ==
    ASSUME ConflictInv, User
    PROVE  VisitInv' /\ FreshInv' /\ KnownInv'
<1>1. IInv /\ file \in [Places -> File]
  BY DEF ConflictInv, IInv, TypeOK
<1>2. ASSUME UNCHANGED <<manifest, run>>,
             \A d \in Places : file'[d].body \in {file[d].body, None} \cup UserTexts
      PROVE  VisitInv' /\ FreshInv' /\ KnownInv'
  <2>1. VisitInv' /\ FreshInv'
    BY <1>2 DEF ConflictInv, VisitInv, FreshInv, Names
  <2>2. ASSUME NEW r \in Runs, NEW w \in Workspaces, NEW t \in Targets
        PROVE  (file[Dst(w, t)].body \in {Known(r, w, t), None} \cup UserTexts)'
    <3>1. file[Dst(w, t)].body \in {Known(r, w, t), None} \cup UserTexts
      BY DEF ConflictInv, KnownInv
    <3>2. Dst(w, t) \in Places
      BY DEF Places
    <3>3. file'[Dst(w, t)].body \in {file[Dst(w, t)].body, None} \cup UserTexts
      BY <1>2, <3>2
    <3>4. Known(r, w, t)' = Known(r, w, t)
      BY <1>2 DEF Known
    <3>5. QED
      BY <3>1, <3>3, <3>4
  <2>3. QED
    BY <2>1, <2>2 DEF KnownInv
<1>3. ASSUME NEW d \in Places, NEW f, UserSaves(d, f),
             f.body \in {file[d].body, None} \cup UserTexts
      PROVE  VisitInv' /\ FreshInv' /\ KnownInv'
  <2>1. file' = [file EXCEPT ![d] = f] /\ UNCHANGED <<manifest, run>>
    BY <1>3 DEF UserSaves
  <2>2. \A e \in Places : file'[e].body \in {file[e].body, None} \cup UserTexts
    BY <1>1, <1>3, <2>1
  <2>3. QED
    BY <1>2, <2>1, <2>2
<1>4. ASSUME NEW d \in Places, NEW u \in UserTexts, EditBlock(d, u)
      PROVE  VisitInv' /\ FreshInv' /\ KnownInv'
  <2>1. [file[d] EXCEPT !.body = u].body = u
    BY <1>1 DEF File
  <2>2. QED
    BY <1>3, <1>4, <2>1 DEF EditBlock
<1>5. ASSUME NEW d \in Places, EditBelowFooter(d) \/ WriteOutside(d)
      PROVE  VisitInv' /\ FreshInv' /\ KnownInv'
  <2>1. /\ [file[d] EXCEPT !.tail = TRUE].body = file[d].body
        /\ [file[d] EXCEPT !.exists = TRUE, !.outside = TRUE].body = file[d].body
    BY <1>1 DEF File
  <2>2. QED
    BY <1>3, <1>5, <2>1 DEF EditBelowFooter, WriteOutside
<1>6. ASSUME NEW d \in Places, RemoveBlock(d) \/ DeleteFile(d)
      PROVE  VisitInv' /\ FreshInv' /\ KnownInv'
  <2>1. [file[d] EXCEPT !.body = None, !.tail = FALSE].body = None /\ NoFile.body = None
    BY <1>1 DEF File, NoFile
  <2>2. QED
    BY <1>3, <1>6, <2>1 DEF RemoveBlock, DeleteFile
<1>7. ASSUME NEW w \in Workspaces, NEW c \in Contents, Learn(w, c)
      PROVE  VisitInv' /\ FreshInv' /\ KnownInv'
  BY <1>2, <1>7 DEF Learn
<1>8. QED
  BY <1>4, <1>5, <1>6, <1>7 DEF User

LEMMA StartConflict ==
    ASSUME Alone, Complete, ConflictInv, Command
    PROVE  VisitInv' /\ FreshInv' /\ KnownInv'
<1>1. PICK r \in Runs, w \in Workspaces, want \in Requests, force \in BOOLEAN :
        Start(r, w, want, force)
  BY DEF Command
<1>2. run'[r].pc = "compiled" /\ run'[r].todo = want
  BY <1>1 DEF Start, ConflictInv, IInv, TypeOK
<1>3. HostsOnce(want) /\ \A t \in Targets : Names(want, t)
  BY SyncAssumption DEF Complete, Names
<1>4. VisitInv' /\ FreshInv'
  BY <1>2, <1>3 DEF VisitInv, FreshInv, Alone
<1>5. \A x \in Workspaces, t \in Targets : Known(r, x, t)' = Known(r, x, t)
  BY <1>1, <1>2 DEF Start, Known, Merging, InLoop
<1>6. UNCHANGED file
  BY <1>1 DEF Start
<1>7. QED
  BY <1>4, <1>5, <1>6, KnownKept

LEMMA InitConflict == Complete /\ Init => ConflictInv
<1> SUFFICES ASSUME Complete, Init PROVE ConflictInv
  OBVIOUS
<1>1. \A r \in Runs : run[r].pc = "idle"
  BY DEF Init, Idle
<1>2. VisitInv /\ FreshInv
  BY <1>1 DEF VisitInv, FreshInv
<1>3. ASSUME NEW w \in Workspaces, NEW t \in Targets
      PROVE  file[Dst(w, t)].body = None
  <2>1. NoFile.body = None /\ [EmptyFile EXCEPT !.outside = TRUE].body = None
    BY DEF NoFile, EmptyFile
  <2>2. Dst(w, t) \in Places
    BY DEF Places
  <2>3. QED
    BY <2>1, <2>2 DEF Init
<1>4. KnownInv
  BY <1>3 DEF KnownInv
<1>5. QED
  BY <1>2, <1>4, InitIInv DEF ConflictInv

LEMMA NextConflict ==
    ASSUME Alone, Complete, Unshared, "abort" \notin Faults
    PROVE  ConflictInv /\ [Next]_vars => ConflictInv'
<1> SUFFICES ASSUME ConflictInv, [Next]_vars
             PROVE  VisitInv' /\ FreshInv' /\ KnownInv'
  BY NextIInv DEF ConflictInv
<1>1. CASE User
  BY <1>1, UserConflict
<1>2. CASE Command
  BY <1>2, StartConflict
<1>3. ASSUME NEW r \in Runs, RunStep(r) \/ Abort(r)
      PROVE  VisitInv' /\ FreshInv' /\ KnownInv'
  BY <1>3, RunConflict DEF Abort
<1>4. CASE UNCHANGED vars
  BY <1>4 DEF vars, ConflictInv, VisitInv, FreshInv, KnownInv, Known, Names
<1>5. QED
  BY <1>1, <1>2, <1>3, <1>4 DEF Next

(* Where one terminal at a time syncs every target of its workspace to the *)
(* end, a run skips a section as locally modified only if it holds an edit *)
(* of the user's - even if editors save the files in the middle of a run.  *)
THEOREM SkipsOnlyEdits ==
    ASSUME Alone, Complete, Unshared, "abort" \notin Faults
    PROVE  Spec => []ConflictIsAnEdit
<1>1. Init => ConflictInv
  BY InitConflict
<1>2. ConflictInv /\ [Next]_vars => ConflictInv'
  BY NextConflict
<1>3. ConflictInv => ConflictIsAnEdit
  <2> SUFFICES ASSUME ConflictInv, NEW r \in Runs, run[r].pc = "decide",
                      VerdictOf(r) = "skip_locally_modified"
               PROVE  file[Place(r)].body \in UserTexts
    BY DEF ConflictIsAnEdit
  <2>1. IInv /\ VisitInv /\ run[r].pc \in InLoop
    BY DEF ConflictInv, InLoop
  <2>2. run[r] \in Active /\ Current(r) \in Targets
    BY <2>1, PlaceTyped
  <2>3. run[r].todo \in Seq(Targets) /\ run[r].todo # <<>> /\ HostsOnce(run[r].todo)
    BY <2>1, <2>2 DEF Active, IInv, LoopInv, VisitInv
  <2>4. Names(run[r].todo, Current(r))
    BY <2>3, TailNames DEF Current
  <2>5. Known(r, run[r].ws, Current(r)) = run[r].prior[Current(r)]
    BY <2>1, <2>4 DEF Known, Merging
  <2>6. file[Place(r)].body \in {run[r].prior[Current(r)], None} \cup UserTexts
    BY <2>2, <2>5 DEF ConflictInv, KnownInv, Place, Active
  <2>7. /\ file[Place(r)].body # None
        /\ file[Place(r)].body # run[r].prior[Current(r)]
    BY DEF VerdictOf, Verdict
  <2>8. QED
    BY <2>6, <2>7
<1>4. QED
  BY <1>1, <1>2, <1>3, PTL DEF Spec

---------------------------------------------------------------------------
(***************************************************************************)
(* What a user has outside the markers survives a run.  The bytes a run is *)
(* about to write were composed from the file as it still is, for nobody   *)
(* else touches it inside the window.                                      *)
(***************************************************************************)
ComposedInv ==
    \A r \in Runs :
        run[r].pc = "truncate" => run[r].buf.outside = file[Place(r)].outside

(* With a single process, the user text of a file is in one place. *)
LEMMA OneText ==
    ASSUME Alone, NEW r \in Runs, NEW d \in Places
    PROVE  HasUserText(d) <=> IF InFlush(r, d) THEN run[r].buf.outside
                              ELSE file[d].outside
  BY DEF HasUserText, Alone

LEMMA RunComposed ==
    ASSUME Alone, IInv, NEW r \in Runs, RunStep(r) \/ Abort(r)
    PROVE  ComposedInv'
<1> SUFFICES ASSUME run'[r].pc = "truncate"
             PROVE  (run[r].buf.outside = file[Place(r)].outside)'
  BY DEF ComposedInv, Alone
<1>1. CASE Compose(r)
  <2>1. run[r] \in Active /\ run[r].pc = "compose"
    BY <1>1, PlaceTyped DEF Compose, InLoop
  <2> DEFINE buf  == Composed(file[Place(r)], run[r].fresh)
             next == [run[r] EXCEPT !.pc = "truncate", !.buf = buf]
  <2>2. run' = [run EXCEPT ![r] = next] /\ UNCHANGED file
    BY <1>1 DEF Compose
  <2>3. buf.outside = file[Place(r)].outside
    BY DEF Composed
  <2>4. next.buf = buf /\ next.ws = run[r].ws /\ next.todo = run[r].todo
    BY <2>1 DEF Active
  <2> HIDE DEF next, buf
  <2>5. run'[r] = next
    BY <2>2 DEF IInv, TypeOK
  <2>6. QED
    BY <2>2, <2>3, <2>4, <2>5 DEF Place, Current
<1>2. CASE ~Compose(r)
  <2>1. ASSUME NEW entry \in Contents \cup {None}, run[r].pc \in InLoop,
               run' = [run EXCEPT ![r] = Done(r, entry)]
        PROVE  FALSE
    <3>1. Done(r, entry).pc \in {"decide", "open_manifest"}
      BY <2>1, DoneTyped
    <3>2. run'[r] = Done(r, entry)
      BY <2>1 DEF IInv, TypeOK
    <3>3. QED
      BY <3>1, <3>2
  <2>2. ASSUME NEW pc, pc # "truncate", NEW next, run' = [run EXCEPT ![r] = next],
               next.pc = pc
        PROVE  FALSE
    BY <2>2 DEF IInv, TypeOK
  <2>3. CASE Decide(r)
    <3>1. run[r].pc \in InLoop /\ run[r] \in Active
      BY <2>3, PlaceTyped DEF Decide, InLoop
    <3>2. run[r].prior[Current(r)] \in Contents \cup {None}
      BY <3>1, PlaceTyped DEF Active, Entries
    <3>3. [run[r] EXCEPT !.pc = "compose"].pc = "compose"
      BY <3>1 DEF Active
    <3>4. QED
      BY <2>1, <2>2, <2>3, <3>1, <3>2, <3>3 DEF Decide
  <2>4. CASE SkipWrite(r) \/ Flush(r)
    <3>1. run[r].pc \in InLoop
      BY <2>4 DEF SkipWrite, Flush, InLoop
    <3>2. run[r].fresh \in Contents
      BY <3>1, PlaceTyped DEF Active
    <3>3. QED
      BY <2>1, <2>4, <3>1, <3>2 DEF SkipWrite, Flush
  <2>5. CASE ReadManifest(r)
    <3>1. run[r] \in Active /\ Idle.pc = "idle"
      BY <2>5 DEF ReadManifest, IInv, TypeOK, Idle
    <3>2. [run[r] EXCEPT !.pc = "decide", !.prior = manifest[run[r].ws].hash].pc = "decide"
      BY <3>1 DEF Active
    <3>3. QED
      BY <2>2, <2>5, <3>1, <3>2 DEF ReadManifest
  <2>6. CASE Truncate(r) \/ OpenManifest(r)
    <3>1. run[r] \in Active
      BY <2>6 DEF Truncate, OpenManifest, IInv, TypeOK, Idle
    <3>2. /\ [run[r] EXCEPT !.pc = "flush"].pc = "flush"
          /\ [run[r] EXCEPT !.pc = "write_manifest"].pc = "write_manifest"
      BY <3>1 DEF Active
    <3>3. QED
      BY <2>2, <2>6, <3>2 DEF Truncate, OpenManifest
  <2>7. CASE WriteManifest(r) \/ Abort(r)
    BY <2>2, <2>7 DEF WriteManifest, Abort, Idle
  <2>8. QED
    BY <1>2, <2>3, <2>4, <2>5, <2>6, <2>7 DEF RunStep
<1>3. QED
  BY <1>1, <1>2


LEMMA NextComposed ==
    ASSUME Alone, "race" \notin Faults
    PROVE  IInv /\ ComposedInv /\ [Next]_vars => (IInv /\ ComposedInv)'
<1> SUFFICES ASSUME IInv, ComposedInv, [Next]_vars
             PROVE  ComposedInv'
  BY NextIInv
<1>1. CASE User
  <2>1. ASSUME NEW d \in Places, NEW f, UserSaves(d, f)
        PROVE  ComposedInv'
    <3> SUFFICES ASSUME NEW r \in Runs, run[r].pc = "truncate"
                 PROVE  (run[r].buf.outside = file[Place(r)].outside)'
      BY <2>1 DEF UserSaves, ComposedInv
    <3>1. run'[r] = run[r] /\ Place(r)' = Place(r)
      BY <2>1 DEF UserSaves, Place, Current
    <3>2. Place(r) # d
      BY <2>1 DEF UserSaves, Unattended, InWindow
    <3>3. file'[Place(r)] = file[Place(r)]
      BY <2>1, <3>2, PlaceTyped DEF UserSaves, IInv, TypeOK, InLoop
    <3>4. run[r].buf.outside = file[Place(r)].outside
      BY DEF ComposedInv
    <3>5. QED
      BY <3>1, <3>3, <3>4
  <2>2. ASSUME NEW w \in Workspaces, NEW c \in Contents, Learn(w, c)
        PROVE  ComposedInv'
    BY <2>2 DEF Learn, ComposedInv, Place, Current
  <2>3. QED
    BY <1>1, <2>1, <2>2 DEF User, EditBlock, EditBelowFooter, WriteOutside,
       RemoveBlock, DeleteFile
<1>2. CASE Command
  <2>1. PICK r \in Runs : run'[r].pc = "compiled"
    BY <1>2 DEF Command, Start, IInv, TypeOK
  <2>2. QED
    BY <2>1 DEF ComposedInv, Alone
<1>3. ASSUME NEW r \in Runs, RunStep(r) \/ Abort(r)
      PROVE  ComposedInv'
  BY <1>3, RunComposed
<1>4. CASE UNCHANGED vars
  BY <1>4 DEF vars, ComposedInv, Place, Current
<1>5. QED
  BY <1>1, <1>2, <1>3, <1>4 DEF Next

(* A step of the single process, file by file. *)
LEMMA StepKeepsText ==
    ASSUME Alone, IInv, ComposedInv, NEW r \in Runs, RunStep(r),
           NEW d \in Places, HasUserText(d)
    PROVE  HasUserText(d)'
<1>1. IF InFlush(r, d) THEN run[r].buf.outside ELSE file[d].outside
  BY OneText
<1>2. SUFFICES IF InFlush(r, d)' THEN run'[r].buf.outside ELSE file'[d].outside
  BY DEF HasUserText, Alone
<1>3. CASE Truncate(r)
  <2>1. /\ run[r].pc = "truncate" /\ run[r] \in Active /\ Place(r) \in Places
    BY <1>3, PlaceTyped DEF Truncate, InLoop
  <2> DEFINE next == [run[r] EXCEPT !.pc = "flush"]
  <2>2. run' = [run EXCEPT ![r] = next] /\ file' = [file EXCEPT ![Place(r)] = EmptyFile]
    BY <1>3 DEF Truncate
  <2>3. /\ next.pc = "flush" /\ next.buf = run[r].buf /\ next.ws = run[r].ws
        /\ next.todo = run[r].todo
    BY <2>1 DEF Active
  <2> HIDE DEF next
  <2>4. run'[r] = next
    BY <2>2 DEF IInv, TypeOK
  <2>5. InFlush(r, d)' <=> Place(r) = d
    BY <2>3, <2>4 DEF InFlush, Place, Current
  <2>6. file[d].outside
    BY <1>1, <2>1 DEF InFlush
  <2>7. CASE Place(r) = d
    BY <2>1, <2>3, <2>4, <2>5, <2>6, <2>7 DEF ComposedInv
  <2>8. CASE Place(r) # d
    BY <2>2, <2>5, <2>6, <2>8 DEF IInv, TypeOK
  <2>9. QED
    BY <2>7, <2>8
<1>4. CASE Flush(r)
  <2>1. run[r].pc = "flush" /\ run[r].pc \in InLoop
    BY <1>4 DEF Flush, InLoop
  <2>2. Place(r) \in Places /\ run[r].fresh \in Contents
    BY <2>1, PlaceTyped DEF Active
  <2>3. Done(r, run[r].fresh).pc \in {"decide", "open_manifest"}
    BY <2>1, <2>2, DoneTyped
  <2>4. run'[r] = Done(r, run[r].fresh)
    BY <1>4 DEF Flush, IInv, TypeOK
  <2>5. ~InFlush(r, d)'
    BY <2>3, <2>4 DEF InFlush
  <2>6. file'[d] = IF d = Place(r) THEN run[r].buf ELSE file[d]
    BY <1>4 DEF Flush, IInv, TypeOK
  <2>7. InFlush(r, d) <=> d = Place(r)
    BY <2>1 DEF InFlush
  <2>8. QED
    BY <1>1, <2>5, <2>6, <2>7
<1>5. CASE ~Truncate(r) /\ ~Flush(r)
  <2>1. UNCHANGED file /\ run[r].pc # "flush"
    BY <1>5 DEF RunStep, ReadManifest, Decide, Compose, SkipWrite, OpenManifest,
       WriteManifest
  <2>2. run'[r].pc # "flush"
    <3>1. ASSUME NEW entry \in Contents \cup {None}, run[r].pc \in InLoop,
                 run' = [run EXCEPT ![r] = Done(r, entry)]
          PROVE  run'[r].pc # "flush"
      <4>1. Done(r, entry).pc \in {"decide", "open_manifest"}
        BY <3>1, DoneTyped
      <4>2. run'[r] = Done(r, entry)
        BY <3>1 DEF IInv, TypeOK
      <4>3. QED
        BY <4>1, <4>2
    <3>2. ASSUME NEW next, run' = [run EXCEPT ![r] = next], next.pc # "flush"
          PROVE  run'[r].pc # "flush"
      BY <3>2 DEF IInv, TypeOK
    <3>3. CASE Decide(r)
      <4>1. run[r].pc \in InLoop /\ run[r] \in Active
        BY <3>3, PlaceTyped DEF Decide, InLoop
      <4>2. run[r].prior[Current(r)] \in Contents \cup {None}
        BY <4>1, PlaceTyped DEF Active, Entries
      <4>3. [run[r] EXCEPT !.pc = "compose"].pc = "compose"
        BY <4>1 DEF Active
      <4>4. QED
        BY <3>1, <3>2, <3>3, <4>1, <4>2, <4>3 DEF Decide
    <3>4. CASE SkipWrite(r)
      <4>1. run[r].pc \in InLoop
        BY <3>4 DEF SkipWrite, InLoop
      <4>2. run[r].fresh \in Contents
        BY <4>1, PlaceTyped DEF Active
      <4>3. QED
        BY <3>1, <3>4, <4>1, <4>2 DEF SkipWrite
    <3>5. CASE ReadManifest(r) \/ Compose(r) \/ OpenManifest(r)
      <4>1. run[r] \in Active /\ Idle.pc = "idle"
        BY <3>5 DEF ReadManifest, Compose, OpenManifest, IInv, TypeOK, Idle
      <4>2. /\ [run[r] EXCEPT !.pc = "decide", !.prior = manifest[run[r].ws].hash].pc = "decide"
            /\ [run[r] EXCEPT !.pc = "write_manifest"].pc = "write_manifest"
        BY <4>1 DEF Active
      <4>3. [run[r] EXCEPT !.pc = "truncate",
                           !.buf = Composed(file[Place(r)], run[r].fresh)].pc = "truncate"
        BY <4>1 DEF Active
      <4>4. QED
        BY <3>2, <3>5, <4>1, <4>2, <4>3 DEF ReadManifest, Compose, OpenManifest
    <3>6. CASE WriteManifest(r)
      BY <3>2, <3>6 DEF WriteManifest, Idle
    <3>7. QED
      BY <1>5, <3>3, <3>4, <3>5, <3>6 DEF RunStep
  <2>3. QED
    BY <1>1, <2>1, <2>2 DEF InFlush
<1>6. QED
  BY <1>3, <1>4, <1>5

(* NFR-1003: a run that nobody kills and whose files nobody saves meanwhile *)
(* hands back what the user has outside the markers, at every step: what    *)
(* the open file has lost the run still holds.                              *)
THEOREM OutsideSurvives ==
    ASSUME Alone, "race" \notin Faults, "abort" \notin Faults
    PROVE  Spec => OutsideKept
<1> DEFINE Kept == \A d \in Places : run' # run /\ HasUserText(d) => HasUserText(d)'
<1>1. Init => IInv /\ ComposedInv
  BY InitIInv DEF Init, Idle, ComposedInv
<1>2. IInv /\ ComposedInv /\ [Next]_vars => (IInv /\ ComposedInv)'
  BY NextComposed
<1>3. IInv /\ ComposedInv /\ [Next]_vars => Kept
  <2> SUFFICES ASSUME IInv, ComposedInv, [Next]_vars, run' # run,
                      NEW d \in Places, HasUserText(d)
               PROVE  HasUserText(d)'
    OBVIOUS
  <2>1. CASE User
    BY <2>1 DEF User, EditBlock, EditBelowFooter, WriteOutside, RemoveBlock,
       DeleteFile, Learn, UserSaves
  <2>2. CASE Command
    <3>1. PICK r \in Runs : /\ run[r].pc = "idle" /\ run'[r].pc = "compiled"
                            /\ UNCHANGED file
      BY <2>2 DEF Command, Start, IInv, TypeOK
    <3>2. file[d].outside
      BY <3>1 DEF HasUserText, InFlush, Alone
    <3>3. QED
      BY <3>1, <3>2 DEF HasUserText, InFlush, Alone
  <2>3. ASSUME NEW r \in Runs, RunStep(r) \/ Abort(r)
        PROVE  HasUserText(d)'
    BY <2>3, StepKeepsText DEF Abort
  <2>4. CASE UNCHANGED vars
    BY <2>4 DEF vars
  <2>5. QED
    BY <2>1, <2>2, <2>3, <2>4 DEF Next
<1>4. Spec => [][Kept]_vars
  BY <1>1, <1>2, <1>3, PTL DEF Spec
<1>5. QED
  BY <1>4, PTL DEF Kept, OutsideKept
=============================================================================
