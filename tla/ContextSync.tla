---------------------------- MODULE ContextSync ----------------------------
(***************************************************************************)
(* `garage sync`: the knowledge of a workspace is compiled into one block  *)
(* of text and written, between two markers, into the context file of      *)
(* every requested host (CLAUDE.md, garage-context.mdc, AGENTS.md).  The   *)
(* rest of those files belongs to the user.  A manifest remembers the hash *)
(* of the block last written to each (host, scope); a run compares three   *)
(* values - block on disk, manifest entry, fresh block - to tell a block   *)
(* the user edited from one that is merely out of date.                    *)
(*                                                                         *)
(* A run is a process: it compiles, reads the manifest, then decides,      *)
(* composes and writes host by host, and writes the manifest last.  Files  *)
(* are written in place (write_bytes, write_text), so each write is an     *)
(* open that truncates and a flush.  Runs of several terminals and of      *)
(* several workspaces may overlap; a user-scope file is shared by all.     *)
(*                                                                         *)
(* A block is identified with its SHA-256 (the hash of two different texts *)
(* is assumed to differ); the time-stamp footer is not part of it.         *)
(***************************************************************************)
EXTENDS Naturals, Sequences, FiniteSets

CONSTANTS
    Runs,         \* processes that may execute `garage sync`
    Workspaces,   \* project directories, each with its own .garage/
    Hosts,        \* host adapters
    Requests,     \* the (host, scope) lists a command line resolves to, sorted
    Contents,     \* blocks the compiler can produce
    UserTexts,    \* blocks a user can leave after editing one
    None,         \* no block in the file / no entry in the manifest
    Faults        \* which of "abort", "race", "footer" the environment does

Scopes == {"project", "user"}
Targets == UNION {{want[i] : i \in DOMAIN want} : want \in Requests}

(* sorted(set(hosts)): a host is visited once, at one scope. *)
HostsOnce(want) == \A i, j \in DOMAIN want : want[i][1] = want[j][1] => i = j

ASSUME SyncAssumption ==
    /\ Requests \subseteq Seq(Hosts \X Scopes)
    /\ \A want \in Requests : want # <<>> /\ HostsOnce(want)
    /\ Contents \cap UserTexts = {}
    /\ None \notin Contents \cup UserTexts
    /\ "home" \notin Workspaces
    /\ Faults \subseteq {"abort", "race", "footer"}

VARIABLES
    file,       \* the context files: block, text after its footer, user text
    knowledge,  \* what compile_garage_section would return in each workspace
    manifest,   \* sync-manifest.json of each workspace
    run         \* the state of every process

vars == <<file, knowledge, manifest, run>>

(***************************************************************************)
(* Files.  `body` is the block up to its footer, `tail` that somebody      *)
(* typed between the footer and the end marker, `outside` that the file    *)
(* holds user text outside the markers.                                    *)
(***************************************************************************)
Body   == Contents \cup UserTexts \cup {None}
File   == [exists : BOOLEAN, body : Body, tail : BOOLEAN, outside : BOOLEAN]
NoFile == [exists |-> FALSE, body |-> None, tail |-> FALSE, outside |-> FALSE]
EmptyFile == [NoFile EXCEPT !.exists = TRUE]

Dst(w, t) == IF t[2] = "user" THEN <<"home", t[1]>> ELSE <<w, t[1]>>
Places == {Dst(w, t) : w \in Workspaces, t \in Targets}

Entries   == [Targets -> Contents \cup {None}]
NoEntries == [t \in Targets |-> None]
Manifest  == [readable : BOOLEAN, hash : Entries]
Torn      == [readable |-> FALSE, hash |-> NoEntries]

(* A process is idle, or knows its workspace, the targets it still has to  *)
(* visit, --force, the compiled block, the manifest it read, the one it    *)
(* will write, and the bytes it has composed.                              *)
PC == {"compiled", "decide", "compose", "truncate", "flush",
       "open_manifest", "write_manifest"}
Active == [pc : PC, ws : Workspaces, todo : Seq(Targets), force : BOOLEAN,
           fresh : Contents, prior : Entries, new : Entries, buf : File]
Idle == [pc |-> "idle"]

TypeOK ==
    /\ file \in [Places -> File]
    /\ knowledge \in [Workspaces -> Contents]
    /\ manifest \in [Workspaces -> Manifest]
    /\ run \in [Runs -> Active \cup {Idle}]

Init ==
    /\ file \in [Places -> {NoFile, [EmptyFile EXCEPT !.outside = TRUE]}]
    /\ knowledge \in [Workspaces -> Contents]
    /\ manifest = [w \in Workspaces |-> [readable |-> TRUE, hash |-> NoEntries]]
    /\ run = [r \in Runs |-> Idle]

---------------------------------------------------------------------------
(* The loop of sync_hosts over sorted(set(hosts)). *)

Current(r) == Head(run[r].todo)
Place(r)   == Dst(run[r].ws, Current(r))

(* A run is between its verdict on the file at d and the end of its write. *)
InWindow(r, d) == run[r].pc \in {"compose", "truncate", "flush"} /\ Place(r) = d

(* Seeded faults of the decision table, used to test the properties:       *)
(* --force is not asked for; a block nobody edited counts as up to date.   *)
Verdict_WithoutForce(f, fresh, prior, force) ==
    IF f.body = None THEN "write_new"
    ELSE IF f.body # prior THEN "overwrite_forced"
    ELSE IF fresh = prior THEN "unchanged" ELSE "update_from_source"

Verdict_NeverUpdates(f, fresh, prior, force) ==
    IF f.body = None THEN "write_new"
    ELSE IF f.body = prior THEN "unchanged"
    ELSE IF force THEN "overwrite_forced" ELSE "skip_locally_modified"

(* The decision table; has_marker_block is false of a file without a block. *)
Verdict(f, fresh, prior, force) ==
    IF f.body = None THEN "write_new"
    ELSE IF f.body = prior
         THEN IF fresh = prior THEN "unchanged" ELSE "update_from_source"
    ELSE IF force THEN "overwrite_forced" ELSE "skip_locally_modified"

VerdictOf(r) ==
    Verdict(file[Place(r)], run[r].fresh, run[r].prior[Current(r)], run[r].force)

(* Record the entry of the current target and go on to the next one. *)
Done(r, entry) ==
    LET left == Tail(run[r].todo) IN
    [run[r] EXCEPT !.pc = IF left = <<>> THEN "open_manifest" ELSE "decide",
                   !.todo = left,
                   !.new = [@ EXCEPT ![Current(r)] = entry],
                   !.buf = NoFile]

(* Seeded fault: a file is written without what the user has in it. *)
Composed_Fresh(f, fresh) ==
    [exists |-> TRUE, body |-> fresh, tail |-> FALSE, outside |-> FALSE]

(* Replace the block, or append one; keep what is outside the markers. *)
Composed(f, fresh) ==
    [exists |-> TRUE, body |-> fresh, tail |-> FALSE, outside |-> f.outside]

---------------------------------------------------------------------------
(* Phase 1: the command line is valid; compile the knowledge of w. *)
Start(r, w, want, force) ==
    /\ run[r].pc = "idle"
    /\ run' = [run EXCEPT ![r] =
                 [pc |-> "compiled", ws |-> w, todo |-> want, force |-> force,
                  fresh |-> knowledge[w], prior |-> NoEntries,
                  new |-> NoEntries, buf |-> NoFile]]
    /\ UNCHANGED <<file, knowledge, manifest>>

(* Phase 2: an unreadable manifest ends the run before any write. *)
ReadManifest(r) ==
    /\ run[r].pc = "compiled"
    /\ run' = [run EXCEPT ![r] =
                 IF manifest[run[r].ws].readable
                 THEN [@ EXCEPT !.pc = "decide",
                                !.prior = manifest[run[r].ws].hash]
                 ELSE Idle]
    /\ UNCHANGED <<file, knowledge, manifest>>

(* Seeded faults of phase 3: the block found on disk is recorded as synced; *)
(* a file that is left alone loses its entry.                              *)
Decide_AdoptsBlock(r) ==
    /\ run[r].pc = "decide"
    /\ run' = [run EXCEPT ![r] =
                 IF VerdictOf(r) \in {"unchanged", "skip_locally_modified"}
                 THEN Done(r, file[Place(r)].body)
                 ELSE [@ EXCEPT !.pc = "compose"]]
    /\ UNCHANGED <<file, knowledge, manifest>>

Decide_DropsEntry(r) ==
    /\ run[r].pc = "decide"
    /\ run' = [run EXCEPT ![r] =
                 IF VerdictOf(r) \in {"unchanged", "skip_locally_modified"}
                 THEN Done(r, None)
                 ELSE [@ EXCEPT !.pc = "compose"]]
    /\ UNCHANGED <<file, knowledge, manifest>>

(* Phase 3: a file that is left alone keeps its old manifest entry, if any. *)
Decide(r) ==
    /\ run[r].pc = "decide"
    /\ run' = [run EXCEPT ![r] =
                 IF VerdictOf(r) \in {"unchanged", "skip_locally_modified"}
                 THEN Done(r, run[r].prior[Current(r)])
                 ELSE [@ EXCEPT !.pc = "compose"]]
    /\ UNCHANGED <<file, knowledge, manifest>>

(* The file is read a second time to compose the new bytes. *)
Compose(r) ==
    /\ run[r].pc = "compose"
    /\ run' = [run EXCEPT ![r] = [@ EXCEPT
                 !.pc = "truncate",
                 !.buf = Composed(file[Place(r)], run[r].fresh)]]
    /\ UNCHANGED <<file, knowledge, manifest>>

(* Bytes that are already there (same second, same block) are not written. *)
SkipWrite(r) ==
    /\ run[r].pc = "truncate"
    /\ file[Place(r)] = run[r].buf
    /\ run' = [run EXCEPT ![r] = Done(r, run[r].fresh)]
    /\ UNCHANGED <<file, knowledge, manifest>>

(* write_bytes opens the file: its old content is gone. *)
Truncate(r) ==
    /\ run[r].pc = "truncate"
    /\ file' = [file EXCEPT ![Place(r)] = EmptyFile]
    /\ run' = [run EXCEPT ![r].pc = "flush"]
    /\ UNCHANGED <<knowledge, manifest>>

Flush(r) ==
    /\ run[r].pc = "flush"
    /\ file' = [file EXCEPT ![Place(r)] = run[r].buf]
    /\ run' = [run EXCEPT ![r] = Done(r, run[r].fresh)]
    /\ UNCHANGED <<knowledge, manifest>>

(* Phase 5: the manifest holds the targets of THIS run and no other. *)
OpenManifest(r) ==
    /\ run[r].pc = "open_manifest"
    /\ manifest' = [manifest EXCEPT ![run[r].ws] = Torn]
    /\ run' = [run EXCEPT ![r].pc = "write_manifest"]
    /\ UNCHANGED <<file, knowledge>>

WriteManifest(r) ==
    /\ run[r].pc = "write_manifest"
    /\ manifest' = [manifest EXCEPT ![run[r].ws] =
                      [readable |-> TRUE, hash |-> run[r].new]]
    /\ run' = [run EXCEPT ![r] = Idle]
    /\ UNCHANGED <<file, knowledge>>

(* OSError (exit 1), an unreadable file, a kill: the run stops where it is. *)
Abort(r) ==
    /\ "abort" \in Faults
    /\ run[r].pc # "idle"
    /\ run' = [run EXCEPT ![r] = Idle]
    /\ UNCHANGED <<file, knowledge, manifest>>

RunStep(r) ==
    \/ ReadManifest(r) \/ Decide(r) \/ Compose(r) \/ SkipWrite(r)
    \/ Truncate(r) \/ Flush(r) \/ OpenManifest(r) \/ WriteManifest(r)

---------------------------------------------------------------------------
(* The user: editors save the context files, knowledge is added.  Without  *)
(* the "race" fault nobody saves a file while a run is in its window.      *)

Unattended(d) == "race" \in Faults \/ \A r \in Runs : ~InWindow(r, d)

UserSaves(d, f) ==
    /\ Unattended(d)
    /\ file' = [file EXCEPT ![d] = f]
    /\ UNCHANGED <<knowledge, manifest, run>>

EditBlock(d, u) ==
    /\ file[d].body \notin UserTexts \cup {None}
    /\ UserSaves(d, [file[d] EXCEPT !.body = u])

EditBelowFooter(d) ==
    /\ "footer" \in Faults
    /\ file[d].body # None
    /\ UserSaves(d, [file[d] EXCEPT !.tail = TRUE])

WriteOutside(d) ==
    /\ ~file[d].outside
    /\ UserSaves(d, [file[d] EXCEPT !.exists = TRUE, !.outside = TRUE])

RemoveBlock(d) ==
    /\ file[d].body # None
    /\ UserSaves(d, [file[d] EXCEPT !.body = None, !.tail = FALSE])

DeleteFile(d) ==
    /\ file[d].exists
    /\ UserSaves(d, NoFile)

Learn(w, c) ==
    /\ c # knowledge[w]
    /\ knowledge' = [knowledge EXCEPT ![w] = c]
    /\ UNCHANGED <<file, manifest, run>>

User ==
    \/ \E d \in Places : \/ \E u \in UserTexts : EditBlock(d, u)
                         \/ EditBelowFooter(d)
                         \/ WriteOutside(d)
                         \/ RemoveBlock(d)
                         \/ DeleteFile(d)
    \/ \E w \in Workspaces, c \in Contents : Learn(w, c)

Command ==
    \E r \in Runs, w \in Workspaces, want \in Requests, force \in BOOLEAN :
        Start(r, w, want, force)

Next ==
    \/ User
    \/ Command
    \/ \E r \in Runs : RunStep(r) \/ Abort(r)

Spec == Init /\ [][Next]_vars

(* The operating system keeps running the processes it has started.  *)
FairSpec == Spec /\ \A r \in Runs : WF_vars(RunStep(r))

---------------------------------------------------------------------------
(* Correctness. *)

(* Refinement of the promise made in OwnedSection. *)
Section    == [d \in Places |-> file[d].body]
Opened     == {d \in Places : \E r \in Runs : InWindow(r, d)}
Overridden == {d \in Places : \E r \in Runs : InWindow(r, d) /\ run[r].force}

Owned == INSTANCE OwnedSection
            WITH text <- Section, open <- Opened, override <- Overridden

(* Without the "race" fault every behaviour of any number of overlapping,  *)
(* aborted, partial and cross-workspace runs keeps the promise: a section  *)
(* the user edited is overwritten by a forced run only (_decide_action).   *)
SectionIsOwned == Owned!Spec

(* The invariant behind it: an unforced run that goes on to write still    *)
(* has a section of the tool's in front of it, not an edit of the user's.  *)
NoEditInWindow ==
    \A r \in Runs, d \in Places :
        InWindow(r, d) /\ ~run[r].force => file[d].body \notin UserTexts

(* A run reports SKIP_LOCALLY_MODIFIED ("has been manually edited since    *)
(* last sync", pipeline.py:280) only of a section a user did edit.         *)
ConflictIsAnEdit ==
    \A r \in Runs :
        run[r].pc = "decide" /\ VerdictOf(r) = "skip_locally_modified" =>
            file[Place(r)].body \in UserTexts

InFlush(r, d) == run[r].pc = "flush" /\ Place(r) = d

(* The user text of a file, which an open file keeps in the run's buffer. *)
HasUserText(d) ==
    IF \E r \in Runs : InFlush(r, d)
    THEN \E r \in Runs : InFlush(r, d) /\ run[r].buf.outside
    ELSE file[d].outside

(* NFR-1003: whatever a run does, the text outside the markers stays. *)
OutsideKept ==
    [][\A d \in Places : run' # run /\ HasUserText(d) => HasUserText(d)']_vars

(* Convergence: when users leave the files and the knowledge alone and     *)
(* `garage sync` is run again and again, every requested file ends up with *)
(* the current knowledge, unless it holds an edit.                         *)
InSync ==
    \A w \in Workspaces, t \in Targets :
        file[Dst(w, t)].body \in {knowledge[w]} \cup UserTexts

Converges ==
    (<>[][~User]_vars /\ []<><<Command>>_vars) => <>[]InSync
=============================================================================
