# TLA+ verification of garage-agent (`garage_os`)

garage-agent is a local-first store of what an agent learns: sessions, knowledge,
experience and skill packs are files under `.garage/` and `packs/`, with copies in the
directories of AI hosts (Claude Code, Cursor, OpenCode). Every command (`garage sync`,
`garage memory review`, `garage pack update`, ...) is a process of its own that reads
some files, decides, and writes others. There is no server and no transaction: what can
go wrong are sequences of commands, commands that overlap, commands that stop half-way,
and files that people edit in between. The modules of this directory model those
sequences of file operations; TLC checks them on small instances and TLAPS proves the
main properties for every instance.

Source paths below are relative to the repository; the package is `src/garage_os/`.

## 1. The system

| Component | State it keeps | Operations | What makes it correct |
|---|---|---|---|
| `sync/` | marked block in CLAUDE.md, AGENTS.md, garage-context.mdc; `sync-manifest.json` | `garage sync [--hosts] [--scope] [--force]` | edits are never overwritten unforced; only edits are called conflicts; text outside the markers stays; files become current |
| `runtime/session_manager.py` | `sessions/active/<id>/`, `sessions/archived/<id>/`, checkpoints | create, update, checkpoint, archive, archive_expired, recover | one extraction per session; archives are final; ids are unique; what was checkpointed is recoverable |
| `memory/` | candidates, batches, confirmations, published entries | extraction, `garage memory review` with six actions, publishing | confirmed before published; versions count; conflicts are chosen; batches are complete |
| `adapter/installer/` | `packs/`, skill copies in hosts, `host-installer.json` | `garage init`, `garage pack install/update/uninstall/publish` | manifest and disk agree; one owner per file; edits are kept; failures undo |
| `knowledge/` | one Markdown file per entry, an index in memory; experience records and `index.json` | store, update, delete, search | index and files agree |
| `skill_mining/` | suggestions in a directory per status | detect, move, expire, promote | a suggestion is in one directory; nothing suggested twice |
| `workflow_recall/` | none (its cache is never written) | recall, invalidate | the most frequent ways are told |
| `sync/compiler.py`, `memory/recommendation_service.py` | none | compile, recommend | nothing that ranks higher is left out; what is listed keeps the budget |
| `runtime/skill_executor.py`, `state_machine.py`, `error_handler.py` | a state in memory, the session's state on disk | execute, pause, resume, retry | legal transitions; disk follows memory; retries end |
| `runtime/artifact_board_sync.py` | the board file and artifact files | sync, log | board and artifacts agree |
| `ingest/` | imported conversations as sessions | import | imported once |
| `platform/`, `storage/`, `tools/` | versions; atomic files, locks; a YAML registry | migrate; write, read; register | building blocks |
| `cli.py` | none | the commands | calls the above |

How they interact. The **session manager** calls **extraction** when it archives
(`_trigger_memory_extraction`), and extraction files candidates; **review** publishes them
into the **knowledge store**; **sync** compiles knowledge into the hosts' context files;
**init/packs** put skills into the same hosts; the **skill executor** updates and
checkpoints sessions; what sessions left is what **mining** counts and **recommend** and
**recall** search. There are no messages: one component calls another in its own
process, and processes meet in the files. `AtomicWriter` replaces a file in one rename
(sessions, candidates, knowledge); sync, the two manifests and `pack.json` are written in
place. `FileLock` covers a single write, never a read and the write that follows from it.

What is hard, then: overlapping read-decide-write sequences, kills between two writes,
partially failed runs whose rollback covers one of several places, records (hashes,
checksums, batch lists) that have to keep agreeing with files over long sequences of
commands, and edits by users at any time. `PROJECT.json` lists these hazards line by
line with the properties that would catch each.

## 2. How the project is laid out

Each stateful component has a module, an `MC` module with TLC's instances and, where
properties hold for every instance by an inductive argument, a `_proofs` module.

| Module | Of | Composes or refines | Proofs |
|---|---|---|---|
| ContextSync | sync | implements OwnedSection | yes |
| SessionStore | session manager, storage | | yes |
| MemoryReview | extraction, review, publisher | takes what MemoryExtraction computes | yes |
| PackLifecycle | init, install, update, uninstall, publish | | yes |
| SkillExecution | executor, state machine, error handler | | yes |
| KnowledgeBase | knowledge and experience stores, integration, their commands | | yes |
| SkillSuggestions | skill mining with run and import, which feed it | | yes |
| ContextQueries | compiler, recommendation, recall, related entries | uses ArtifactBoard, MemoryExtraction | yes |
| ArtifactBoard, MemoryExtraction | board sync, choice of candidates, as functions | | |

Every safety property a run checks has a theorem; what is only model-checked is at the end
of section 5. What is left to do: theorems under weaker hypotheses where section 5 says
that the code would allow them, and the transfer of a knowledge export.

## 3. Modules and the code they model

An action is one handler step between two points where another process, a kill or an
editor can come between. Data are model values; hashes are identified with what they
hash (different texts are assumed to have different SHA-256 sums).

**ContextSync** (`sync/pipeline.py`, `sync/manifest.py`, `sync/render/`).
`file` is a context file: block body, whether there is text after the footer, whether
there is user text outside the markers. `knowledge` is what `compile_garage_section`
would return; `manifest` the entry per (host, scope); `run` a process: phase, remaining
targets, compiled block, prior entries, new entries, buffer. `Start` = phase 1,
`ReadManifest` = phase 2, `Decide` = `_decide_action` and its consequence, `Compose` =
`_compose_full_file_content`, `SkipWrite` / `Truncate` / `Flush` = the write_bytes branch
(opened, then filled), `OpenManifest` / `WriteManifest` = phase 5, `Abort` = an exception
or kill anywhere. Users edit the block, type below its footer, write outside, remove the
block or the file, and learn.

**OwnedSection** is the promise: outside a run a section is the user's; a run may replace
it; an edit falls to a forced run only. ContextSync implements it by mapping `text` to the
block bodies, `open` and `override` to the files some (forced) run has decided to write.

**SessionStore** (`runtime/session_manager.py`, `storage/`). `active` and `archived` are
directories: session.json (there, state, checksum, older than the timeout), the sequence
of checkpoints, the error note. A file is abstracted to whether it parses and whether its
stored checksum is the one validation recomputes (`Seal`), which is all `recover_session`
looks at. `fired` counts extractions; `proc` is the call in progress. create_session is
`CreateCall` (id chosen), `MakeDir`, and two writes; update reads, then writes twice;
checkpoint writes, then seals, for any id it is given; archive checks, renames, notes,
extracts; a sweep lists, then archives one by one. `Crash` between any two. `Recovery` is
recover_session as an operator.

**MemoryReview** (`memory/`, the `memory review` command of `cli.py`, the parts of
`KnowledgeStore` publishing uses). `item`, `batch`, `confirm`, `entry` are files;
`extractor` the extraction of a session; `proc` a review with the index it loaded
(`seen`). Title and tags, which decide similarity, are one topic. Extraction stores
candidates, then the batch; a review reads (`ReviewCall`), writes the confirmation, goes
through `publish_candidate` (`Publish`: conflicts, version, superseded entries), stores,
and marks the candidate. Batch actions mark candidates one by one and close the batch.

**PackLifecycle** (`adapter/installer/pipeline.py`, `pack_install.py`,
`pack_discovery.py`, `manifest.py`, `marker.py`). `pack` is packs/<pack>/ (what
`discover_packs` would make of it, version, source_url), `file` and `side` a SKILL.md and
its sidecar directories per host, scope and skill; `manifest` is host-installer.json;
`proc` a command. `InitCall` = phases 1-2 of install_packs and reading the manifest;
`Decide` / `Skip` / `Stumble` = one target rendered and compared (`Overwrites` is
`_decide_action`), `Write` = write_bytes and the sidecars, a step later (`put` is what was
decided, so that an editor or another command can come between); `Merge` =
phase 5. install is `InstallCall`, `CopyBegins`, `CopyEnds`, `Stamp` (source_url),
`Verify`; update is `UpdateCall` (cloned, versions compared, user asked), `SwapOut`, the
same copy, then `Resync` into install_packs; uninstall is `UninstallCall` (plan),
`Confirm` / `Cancel`, `RemoveSide`, `RemoveFile`, `RemovePack`, `Drop`; publish is
`PublishCall` (pack.json read, the pack scanned for sensitive lines unless forced), the
prompt, `Push` and `WriteBack` of the pack.json it read. `Fails` is an
exception with the rollback the code has; `Collide` is finding what another process did.
Abstractions: versions differ in every skill; targets are visited in any order; the
manifest is read and merged in one step (a window of a few system calls), and so are a
SKILL.md and its sidecars written; copies of two commands into one directory do not mix;
an agent is a skill without sidecars; `installed_packs`, which nothing reads, is left out;
a directory that another command has half copied is not pushed.

**SkillExecution** (`runtime/skill_executor.py`, `state_machine.py`, `error_handler.py`).
`machine` is the one StateMachine, `contexts` the paused calls, `stored` the state in each
session's file, `call` where every thread is in execute_skill or resume_skill. `Prepare`,
`Invoke` (one attempt, any error the adapter can raise, retried as classify_error says),
`GiveUp` (a user's help is needed: PAUSED; else FAILED), `Keep` (the context, after the
machine is PAUSED), `Record` (the state into session.json), `Complete` and `Handle` (the
except branch). Transitions are atomic, nothing is held between them. `Restart` loses
memory and keeps files; a write to a session's file may fail and is swallowed.

**KnowledgeBase** (`knowledge/`, the knowledge and experience commands of `cli.py`).
`entry` is the file of an entry (version, tags, links), `index` each process's
KnowledgeStore in memory, both of its indexes; `record` and `listed` are the experience
records and index.json. A command is a list of steps yet to take, each one file operation:
`KnowledgeAdd`, `KnowledgeEdit`, `KnowledgeLink`, `KnowledgeDelete`, `ExperienceAdd`,
`ExperienceDelete`, `ExtractFromSession` and `RemoveCascade` plan them, `DoStep` takes the
first. `foreign` remembers which entries others changed since a process indexed.

**SkillSuggestions** (`skill_mining/`, `ingest/pipeline.py`, skill suggest, skill promote
and run in `cli.py`). `home` has the suggestion files by status directory and id, `due`
those past their expiry, `evidence` the entries and records sessions left, `skills` the
SKILL.md files, by the pack (`Targets`) they are in and the pattern they are named for; a
suggestion's `path` is the pack of its promoted_to_path. A move is `DoWrite` and
`DoUnlink` with anything in between; detection is a scan, then one directory after the
other, then a suggestion per pattern not covered; `Suggest`, `Reject`, `Promote`, `Import`
and `Run` plan the steps. `Expire` is time, `Publish` and `Forget` are reviews and
deletions, `Packs` installs and uninstalls.

**ContextQueries** (`sync/compiler.py`, `memory/recommendation_service.py`,
`workflow_recall/path_recaller.py`, find_related_knowledge, and the commands that print
them) asks one question after the other of a `base` nothing changes. `Compile`,
`AddItem`, `Truncate`, `NextSection` are the loop of compile_garage_section; `Recommend`,
`RecommendRun`, `Recall`, `FindRelated` are their functions. A text is the set of the
terms in it, scores are in tenths, ties stand in any order. `Rank` is the key items are
sorted by: the date of an entry, the record_id of a record. A context has no problem
domain in garage run, as in the program. `SyncBoard` and `Extract` ask
**ArtifactBoard** (`artifact_board_sync.py`: `Synced`, what raises, what the log ends up
with) and **MemoryExtraction** (`extraction_orchestrator.py`: which evidence of a session
becomes a candidate, and what is cut). Assumed of a base: finitely many entries and
records, typed as the stores write them; of the kinds: no repetition, as in kind_order.

## 4. What TLC checks

`PROJECT.json` has the mutants: for each property a plausible bug in a mapped definition
that makes TLC find it violated, written as an operator (`Verdict_WithoutForce`,
`Carried_OtherHosts`, ...) before the definition it replaces.

| Run | Instance | Shows |
|---|---|---|
| sync_single | 1 process, 1 workspace, 2 hosts, 2 blocks, complete host lists, all edits, fair | conflicts are edits (`ConflictIsAnEdit`), text outside markers kept (`OutsideKept`), files converge (`Converges`) |
| sync_overlap | 2 processes, 2 workspaces sharing a user-scope file, aborts | no edit in the window of an unforced run (`NoEditInWindow`); refinement of OwnedSection (`SectionIsOwned`) |
| session_races | 2 processes in all five calls on one id, kills, damaged files | extraction fires once, archives are final, types |
| session_one | 1 process, 2 ids, a checkpoint each, kills, fair | no session.json beside its archive, whatever is checkpointed; what stays expired is archived |
| review | 1 reviewer, killed anywhere: all six actions on one extraction, or two extractions of a session with an experience summary | batches complete, versions count, supersedes kept, conflicts chosen, confirmed before written |
| packs_clean | 1 process, 2 packs published and updated, 2 scopes, 2 releases, sidecars, edits and deletions | manifest and disk agree; "locally modified" means edited |
| packs_faults | 2 processes, 2 conflicting packs, an unusable release, failures, kills | one owner per file, no edit lost unasked that was there when it was compared, types |
| execution | 2 threads, a session and a call without one, restarts, failing writes, fair | the machine is never left RUNNING, one success, PAUSED can be resumed, a completed file means success, calls end |
| knowledge | 1 process with 2 types of entry and 2 records, or 2 sharing one of each, kills | searches agree with files, index.json and references are right at rest, changes build on each other |
| learning | 2 processes and one pattern, one process and two, or one with two packs to promote to; 2 sessions, kills | no suggestion lost, none asked twice, no promotion undone, no ripe pattern missed |
| queries | some 6000 bases, every question of each | the items of the section keep its budget and are dropped by rank (`CompiledByRank`); the best is recommended, advised and extracted, and the board follows the files (`AnswersHold`) |
| session_recover | 1 process, create and update only | **violated**: `IntactRecovers` |

*Bounds.* Two of everything that can conflict (processes, threads, workspaces, hosts,
packs, candidates on a topic, blocks) and two of everything that can be repeated
(releases, extractions, checkpoints, sessions that make a pattern): every property
relates at most two parties or a state and a later one. Unbounded quantities are cut in
guards (`MaxId`, `MaxPoints`, `MaxVersion`, `Passes`); ids, versions and checkpoints are
only compared for order or equality, so longer runs repeat the same cases. In
SkillSuggestions `Ids` are used once, so that with all of them used detection waits: its
third proposal is outside the bound. In ContextQueries an extraction has up to six
artifacts, one more than a batch has room for, and `MinPriority` (0.5 in the program,
which every signal exceeds) is 0.65, so that the threshold matters.

*Several instances in one run.* MCMemoryReview, MCKnowledgeBase and MCSkillSuggestions add
a variable `instance`, chosen at the start and never changed, and a state constraint
`Within` that bounds each: what one instance allows two processes, the others allow data.
The constraint cuts states, never steps, and the constants are those of all. Of the two
candidates of a batch the second is accepted or left alone and has a topic the first may
be edited to, so that either can be published first; processes that share an entry go up
to its second version, one process alone to the third; with two patterns there is one
skill at a time, and with two packs to promote to one suggestion, that does not expire. In
session_races `DamagedAlone` lets a checkpoint be damaged while at most one process is in
a call.

*Restrictions of an instance that matter.* packs_faults publishes nothing and publishing
in packs_clean has one process: two processes and a push do not fit the time (the
theorems cover them). Properties that say `~disturbed` speak of commands one after the
other (in SkillSuggestions also of a detection beside a decision); section 6 has what
happens otherwise. Symmetry is declared over processes and model values in safety runs
and for action properties only.

*Fairness.* `FairSpec` says that a process or thread that has been started goes on (weak
fairness of `RunStep` and `CallStep`): the operating system schedules it, nothing in
these calls blocks, and an adapter returns or raises. Nothing is assumed of users or of
when commands are started: `Converges` and `StaleIsSwept` have that as a premise (the user
leaves the files alone and runs sync again and again; sweeps are run again and again and,
from some time on, not killed), and `CallsEnd` has none.

*Deadlock* is checked except where a batch may never come to exist (a killed
extraction leaves nothing to review).

## 5. What TLAPS proves

For any number of processes, hosts, packs, sessions and so on, under the named ASSUMEs of
each module (which TLC evaluates in the runs). All leaves are checked.

* **ContextSync_proofs.** `IInv` = types, a run inside the loop has a target (`LoopInv`),
  a buffer holds a compiled block (`BufferInv`). `TypeCorrect`; with no editor saving
  inside the window between decision and write (`"race" \notin Faults`),
  `NoEditOverwritten` (no unforced run faces an edit) and `SyncImplementsOwnership`
  (every step maps to a step or a stutter of OwnedSection). The manifest never adopts an
  edit as "last synced", which is what makes the next decision right; that is in the
  type of its entries.
  `SkipsOnlyEdits`: only edits are called conflicts. Its invariant `KnownInv` says what
  is in a file at every point of a run: what the manifest in force for it (the one on
  disk, or while a run has not written its own, the prior entry of a target to come and
  the new entry of one that is done) has as last synced, no block, or a user's text.
  That needs all four hypotheses, and each is a divergence of section 6 or its kin: one
  process (`Alone`), which names all targets (`Complete`: a partial sync forgets the
  others), in workspaces that share no file (`Unshared`: the manifest is per workspace, a
  user-scope file is not), and is not killed between a file and the manifest. Editors may
  save at any moment, in the window too. `OutsideSurvives`: what is composed still has the
  text outside as the file has it (`ComposedInv`), so one process that runs to its end
  keeps it if no editor saves in the window.
* **SessionStore_proofs.** `IInv` = types, `Owners` (at most one process is past the
  rename of an id, with the archive there and not yet extracted), `Fired`. `TypeCorrect`,
  `ExtractionFiresOnce`, `ArchiveImmutable`, with kills and tampering.
  `SessionInOnePlace` for one process at a time, killed anywhere: who writes a
  session.json into active/ has an id that is not archived (`OInv`), and a new id is
  fresh because the numbers `_generate_session_id` exceeds have a greatest one. It speaks
  of session.json: a checkpoint of an archived session makes its directory again. Two
  processes do break it (an update that read before the move).
* **MemoryReview_proofs.** `IInv` = types, what a review in progress knows (`Knows`),
  extraction's list (`Drafted`), `BatchIsComplete`. `TypeCorrect` and `BatchesComplete`
  for any number of reviewers. `PublicationsCount`, `SupersededStays`,
  `ConfirmationComesFirst` and `ConflictsAreChosen` for one reviewer at a time
  (`OneReviewer`): they rest on `ReadsHold`, that what a review has read (the entry, the
  confirmation, the index) is still so when it writes, and two reviewers break that.
* **PackLifecycle_proofs.** `IInv` = types, `OneOwner`, and for a command in progress
  `Phase` and `Ledger`: its targets, its new entries and the manifest it read have one
  item per place, and no target is left for a place with a new entry. `TypeCorrect`,
  `OwnerUnique`, `EditsSurvive`, with overlapping commands, failures and kills.
  `EditsSurvive` excepts, besides forced runs and uninstalls, a text saved after the file
  was compared: `Aimed` has what is known of a decision that has not been written yet.
  `DiskOnRecord` and `SkipsAreEdits` (manifest and disk agree; a file is skipped only for
  a user's text) by `TidyInv`: at every point of a command, the packs/ directory of an
  entry's pack ships the entry's skill (`Standing`), and what was installed is in the
  manifest or in the hands of the command that is writing or removing (`Accounted`). They
  assume one process, no failure or kill, no unusable skill and no release that drops a
  skill, and none can go: a failed or killed run leaves copies without entries, an
  unusable skill stops a run half-way, a dropped skill leaves its old copy, and a second
  process merges a manifest it read before. Packs, hosts, scopes, releases, edits,
  deletions, forced runs and publications are unrestricted.
* **SkillExecution_proofs.** `IInv` = types, `NotStuckRunning`, `OneSuccess` (both are
  inductive as they stand), `DefaultIdle` (a call without a session writes no file) and
  `Solo`: while nothing was disturbed one call runs at a time, and its position tells the
  machine's state. All five safety properties, for any number of threads and sessions and
  any limit on retries.
* **KnowledgeBase_proofs.** Three layers. `Base`: types, and the shape of the list of
  steps a command may have left. `Indexed`: the two indexes of a process agree with one
  another and, but for what others changed, with the files; a store that is under way
  stores what no other index holds. `Progress`: while undisturbed one command runs, what
  its next step relies on still holds, and at rest index.json and references are settled.
  From these `TypeCorrect`, `SearchCorrect`, `ConsistentAtRest` and `VersionsGrow`.
* **SkillSuggestions_proofs.** All five properties, for any number of processes, patterns
  and sessions and any threshold. `Known` holds whatever is disturbed: files have ids that
  were made, and none is accepted. While undisturbed (`Calm`), two commands that overlap
  are a detection and a decision (`Apart`), and the rest says what is true of the store
  before each step that is still waiting: of a decision or an audit `Recorded`, `Moves`,
  `Lands` and `Leaves` (the new file is written before the old one goes, hence
  `NeverLost`), of a detection `Passed` (no directory already listed has a pattern it is
  to propose, hence `OneOpen`; a decision moves files to directories listed later or not
  at all) and `Accounted` (a ripe pattern is still to come or something stands for it,
  hence `NothingRipeIsMissed`). `PromotionStands` needs that
  what is to be written with a path names a SKILL.md that is there (`Named`) and that
  nothing moves a promoted file away (`PromotedKept`).
* **ContextQueries_proofs.** For any base of finitely many entries and records, any kinds
  without repetition, budget, window, limits and questions. The size of a set is a fold,
  and folds are functions that choose an element at a time; `SizeStep` and `SizeOfMore`
  (the order does not matter) are proved by a smallest set that would be a counterexample
  (`LeastSet`), which the well-foundedness of `<` provides without an induction rule.
  `SectionByRank`: what is neither taken nor to come of a section ranks no higher than
  what is to come (`LeftIsNext`), the counted bytes are the size of what was taken, and
  what was cut would have been too much (`Summed`). `AnswersAlways` has a part per
  question. Recommendations rest on `BestOfWorthy`: a score above 0 is just a term in
  common, and the first n of a sorted list leave nothing greater out. Advisories are
  counted: the ways of a window's records partition them, so that the counts fit in the
  window. The board is gone along with sync (`Onward`, `SyncFollows`), and evidence is
  ranked (`RankOrders`: a rank is the number of what comes before).
  `FallbackFindsNothing`: the second pass of recommend cannot find anything, since every
  text holds its topic.

Only model-checked: the liveness properties (`Converges`, `StaleIsSwept`, `CallsEnd`),
which are beyond TLAPS's temporal logic here (fairness needs ENABLED); and
`IntactRecovers`, which is violated.

## 6. Known divergences

Found while modelling; the second has a run (session_recover), the others follow from the
models, or from the code they abstract, by the steps given.

* *Partial sync forgets*. `garage sync` to all hosts, `garage sync
  --hosts claude`, learn, `garage sync`: the other hosts lost their manifest entries and
  are reported as "manually edited" for ever (`sync/pipeline.py:222`).
* *Updated sessions do not validate* (run session_recover). update_session hashes a
  document that still holds the old checksum; recover_session never accepts level 1
  afterwards (`runtime/session_manager.py:149`).
* *Updates miss user scope*. init --scope user, pack update: copies
  appear in the project, the user's stay old (`pack_install.py:553`).
* A sync that fails between opening a context file and writing it leaves it empty: text
  outside the markers is lost (`sync/pipeline.py:200`).
* Text typed between the footer line and the end marker is not hashed; the next sync with
  new knowledge drops it without a warning (`sync/pipeline.py:390`).
* A session.json that is not JSON makes recover_session raise instead of trying the
  checkpoints (`session_manager.py:574`).
* Two processes creating a session at once get the same id (`session_manager.py:61`).
* A session updated between the listing and its turn in a sweep is archived as timed out
  (`session_manager.py:376`).
* An update that read before a sweep moved the session writes it again under active/;
  once expired, its rename onto the archive raises and ends every later sweep
  (`session_manager.py:381`).
* Rejecting an accepted candidate changes its status and leaves the entry published
  (`cli.py:1404`); batch_reject marks published candidates as rejected (`cli.py:1316`).
* A second decision in a batch overwrites the confirmation the first published entry
  refers to (`cli.py:1379`); `accept --strategy=abandon` without a conflict records a
  strategy though none applied (`cli.py:1388`).
* Two terminals accepting similar candidates both publish unasked (`publisher.py:164`).
* Checkpointing an archived or unknown id makes `sessions/active/<id>` again, with a
  checkpoint and no session.json (`session_manager.py:386`).
* A SKILL.md saved after a run has compared it and before it is written is written over
  unasked (`installer/pipeline.py:210`, `:244`).
* An uninstall that fails after removing copies restores packs/ only; copies and sidecars
  are gone, though CON-1203 forbids half-done (`pack_install.py:378`).
* An init or update that fails or is killed before the merge leaves copies without
  entries, reported as "locally modified" from then on unless forced
  (`installer/pipeline.py:244`). An update rolled back because of one unusable skill
  leaves the hosts with new copies of an old pack.
* A release whose pack.json does not list its skills is not rolled back by install
  (the exception is not the one caught) and makes every later init fail
  (`pack_install.py:152`). A release that no longer ships a skill leaves the old copy
  on disk without an entry (the clean run ships every skill in every release).
* publish reads pack.json and scans the pack before the prompt and copies it after: what an
  update brings in between is pushed unscanned, and the pack.json written back at the end
  names the old version (`pack_install.py:867`). A forced push replaces a newer release.
* Two processes rewriting experience/index.json lose each other's line
  (`experience_index.py:195`); nothing in the program reads the lines.
* Skill mining has no lock. An audit moves what it listed as proposed: a promotion or a
  rejection made meanwhile ends in expired/, and with two moves under way the file can be
  gone (`skill_mining/pipeline.py:222`); the docstring of `suggestion_store.py` (lines 10
  and 160) has a move as one atomic os.rename. reject and promote write back what they
  read before the prompt (`cli.py:988`), and promote accepts a rejected or an expired one.
  It accepts a promoted one too: with another `--target-pack` the suggestion names the new
  SKILL.md and the first one stays (`cli.py:1057`).
* `template_generator.py` calls `retrieve` with the id alone; the TypeError is swallowed,
  so that a generated skill never quotes an entry.
* An imported conversation is extracted twice when extraction is enabled, by the archive
  and by the import, and imported again it counts as another session of its pattern.
* `knowledge_top_n` (12, "total cap") is read by nothing: four kinds of four entries are
  sixteen (`sync/compiler.py:30`). The size budget is for the "total body" (lines 11, 71)
  but counts the items only (line 123): headings, header and footer come on top. Records
  are taken by the greatest record_id, which line 10 says is by mtime and line 199 a proxy
  for it; for ids that are random it is not.
* garage run never passes its problem domain to the recommendation (`cli.py:1088`: the
  metadata is that of the object create_session returned, which is empty), so that the 0.8
  of `recommendation_service.py:129` is not given there.
* A record with an empty domain is related to every entry: the empty string is in every
  text, and the terms that line 79 cleans of empty strings are collected anew
  (`knowledge/integration.py:304`).
* The recall cache has no writer: `--rebuild-cache` and every invalidation remove files
  that never exist, and the status line promises a rebuild that never comes.
* The artifact board. An unquoted date in a file's front matter is a date object to YAML
  and sync raises AttributeError (`runtime/artifact_board_sync.py:244`). A file without a
  date, with an offset or with a status that is none of the four is "updated" at every
  sync. sync-log.json holds the last artifact only, and for one that is missing it has the
  board's status as the file's.
* Five or more artifacts outscore a session's problem domain: its experience summary is
  cut (`extraction_orchestrator.py:280`).

## 7. Not modelled, and why

* `platform/version_manager.py` and `tools/`: library classes that nothing in the program
  constructs. The migration of a schema 1 manifest is left out of PackLifecycle.
* `adapter/`: runs an external process; SkillExecution has its errors as inputs.
* Argument parsers, printing, status, list and show commands of `cli.py`; the readers and
  the selection prompt of `ingest/`; the tarball of a knowledge export (it reads and
  rewrites text and keeps no state); the recall cache, since nothing writes it.
* Text formats (front matter, install markers, Markdown rendering) beyond what decides
  behaviour; the contents of `packs/` (prompts, report renderers) and `scripts/`.
* Windows of a few system calls within one read-compare-write of a single file are one
  step where section 3 says so.
