---------------------------- MODULE KnowledgeBase ----------------------------
(***************************************************************************)
(* KnowledgeStore, ExperienceIndex and KnowledgeIntegration: the entries   *)
(* with every process's index of them in memory, the experience records    *)
(* with their list in index.json, and the commands that change them.       *)
(*                                                                         *)
(* Every write of a file is atomic (write_text, write_json); a command is  *)
(* several of them, and what it read may be old when it writes.            *)
(***************************************************************************)
EXTENDS Naturals, Sequences, FiniteSets

CONSTANTS
    Procs,          \* processes, each with a KnowledgeStore of its own
    Types, Ids,     \* an entry's file is named by its type and its id
    Records,        \* ids of experience records
    Tags, Targets,  \* tags of entries, what a link may point to
    MaxVersion,     \* bound: updates of one entry
    Faults          \* {"kill"}: a process may die within a command

ASSUME KnowledgeAssumption ==
    /\ MaxVersion \in Nat \ {0}
    /\ Faults \subseteq {"kill"}

Files == Types \X Ids
IdOf(f) == f[2]

Entry == [version : 1 .. MaxVersion, tags : SUBSET Tags, links : SUBSET Targets]
NoEntry == [version |-> 0, tags |-> {}, links |-> {}]
Record == [there : {TRUE}, refs : SUBSET Ids]
NoRecord == [there |-> FALSE, refs |-> {}]

VARIABLES
    entry,      \* the entry's file, by type and id
    index,      \* the store of a process: _index, _tag_index, _index_dirty
    record,     \* experience/records, with the ids in "artifacts"
    listed,     \* the keys of index.json
    call        \* the steps a process has yet to take in its command

(* History, read by no action. *)
VARIABLES
    foreign,    \* entries others changed since a process built its index
    cascaded,   \* ids whose entry was removed with its references
    disturbed   \* two commands once overlapped, or one was killed

history == <<foreign, cascaded, disturbed>>
vars == <<entry, index, record, listed, call, history>>

(* _index_dirty: nothing was loaded yet. *)
Dirty == [clean |-> FALSE, seen |-> [f \in Files |-> NoEntry],
          byTag |-> [t \in Tags |-> {}]]

Init ==
    /\ entry = [f \in Files |-> NoEntry]
    /\ index = [p \in Procs |-> Dirty]
    /\ record = [r \in Records |-> NoRecord]
    /\ listed = {}
    /\ call = [p \in Procs |-> <<>>]
    /\ foreign = [p \in Procs |-> {}]
    /\ cascaded = {}
    /\ disturbed = FALSE

---------------------------------------------------------------------------
(* The steps of commands. *)

Store(f, e)      == [do |-> "store", file |-> f, entry |-> e]
Update(f, e)     == [do |-> "update", file |-> f, entry |-> e]
Strip(i)         == [do |-> "strip", id |-> i]
Rest(i, todo)    == [do |-> "rest", id |-> i, todo |-> todo]
Write(r, s)      == [do |-> "write", rec |-> r, refs |-> s]
Load(r, in)      == [do |-> "load", rec |-> r, in |-> in]
List(r, in, got) == [do |-> "list", rec |-> r, in |-> in, got |-> got]

Step ==
    [do : {"store", "update"}, file : Files, entry : Entry]
      \cup [do : {"strip"}, id : Ids]
      \cup [do : {"rest"}, id : Ids, todo : [Records -> Record \cup {NoRecord}]]
      \cup [do : {"write"}, rec : Records, refs : SUBSET Ids]
      \cup [do : {"load"}, rec : Records, in : BOOLEAN]
      \cup [do : {"list"}, rec : Records, in : BOOLEAN, got : SUBSET Records]

Index == [clean : BOOLEAN, seen : [Files -> Entry \cup {NoEntry}],
          byTag : [Tags -> SUBSET Files]]

TypeOK ==
    /\ entry \in [Files -> Entry \cup {NoEntry}]
    /\ index \in [Procs -> Index]
    /\ record \in [Records -> Record \cup {NoRecord}]
    /\ listed \subseteq Records
    /\ call \in [Procs -> Seq(Step)]
    /\ foreign \in [Procs -> SUBSET Files]
    /\ cascaded \subseteq Ids
    /\ disturbed \in BOOLEAN

AtRest(p) == call[p] = <<>>

(* p starts a command with these steps, or goes on with the rest of one.   *)
Enter(p, steps) ==
    /\ AtRest(p)
    /\ call' = [call EXCEPT ![p] = steps]
    /\ disturbed' = (disturbed \/ \E q \in Procs : ~AtRest(q))

Does(p, do) == call[p] # <<>> /\ call[p][1].do = do
GoOn(p, steps) == call' = [call EXCEPT ![p] = steps \o Tail(@)]

There(f) == entry[f] # NoEntry

(* An entry's file is written or removed, by p.                            *)
Put(p, f, e) ==
    /\ entry' = [entry EXCEPT ![f] = e]
    /\ foreign' = [q \in Procs |-> IF q # p /\ index[q].clean THEN foreign[q] \cup {f}
                                    ELSE foreign[q]]

---------------------------------------------------------------------------
(* KnowledgeStore: the index in memory. *)

(* _rebuild_index reads every entry.  (Taken as one step: what another     *)
(* process writes meanwhile is foreign to the index either way.)           *)
Rebuilt == [clean |-> TRUE, seen |-> entry,
            byTag |-> [t \in Tags |-> {f \in Files : There(f) /\ t \in entry[f].tags}]]

Search(p) ==
    /\ AtRest(p)
    /\ ~index[p].clean
    /\ index' = [index EXCEPT ![p] = Rebuilt]
    /\ foreign' = [foreign EXCEPT ![p] = {}]
    /\ UNCHANGED <<entry, record, listed, call, cascaded, disturbed>>

(* search(tags): the intersection of the tag sets, then the primary index. *)
Found(p, ts) ==
    {f \in Files : index[p].seen[f] # NoEntry
                   /\ \A t \in ts : f \in index[p].byTag[t]}

AddToIndex(i, f, e) ==
    [i EXCEPT !.seen[f] = e,
              !.byTag = [t \in Tags |-> IF t \in e.tags THEN i.byTag[t] \cup {f}
                                        ELSE i.byTag[t]]]

(* An entry the primary index does not have is left in the tag index.      *)
RemoveFromIndex(i, f) ==
    [i EXCEPT !.seen[f] = NoEntry,
              !.byTag = [t \in Tags |-> IF t \in i.seen[f].tags THEN i.byTag[t] \ {f}
                                        ELSE i.byTag[t]]]

(* store: the file is overwritten; a dirty index stays dirty. *)
DoStore(p) ==
    /\ Does(p, "store")
    /\ LET s == call[p][1] IN
       /\ Put(p, s.file, s.entry)
       /\ index' = [index EXCEPT ![p] =
                        IF @.clean THEN AddToIndex(@, s.file, s.entry) ELSE @]
       /\ cascaded' = cascaded \ {IdOf(s.file)}
    /\ GoOn(p, <<>>)
    /\ UNCHANGED <<record, listed, disturbed>>

(* Seeded fault: the tags the entry had are not taken out of the index. *)
Reindexed_Added(i, f, e) == AddToIndex(i, f, e)

Reindexed(i, f, e) == AddToIndex(RemoveFromIndex(i, f), f, e)

(* update: one version on from the one that was read. *)
DoUpdate(p) ==
    /\ Does(p, "update")
    /\ LET s == call[p][1] IN
       /\ Put(p, s.file, s.entry)
       /\ index' = [index EXCEPT ![p] =
                        IF @.clean THEN Reindexed(@, s.file, s.entry) ELSE @]
       /\ cascaded' = cascaded \ {IdOf(s.file)}
    /\ GoOn(p, <<>>)
    /\ UNCHANGED <<record, listed, disturbed>>

---------------------------------------------------------------------------
(* garage knowledge add, edit, link, delete. *)

(* Seeded fault: an entry has no version until its first update. *)
NewEntry_Unversioned(ts) == [version |-> 0, tags |-> ts, links |-> {}]

NewEntry(ts) == [version |-> 1, tags |-> ts, links |-> {}]

(* The id must be free when it is asked for. *)
KnowledgeAdd(p, f, ts) ==
    /\ ~There(f)
    /\ Enter(p, <<Store(f, NewEntry(ts))>>)
    /\ UNCHANGED <<entry, index, record, listed, foreign, cascaded>>

Bumped(e) == [e EXCEPT !.version = @ + 1]

(* Seeded fault: what is not edited is not taken over. *)
Edited_Afresh(e, ts) == [Bumped(NewEntry(ts)) EXCEPT !.version = e.version + 1]

(* --tags replaces the tags, any other field leaves them. *)
Edited(e, ts) == [Bumped(e) EXCEPT !.tags = ts]

KnowledgeEdit(p, f, ts) ==
    /\ There(f)
    /\ entry[f].version < MaxVersion
    /\ Enter(p, <<Update(f, Edited(entry[f], ts))>>)
    /\ UNCHANGED <<entry, index, record, listed, foreign, cascaded>>

(* _resolve_knowledge_entry_unique: an id two types have is refused. *)
Hits(i) == {f \in Files : IdOf(f) = i /\ There(f)}

KnowledgeLink(p, i, dst) ==
    /\ Cardinality(Hits(i)) = 1
    /\ LET f == CHOOSE g \in Hits(i) : TRUE IN
       /\ entry[f].version < MaxVersion
       /\ Enter(p, <<Update(f, [Bumped(entry[f]) EXCEPT !.links = @ \cup {dst}])>>)
    /\ UNCHANGED <<entry, index, record, listed, foreign, cascaded>>

Forgotten(i, f) == RemoveFromIndex(i, f)

(* delete: what it removed leaves the index too, and no reference to it.   *)
Unlink(p, f) ==
    /\ There(f)
    /\ Put(p, f, NoEntry)
    /\ index' = [index EXCEPT ![p] = Forgotten(@, f)]

KnowledgeDelete(p, f) ==
    /\ Unlink(p, f)
    /\ Enter(p, <<>>)
    /\ UNCHANGED <<record, listed, cascaded>>

---------------------------------------------------------------------------
(* ExperienceIndex. *)

(* The record's own file, then index.json: read, changed, written.         *)
DoWrite(p) ==
    /\ Does(p, "write")
    /\ record' = [record EXCEPT ![call[p][1].rec] =
                      [there |-> TRUE, refs |-> call[p][1].refs]]
    /\ GoOn(p, <<>>)
    /\ UNCHANGED <<entry, index, listed, history>>

DoLoad(p) ==
    /\ Does(p, "load")
    /\ GoOn(p, <<List(call[p][1].rec, call[p][1].in, listed)>>)
    /\ UNCHANGED <<entry, index, record, listed, history>>

DoList(p) ==
    /\ Does(p, "list")
    /\ LET s == call[p][1] IN
       listed' = IF s.in THEN s.got \cup {s.rec}
                 ELSE IF s.rec \in s.got THEN s.got \ {s.rec}
                 ELSE listed
    /\ GoOn(p, <<>>)
    /\ UNCHANGED <<entry, index, record, history>>

(* store and update of a record *)
Stored(r, s) == <<Write(r, s), Load(r, TRUE)>>

ExperienceAdd(p, r) ==
    /\ ~record[r].there
    /\ Enter(p, Stored(r, {}))
    /\ UNCHANGED <<entry, index, record, listed, foreign, cascaded>>

ExperienceDelete(p, r) ==
    /\ record[r].there
    /\ record' = [record EXCEPT ![r] = NoRecord]
    /\ Enter(p, <<Load(r, FALSE)>>)
    /\ UNCHANGED <<entry, index, listed, foreign, cascaded>>

---------------------------------------------------------------------------
(* KnowledgeIntegration. *)

(* extract_from_session: both ids are new; the record comes first.         *)
ExtractFromSession(p, r, refs, f, ts) ==
    /\ ~record[r].there
    /\ ~There(f)
    /\ Enter(p, Stored(r, refs) \o <<Store(f, NewEntry(ts))>>)
    /\ cascaded' = cascaded \ refs
    /\ UNCHANGED <<entry, index, record, listed, foreign>>

(* remove_knowledge_cascade: the entry goes first. *)
RemoveCascade(p, f) ==
    /\ Unlink(p, f)
    /\ Enter(p, <<Strip(IdOf(f))>>)
    /\ cascaded' = cascaded \cup {IdOf(f)}
    /\ UNCHANGED <<record, listed>>

(* The records are listed once, and rewritten from that list.              *)
DoStrip(p) ==
    /\ Does(p, "strip")
    /\ GoOn(p, <<Rest(call[p][1].id, record)>>)
    /\ UNCHANGED <<entry, index, record, listed, history>>

Referrers(s) == {r \in Records : s.id \in s.todo[r].refs}

(* Seeded fault: it stops after the first record. *)
Remaining_None(s, r) == Rest(s.id, [q \in Records |-> NoRecord])

Remaining(s, r) == Rest(s.id, [s.todo EXCEPT ![r] = NoRecord])

DoRest(p) ==
    /\ Does(p, "rest")
    /\ LET s == call[p][1] IN
       \/ Referrers(s) = {} /\ GoOn(p, <<>>)
       \/ \E r \in Referrers(s) :
              GoOn(p, Stored(r, s.todo[r].refs \ {s.id}) \o <<Remaining(s, r)>>)
    /\ UNCHANGED <<entry, index, record, listed, history>>

---------------------------------------------------------------------------
(* The next command has a store of its own; a process may also be killed.  *)
Exit(p) ==
    /\ AtRest(p) \/ "kill" \in Faults
    /\ ~AtRest(p) \/ index[p] # Dirty
    /\ call' = [call EXCEPT ![p] = <<>>]
    /\ index' = [index EXCEPT ![p] = Dirty]
    /\ foreign' = [foreign EXCEPT ![p] = {}]
    /\ disturbed' = (disturbed \/ ~AtRest(p))
    /\ UNCHANGED <<entry, record, listed, cascaded>>

DoStep(p) ==
    \/ DoStore(p) \/ DoUpdate(p) \/ DoStrip(p) \/ DoRest(p)
    \/ DoWrite(p) \/ DoLoad(p) \/ DoList(p)

Command(p) ==
    \/ Search(p)
    \/ \E f \in Files :
         \/ \E ts \in SUBSET Tags : KnowledgeAdd(p, f, ts) \/ KnowledgeEdit(p, f, ts)
         \/ KnowledgeDelete(p, f)
         \/ RemoveCascade(p, f)
    \/ \E i \in Ids, dst \in Targets : KnowledgeLink(p, i, dst)
    \/ \E r \in Records :
         \/ ExperienceAdd(p, r)
         \/ ExperienceDelete(p, r)
         \/ \E refs \in SUBSET Ids, f \in Files, ts \in SUBSET Tags :
                ExtractFromSession(p, r, refs, f, ts)

Next == \E p \in Procs : Command(p) \/ DoStep(p) \/ Exit(p)

Spec == Init /\ [][Next]_vars

---------------------------------------------------------------------------
(* Correctness. *)

(* However commands interleave, a process that asks for tags is told of    *)
(* exactly the entries whose files carry them, and of their last version,  *)
(* among those no other process touched since it built its index: the      *)
(* primary index and the tag index drift neither from the files nor from   *)
(* one another.                                                            *)
SearchAgrees ==
    \A p \in Procs : index[p].clean =>
        \A ts \in SUBSET Tags : \A f \in Files \ foreign[p] :
            /\ f \in Found(p, ts) <=> There(f) /\ ts \subseteq entry[f].tags
            /\ f \in Found(p, ts) => index[p].seen[f] = entry[f]

(* Commands one after the other, at rest: index.json lists exactly the     *)
(* records there are, whatever was added, rewritten by a cascade, deleted; *)
(* and a finished cascade leaves no reference to the id it removed, until  *)
(* an extraction brings one or the id returns.                             *)
RestIsConsistent ==
    ~disturbed /\ (\A p \in Procs : AtRest(p)) =>
        /\ listed = {r \in Records : record[r].there}
        /\ \A r \in Records : record[r].refs \cap cascaded = {}

(* Commands one after the other: as long as an entry is there no change    *)
(* loses a link or takes its version back, nor does one version get two    *)
(* contents.                                                               *)
ChangesAccumulate ==
    [][~disturbed' => \A f \in Files : There(f) /\ There(f)' =>
        /\ entry[f].links \subseteq entry'[f].links
        /\ entry'[f] # entry[f] => entry'[f].version > entry[f].version]_vars
=============================================================================
