--------------------------- MODULE SkillSuggestions ---------------------------
(***************************************************************************)
(* The learning loop behind garage run, session import and skill suggest:  *)
(* sessions leave records and accepted entries, detection proposes a skill *)
(* for a pattern enough sessions show, and the user promotes it or not.    *)
(*                                                                         *)
(* A suggestion is one file in one of five status directories.  A move is  *)
(* find, write new, unlink old; other processes act and a kill strikes in  *)
(* between, and while a command waits for an answer.                       *)
(***************************************************************************)
EXTENDS Naturals, Sequences, FiniteSets

CONSTANTS
    Procs,              \* processes, one command at a time each
    Domains, Buckets,   \* problem_domain_key, the first two tags
    NoTags,             \* the bucket of a record without key_patterns
    Targets, NoPath,    \* the packs a skill is promoted to; no promoted_to_path
    Sessions, Ids,      \* session ids; suggestion ids, each generated once
    Threshold,          \* unique sessions that make a pattern
    Faults              \* {"kill"}: a process may die within a command

ASSUME SuggestionAssumption ==
    /\ NoTags \in Buckets
    /\ NoPath \notin Targets
    /\ Threshold \in Nat \ {0}
    /\ Faults \subseteq {"kill"}

Clusters == Domains \X Buckets
(* promoted_to_path is packs/<target>/skills/<name>/SKILL.md, the name that *)
(* of the cluster.                                                         *)
None == [key |-> <<>>, path |-> NoPath]
Suggestion == [key : Clusters, path : Targets \cup {NoPath}]
Skill == Targets \X Clusters

(* _STATUS_SUBDIRS, in the order find and detection go through them. *)
Order == <<"proposed", "accepted", "promoted", "rejected", "expired">>
Statuses == {Order[n] : n \in 1 .. 5}

VARIABLES
    session,    \* "none", "active", "archived"
    evidence,   \* entries and records: the cluster and session of each
    home,       \* the suggestion files, by status and id
    due,        \* ids whose expires_at has passed
    skills,     \* packs/<target>/skills: the clusters SKILL.md are named for
    call        \* the steps a process has yet to take in its command

(* History, read by no action. *)
VARIABLES
    made,       \* ids ever written
    purged,     \* ids deleted from expired/
    disturbed   \* two commands overlapped that had better not

history == <<made, purged, disturbed>>
vars == <<session, evidence, home, due, skills, call, history>>

Init ==
    /\ session = [s \in Sessions |-> "none"]
    /\ evidence = {}
    /\ home = [st \in Statuses |-> [i \in Ids |-> None]]
    /\ due = {}
    /\ skills = {}
    /\ call = [p \in Procs |-> <<>>]
    /\ made = {}
    /\ purged = {}
    /\ disturbed = FALSE

---------------------------------------------------------------------------
(* The steps of commands. *)

Record(c, s)    == [do |-> "record", key |-> c, session |-> s]
Archive(s)      == [do |-> "archive", session |-> s]
Scan            == [do |-> "scan"]
Cover(ripe, n)  == [do |-> "cover", todo |-> ripe, next |-> n]
Make(todo)      == [do |-> "make", todo |-> todo]
Audit(ids)      == [do |-> "audit", ids |-> ids]
ListExpired     == [do |-> "list"]
Purge(ids)      == [do |-> "purge", ids |-> ids]
OpenSkill(k)    == [do |-> "open", skill |-> k]
FillSkill(k)    == [do |-> "fill", skill |-> k]
Write(st, i, f) == [do |-> "write", at |-> st, id |-> i, file |-> f]
Move(i, to)     == [do |-> "move", id |-> i, to |-> to]
Unlink(st, i)   == [do |-> "unlink", at |-> st, id |-> i]

Step ==
    [do : {"record"}, key : Clusters, session : Sessions]
      \cup [do : {"archive"}, session : Sessions]
      \cup [do : {"scan", "list"}]
      \cup [do : {"cover"}, todo : SUBSET Clusters, next : 1 .. 4]
      \cup [do : {"make"}, todo : SUBSET Clusters]
      \cup [do : {"audit", "purge"}, ids : SUBSET Ids]
      \cup [do : {"open", "fill"}, skill : Skill]
      \cup [do : {"write"}, at : Statuses, id : Ids, file : Suggestion]
      \cup [do : {"move"}, id : Ids, to : Statuses]
      \cup [do : {"unlink"}, at : Statuses, id : Ids]

TypeOK ==
    /\ session \in [Sessions -> {"none", "active", "archived"}]
    /\ evidence \subseteq Clusters \X Sessions
    /\ home \in [Statuses -> [Ids -> Suggestion \cup {None}]]
    /\ due \subseteq Ids
    /\ skills \subseteq Skill
    /\ call \in [Procs -> Seq(Step)]
    /\ made \subseteq Ids
    /\ purged \subseteq made
    /\ disturbed \in BOOLEAN

AtRest(p) == call[p] = <<>>
Does(p, do) == call[p] # <<>> /\ call[p][1].do = do
GoOn(p, steps) == call' = [call EXCEPT ![p] = steps \o Tail(@)]

OnlyDo(steps, dos) == \A n \in DOMAIN steps : steps[n].do \in dos
Detects(steps) == OnlyDo(steps, {"record", "archive", "scan", "cover", "make"})
Decides(steps) == OnlyDo(steps, {"open", "fill", "write", "move", "unlink"})

(* One detection beside one decision is what the store is built for.       *)
Enter(p, steps) ==
    /\ AtRest(p)
    /\ call' = [call EXCEPT ![p] = steps]
    /\ disturbed' = (disturbed \/
         \E q \in Procs : /\ ~AtRest(q)
                          /\ ~(Detects(steps) /\ Decides(call[q]))
                          /\ ~(Decides(steps) /\ Detects(call[q])))

(* What the user or another part changes meanwhile disturbs them all.      *)
Meanwhile ==
    /\ disturbed' = (disturbed \/ \E q \in Procs : ~AtRest(q))
    /\ UNCHANGED <<call, made, purged>>

---------------------------------------------------------------------------
(* SuggestionStore. *)

Holds(st, i) == home[st][i] # None
Listing(st) == {i \in Ids : Holds(st, i)}
Homes(i) == {n \in 1 .. 5 : Holds(Order[n], i)}

(* find: the first directory that has it. *)
Found(i) == Order[CHOOSE n \in Homes(i) : \A m \in Homes(i) : n <= m]

DoWrite(p) ==
    /\ Does(p, "write")
    /\ LET s == call[p][1] IN home' = [home EXCEPT ![s.at][s.id] = s.file]
    /\ GoOn(p, <<>>)
    /\ UNCHANGED <<session, evidence, due, skills, history>>

(* Seeded fault: the old file goes before the new one is written.          *)
Moved_UnlinkFirst(st, i, to) == <<Unlink(st, i), Write(to, i, home[st][i])>>

Moved(st, i, to) == <<Write(to, i, home[st][i]), Unlink(st, i)>>

(* move_to_status: nothing to do when it is not found or already there.    *)
DoMove(p) ==
    /\ Does(p, "move")
    /\ LET s == call[p][1] IN
       IF Homes(s.id) = {} \/ Found(s.id) = s.to THEN GoOn(p, <<>>)
       ELSE GoOn(p, Moved(Found(s.id), s.id, s.to))
    /\ UNCHANGED <<session, evidence, home, due, skills, history>>

DoUnlink(p) ==
    /\ Does(p, "unlink")
    /\ LET s == call[p][1] IN home' = [home EXCEPT ![s.at][s.id] = None]
    /\ GoOn(p, <<>>)
    /\ UNCHANGED <<session, evidence, due, skills, history>>

---------------------------------------------------------------------------
(* detect_and_write, as SkillMiningHook runs it. *)

(* Seeded fault: one session too many is asked for. *)
Ripe_Above(c) == Cardinality({s \in Sessions : <<c, s>> \in evidence}) > Threshold

Ripe(c) == Cardinality({s \in Sessions : <<c, s>> \in evidence}) >= Threshold

(* The entries and records are read; without hook_enabled nothing is.      *)
DoScan(p) ==
    /\ Does(p, "scan")
    /\ \/ GoOn(p, <<Cover({c \in Clusters : Ripe(c)}, 1)>>)
       \/ GoOn(p, <<>>)
    /\ UNCHANGED <<session, evidence, home, due, skills, history>>

(* Seeded fault: a rejection does not keep its pattern from coming back.   *)
Covering_Open == <<"proposed", "accepted", "promoted">>

Covering == <<"proposed", "accepted", "promoted", "rejected">>

(* Seeded fault: it looks for one directory more. *)
Last_Past(n) == n > Len(Covering)

Last(n) == n = Len(Covering)

(* One status directory after the other is listed.                         *)
DoCover(p) ==
    /\ Does(p, "cover")
    /\ LET s == call[p][1]
           left == s.todo \ {home[Covering[s.next]][i].key : i \in Listing(Covering[s.next])}
       IN GoOn(p, IF Last(s.next) THEN <<Make(left)>>
                  ELSE <<Cover(left, s.next + 1)>>)
    /\ UNCHANGED <<session, evidence, home, due, skills, history>>

(* already_covered_by_skill: a skill named for the domain, whatever tags.  *)
CoveredBySkill(c) == \E k \in skills : k[2][1] = c[1]

(* One cluster after the other is passed over or proposed; ids are random. *)
DoMake(p) ==
    /\ Does(p, "make")
    /\ LET s == call[p][1] IN
       IF s.todo = {} THEN GoOn(p, <<>>) /\ UNCHANGED <<home, made>>
       ELSE \E c \in s.todo :
              /\ GoOn(p, <<Make(s.todo \ {c})>>)
              /\ \/ CoveredBySkill(c) /\ UNCHANGED <<home, made>>
                 \/ /\ ~CoveredBySkill(c)
                    /\ \E i \in Ids \ made :
                         /\ home' = [home EXCEPT !["proposed"][i] =
                                         [key |-> c, path |-> NoPath]]
                         /\ made' = made \cup {i}
    /\ UNCHANGED <<session, evidence, due, skills, purged, disturbed>>

---------------------------------------------------------------------------
(* garage skill suggest: always the audit, then --purge-expired or --rescan. *)

(* run_audit lists the proposed suggestions once. *)
Suggest(p, then) ==
    /\ Enter(p, <<Audit(Listing("proposed") \cap due)>> \o then)
    /\ UNCHANGED <<session, evidence, home, due, skills, made, purged>>

DoAudit(p) ==
    /\ Does(p, "audit")
    /\ LET s == call[p][1] IN
       \/ s.ids = {} /\ GoOn(p, <<>>)
       \/ \E i \in s.ids : GoOn(p, <<Move(i, "expired"), Audit(s.ids \ {i})>>)
    /\ UNCHANGED <<session, evidence, home, due, skills, history>>

(* The answer may be no. *)
DoList(p) ==
    /\ Does(p, "list")
    /\ GoOn(p, <<Purge(Listing("expired"))>>) \/ GoOn(p, <<>>)
    /\ UNCHANGED <<session, evidence, home, due, skills, history>>

DoPurge(p) ==
    /\ Does(p, "purge")
    /\ LET s == call[p][1] IN
       \/ s.ids = {} /\ GoOn(p, <<>>) /\ UNCHANGED <<home, purged>>
       \/ \E i \in s.ids :
            /\ GoOn(p, <<Purge(s.ids \ {i})>>)
            /\ home' = [home EXCEPT !["expired"][i] = None]
            /\ purged' = purged \cup ({i} \cap Listing("expired"))
    /\ UNCHANGED <<session, evidence, due, skills, made, disturbed>>

---------------------------------------------------------------------------
(* garage skill promote. *)

(* The reason is asked for after find, and written before the move.        *)
Reject(p, i) ==
    /\ Homes(i) # {}
    /\ Found(i) \in {"proposed", "accepted"}
    /\ Enter(p, <<Write(Found(i), i, home[Found(i)][i]), Move(i, "rejected")>>)
    /\ UNCHANGED <<session, evidence, home, due, skills, made, purged>>

(* Seeded fault: the path is recorded after the move, in the file that was found. *)
Promotion_PathLast(st, i, to) ==
    <<OpenSkill(<<to, home[st][i].key>>), Move(i, "promoted"),
      Write(st, i, [home[st][i] EXCEPT !.path = to])>>

Promotion(st, i, to) ==
    <<OpenSkill(<<to, home[st][i].key>>),
      Write(st, i, [home[st][i] EXCEPT !.path = to]), Move(i, "promoted")>>

(* Promoted, rejected and expired suggestions are promoted like the rest,  *)
(* to the pack suggested or another (--target-pack).                       *)
Promote(p, i, to) ==
    /\ Homes(i) # {}
    /\ Enter(p, Promotion(Found(i), i, to))
    /\ UNCHANGED <<session, evidence, home, due, skills, made, purged>>

(* SKILL.md is truncated and written, unless the answer is no.             *)
DoOpen(p) ==
    /\ Does(p, "open")
    /\ \/ call' = [call EXCEPT ![p] = <<>>] /\ UNCHANGED skills
       \/ /\ GoOn(p, <<FillSkill(call[p][1].skill)>>)
          /\ skills' = skills \ {call[p][1].skill}
    /\ UNCHANGED <<session, evidence, home, due, history>>

DoFill(p) ==
    /\ Does(p, "fill")
    /\ GoOn(p, <<>>)
    /\ skills' = skills \cup {call[p][1].skill}
    /\ UNCHANGED <<session, evidence, home, due, history>>

---------------------------------------------------------------------------
(* garage run and garage session import: new sessions. *)

Start(p, s, steps) ==
    /\ session[s] = "none"
    /\ session' = [session EXCEPT ![s] = "active"]
    /\ Enter(p, steps)
    /\ UNCHANGED <<evidence, home, due, skills, made, purged>>

(* The run's record is exp-<session>, its domain the name of the skill.    *)
Run(p, s, d) == Start(p, s, <<Record(<<d, NoTags>>, s), Archive(s)>>)

(* The session of a conversation is extracted whatever the settings.       *)
Import(p, s) == Start(p, s, <<Archive(s), Scan>>)

DoRecord(p) ==
    /\ Does(p, "record")
    /\ evidence' = evidence \cup {<<call[p][1].key, call[p][1].session>>}
    /\ GoOn(p, <<>>)
    /\ UNCHANGED <<session, home, due, skills, history>>

(* Detection follows an extraction that is enabled and does not fail.      *)
DoArchive(p) ==
    /\ Does(p, "archive")
    /\ session' = [session EXCEPT ![call[p][1].session] = "archived"]
    /\ GoOn(p, <<Scan>>) \/ GoOn(p, <<>>)
    /\ UNCHANGED <<evidence, home, due, skills, history>>

---------------------------------------------------------------------------
(* The world around. *)

(* A candidate of an archived session is accepted; an item is deleted.     *)
Publish(c, s) ==
    /\ session[s] = "archived"
    /\ <<c, s>> \notin evidence
    /\ evidence' = evidence \cup {<<c, s>>}
    /\ Meanwhile
    /\ UNCHANGED <<session, home, due, skills>>

Forget(e) ==
    /\ evidence' = evidence \ {e}
    /\ Meanwhile
    /\ UNCHANGED <<session, home, due, skills>>

(* A pack is installed, updated or uninstalled. *)
Packs(to, keys) ==
    /\ skills' = {k \in skills : k[1] # to} \cup ({to} \X keys)
    /\ skills' # skills
    /\ Meanwhile
    /\ UNCHANGED <<session, evidence, home, due>>

Expire(i) ==
    /\ i \in made \ due
    /\ due' = due \cup {i}
    /\ UNCHANGED <<session, evidence, home, skills, call, history>>

Kill(p) ==
    /\ "kill" \in Faults
    /\ ~AtRest(p)
    /\ call' = [call EXCEPT ![p] = <<>>]
    /\ disturbed' = (disturbed \/ \E q \in Procs \ {p} : ~AtRest(q))
    /\ UNCHANGED <<session, evidence, home, due, skills, made, purged>>

Command(p) ==
    \/ \E then \in {<<>>, <<ListExpired>>, <<Scan>>} : Suggest(p, then)
    \/ \E i \in Ids : Reject(p, i) \/ \E to \in Targets : Promote(p, i, to)
    \/ \E s \in Sessions : Import(p, s) \/ \E d \in Domains : Run(p, s, d)

DoStep(p) ==
    \/ DoRecord(p) \/ DoArchive(p) \/ DoScan(p) \/ DoCover(p) \/ DoMake(p)
    \/ DoAudit(p) \/ DoList(p) \/ DoPurge(p)
    \/ DoOpen(p) \/ DoFill(p) \/ DoWrite(p) \/ DoMove(p) \/ DoUnlink(p)

Environment ==
    \/ \E c \in Clusters, s \in Sessions : Publish(c, s)
    \/ \E e \in evidence : Forget(e)
    \/ \E to \in Targets, keys \in SUBSET Clusters : Packs(to, keys)
    \/ \E i \in Ids : Expire(i)

Next == (\E p \in Procs : Command(p) \/ DoStep(p) \/ Kill(p)) \/ Environment

Spec == Init /\ [][Next]_vars

---------------------------------------------------------------------------
(* Correctness, as long as at most a detection and a decision overlap: the *)
(* store has no lock, and README.md shows what two others can lose.        *)

(* Whatever is killed, a suggestion is found somewhere until a purge has   *)
(* deleted it from expired/: a move never leaves it without a file.        *)
NeverLost ==
    ~disturbed => \A i \in made : Homes(i) # {} \/ i \in purged

(* A pattern is proposed once: while it waits, or after it was rejected,   *)
(* no second suggestion asks for the same, even if detection lists the     *)
(* directories while a decision moves the file from one to the other.      *)
OneOpen ==
    ~disturbed =>
        \A i, j \in Listing("proposed") \cup Listing("rejected") :
            i # j => \A st, su \in {"proposed", "rejected"} :
                        Holds(st, i) /\ Holds(su, j) => home[st][i].key # home[su][j].key

(* A promoted suggestion stays promoted, wherever commands are killed, and *)
(* whenever its file is written it names a SKILL.md that is there: a second *)
(* promotion, to another pack, changes the path once that skill is written. *)
PromotionStands ==
    [][~disturbed' => \A i \in Ids :
         /\ Holds("promoted", i) => home'["promoted"][i] # None
         /\ home'["promoted"][i] # home["promoted"][i] =>
               <<home'["promoted"][i].path, home'["promoted"][i].key>> \in skills]_vars

(* When a detection is through, each pattern with enough sessions has a    *)
(* skill, or gets one at this moment, or a suggestion that has not expired. *)
NothingRipeIsMissed ==
    [][\A p \in Procs :
         ~disturbed' /\ Does(p, "make") /\ call[p][1].todo = {} /\ DoMake(p) =>
             \A c \in Clusters :
               Cardinality({s \in Sessions : <<c, s>> \in evidence}) >= Threshold =>
                 \/ CoveredBySkill(c) \/ \E q \in Procs : Does(q, "fill")
                 \/ \E st \in Statuses \ {"expired"} : \E i \in Listing(st) : home[st][i].key = c]_vars
=============================================================================
