--------------------------- MODULE PackLifecycle ---------------------------
(***************************************************************************)
(* Skill packs and their copies in the directories of AI hosts.            *)
(*                                                                         *)
(*   packs/<pack>/              pack.json and skills, as cloned            *)
(*   <host>/skills/<skill>/     SKILL.md and its sidecar directories, for  *)
(*                              a host, in the project or in the user's    *)
(*                              home                                       *)
(*   .garage/config/host-installer.json   the files installed, with the    *)
(*                              hash of what was written                   *)
(*                                                                         *)
(* `garage pack install`, `update` and `uninstall` change packs/; `garage  *)
(* init` (and `update`) copies the skills of all packs to the selected     *)
(* hosts; `garage pack publish` replaces a pack's repository.  Commands    *)
(* may overlap, fail half-way or be killed; users edit and delete the      *)
(* copies.                                                                 *)
(*                                                                         *)
(* The text of a skill is identified with its pack and version: versions   *)
(* are taken to differ in every skill.  Agents are skills without sidecar. *)
(***************************************************************************)
EXTENDS Naturals, FiniteSets

CONSTANTS
    Procs,       \* processes running `garage init` or `garage pack`
    Packs,
    Skills,
    Hosts,
    Scopes,      \* where hosts are installed to: "project", perhaps "user"
    Requests,    \* what --hosts and --scope resolve to: the scope of each host
    MaxVersion,  \* bound: releases of a pack
    Ships,       \* the skills of each version of each pack
    Malformed,   \* the <<pack, version, skill>> with unusable front matter
    Mismatched,  \* the <<pack, version>> whose pack.json lists other skills
    Sidecars,    \* the skills with references/, assets/, evals/ or scripts/
    Sensitive,   \* the <<pack, version>> with a line the scan finds sensitive
    Outgoing,    \* the packs that are published
    Local,       \* packs that were written here and have no source_url
    Mine,        \* a text the user wrote
    None,
    Faults       \* which of "crash" and "fail" happen

Versions == 1 .. MaxVersion
Places   == Hosts \X Scopes \X Skills
Shipped  == Packs \X Versions

ASSUME PackAssumption ==
    /\ MaxVersion \in Nat \ {0}
    /\ "project" \in Scopes
    /\ \A want \in Requests : \E H \in SUBSET Hosts : want \in [H -> Scopes]
    /\ Ships \in [Packs -> [Versions -> SUBSET Skills]]
    /\ Mine # None
    /\ Mine \notin Shipped /\ None \notin Shipped
    /\ Sensitive \subseteq Shipped
    /\ Faults \subseteq {"crash", "fail"}

VARIABLES
    upstream,  \* the version every pack's repository is at
    pack,      \* packs/<pack>/
    file,      \* SKILL.md, by place
    side,      \* its sidecar directories
    manifest,  \* host-installer.json
    proc       \* the command every process is in

vars == <<upstream, pack, file, side, manifest, proc>>

(* "whole" and "mismatched" as loaded by discover_packs; "unlisted" has no *)
(* pack.json (yet), that of "broken" is no JSON.  The skills are those of  *)
(* version v; pack.json, with or without a source_url, says which it is.   *)
PackDir == [kind : {"whole", "mismatched", "unlisted", "broken"},
            v : Versions, says : Versions, url : BOOLEAN]
NoPack  == [kind |-> "absent", v |-> 0, says |-> 0, url |-> FALSE]

Kind(k, v) == IF <<k, v>> \in Mismatched THEN "mismatched" ELSE "whole"

Entry      == [place : Places, text : Shipped]
PackOf(e)  == e.text[1]
Zone(place) == <<place[1], place[2]>>   \* host and scope
Manifest   == [state : {"whole", "torn"}, files : SUBSET Entry, hosts : SUBSET Hosts]
NoManifest == [state |-> "absent", files |-> {}, hosts |-> {}]

Target == [pack : Packs, place : Places]

(* The command under way: its pack and the version it cloned, or read in   *)
(* pack.json; the scopes of the hosts; targets left to visit, manifest     *)
(* entries as read and new; for uninstall the manifest as read and the     *)
(* sidecars to remove; the pack directory to restore when it fails; the    *)
(* file it has decided to write (Put: the target, its text as rendered,    *)
(* and the file as it was when compared).  PC: where the command is.       *)
PC == {"clone", "copy", "stamp", "verify", "confirm", "resync", "write", "put", "remove",
       "drop", "source_url"}
Put == [target : Target, text : Shipped, found : Shipped \cup {Mine, None}]
Busy == [pc : PC, op : {"init", "install", "update", "uninstall", "publish"},
         k : Packs \cup {None}, v : Versions \cup {0},
         hosts : SUBSET Hosts, force : BOOLEAN, todo : SUBSET Target,
         prior : SUBSET Entry, new : SUBSET Entry,
         snap : Manifest \cup {NoManifest}, sides : SUBSET Places,
         backup : PackDir \cup {NoPack}, put : Put \cup {None}]
Idle == [pc |-> "idle"]

TypeOK ==
    /\ upstream \in [Packs -> Versions]
    /\ pack \in [Packs -> PackDir \cup {NoPack}]
    /\ file \in [Places -> Shipped \cup {Mine, None}]
    /\ side \in [Places -> Shipped \cup {None}]
    /\ manifest \in Manifest \cup {NoManifest}
    /\ proc \in [Procs -> Busy \cup {Idle}]

Init ==
    /\ upstream = [k \in Packs |-> 1]
    /\ pack = [k \in Packs |-> IF k \in Local
                 THEN [kind |-> Kind(k, 1), v |-> 1, says |-> 1, url |-> FALSE] ELSE NoPack]
    /\ file = [d \in Places |-> None]
    /\ side = [d \in Places |-> None]
    /\ manifest = NoManifest
    /\ proc = [p \in Procs |-> Idle]

Call(p, op, pc, k) ==
    [pc |-> pc, op |-> op, k |-> k, v |-> 0, hosts |-> {}, force |-> FALSE,
     todo |-> {}, prior |-> {}, new |-> {}, snap |-> NoManifest, sides |-> {},
     backup |-> NoPack, put |-> None]

Return(p) == proc' = [proc EXCEPT ![p] = Idle]

(* An exception: uninstall and update put the directory they backed up     *)
(* back.                                                                   *)
Fails(p) ==
    /\ pack' = IF proc[p].backup = NoPack THEN pack
               ELSE [pack EXCEPT ![proc[p].k] = proc[p].backup]
    /\ Return(p)

---------------------------------------------------------------------------
(* install_packs: the body of `garage init` and the end of an update. *)

(* discover_packs raises, or returns these packs. *)
Loadable   == \A k \in Packs : pack[k].kind \notin {"mismatched", "broken"}
Discovered == {k \in Packs : pack[k].kind = "whole"}

Targets(want) ==
    UNION {{[pack |-> k, place |-> <<h, want[h], s>>] :
              h \in DOMAIN want, s \in Ships[k][pack[k].v]} : k \in Discovered}

(* Seeded fault: packs are not compared. *)
Conflicting_Never(targets) == FALSE

(* Two packs ship a skill of one name. *)
Conflicting(targets) ==
    \E t, u \in targets : t.place = u.place /\ t.pack # u.pack

InitCall(p, want, force) ==
    /\ proc[p].pc = "idle"
    /\ Loadable
    /\ ~Conflicting(Targets(want))
    /\ manifest.state # "torn"
    /\ proc' = [proc EXCEPT ![p] =
         [Call(p, "init", "write", None) EXCEPT
            !.hosts = DOMAIN want, !.force = force,
            !.todo = Targets(want), !.prior = manifest.files]]
    /\ UNCHANGED <<upstream, pack, file, side, manifest>>

TextOf(t) == <<t.pack, pack[t.pack].v>>

HasSkill(t) ==
    pack[t.pack].kind # "absent" /\ t.place[3] \in Ships[t.pack][pack[t.pack].v]

(* Seeded fault: a source that is gone is installed all the same. *)
Renders_Always(t) == TRUE

(* The skill is there and inject accepts its front matter. *)
Renders(t) == HasSkill(t) /\ <<t.pack, pack[t.pack].v, t.place[3]>> \notin Malformed

(* What the manifest as read says of the target. *)
Priors(p, t) == {e \in proc[p].prior : e.place = t.place /\ PackOf(e) = t.pack}

(* Seeded faults: the hash is not compared; the file is compared with what *)
(* would be written instead of what was.                                   *)
Overwrites_Tracked(p, t) ==
    \/ file[t.place] = None
    \/ Priors(p, t) # {}
    \/ proc[p].force
Overwrites_Same(p, t) ==
    \/ file[t.place] = None
    \/ Priors(p, t) # {} /\ file[t.place] = TextOf(t)
    \/ proc[p].force

(* _decide_action: a file is written if it is not there, if it is as the   *)
(* manifest says the tool left it, or if the user forces it.               *)
Overwrites(p, t) ==
    \/ file[t.place] = None
    \/ \E e \in Priors(p, t) : file[t.place] = e.text
    \/ proc[p].force

(* The file is rendered and compared, ... *)
Decide(p) ==
    /\ proc[p].pc = "write"
    /\ \E t \in proc[p].todo :
         /\ Renders(t) /\ Overwrites(p, t)
         /\ proc' = [proc EXCEPT ![p].pc = "put",
              ![p].put = [target |-> t, text |-> TextOf(t), found |-> file[t.place]]]
    /\ UNCHANGED <<upstream, pack, file, side, manifest>>

(* ... and written, whatever it has become meanwhile; the sidecars are     *)
(* copied from what the pack holds by now.                                 *)
Write(p) ==
    /\ proc[p].pc = "put"
    /\ LET t == proc[p].put.target  text == proc[p].put.text IN
       /\ file' = [file EXCEPT ![t.place] = text]
       /\ side' = IF t.place[3] \in Sidecars /\ HasSkill(t)
                  THEN [side EXCEPT ![t.place] = TextOf(t)] ELSE side
       /\ proc' = [proc EXCEPT ![p].pc = "write", ![p].put = None, ![p].todo = @ \ {t},
                     ![p].new = @ \cup {[place |-> t.place, text |-> text]}]
    /\ UNCHANGED <<upstream, pack, manifest>>

(* "Skipped (locally modified)": the entry, if any, is kept. *)
Skip(p) ==
    /\ proc[p].pc = "write"
    /\ \E t \in proc[p].todo :
         /\ Renders(t) /\ ~Overwrites(p, t)
         /\ proc' = [proc EXCEPT ![p].todo = @ \ {t}, ![p].new = @ \cup Priors(p, t)]
    /\ UNCHANGED <<upstream, pack, file, side, manifest>>

Stumble(p) ==
    /\ proc[p].pc = "write"
    /\ \E t \in proc[p].todo : ~Renders(t)
    /\ Fails(p)
    /\ UNCHANGED <<upstream, file, side, manifest>>

(* The entries of the manifest that are carried over: those of hosts and   *)
(* scopes this run installed nothing to.  Seeded faults: of hosts; all     *)
(* that the run has not installed as they are.                             *)
Carried_OtherHosts(new) ==
    {e \in manifest.files : \A n \in new : e.place[1] # n.place[1]}
Carried_All(new) == manifest.files \ new
Carried(new) ==
    {e \in manifest.files : \A n \in new : Zone(e.place) # Zone(n.place)}

Merge(p) ==
    /\ proc[p].pc = "write"
    /\ proc[p].todo = {}
    /\ manifest.state # "torn"
    /\ manifest' = [state |-> "whole",
                    files |-> proc[p].new \cup Carried(proc[p].new),
                    hosts |-> proc[p].hosts \cup manifest.hosts]
    /\ Return(p)
    /\ UNCHANGED <<upstream, pack, file, side>>

(* A command finds that another one has meanwhile torn the manifest, put   *)
(* the pack there, or taken it away.                                       *)
Collide(p) ==
    /\ \/ proc[p].pc = "write" /\ proc[p].todo = {} /\ manifest.state = "torn"
       \/ proc[p].pc = "clone" /\ pack[proc[p].k].kind # "absent"
       \/ /\ \/ proc[p].pc \in {"copy", "stamp"}
             \/ proc[p].pc = "confirm" /\ proc[p].op \in {"update", "publish"}
             \/ proc[p].pc = "source_url"
          /\ pack[proc[p].k].kind = "absent"
    /\ Fails(p)
    /\ UNCHANGED <<upstream, file, side, manifest>>

---------------------------------------------------------------------------
(* `garage pack install`. *)

InstallCall(p, k) ==
    /\ proc[p].pc = "idle"
    /\ k \notin Local
    /\ pack[k].kind = "absent"
    /\ proc' = [proc EXCEPT ![p] =
                  [Call(p, "install", "clone", k) EXCEPT !.v = upstream[k]]]
    /\ UNCHANGED <<upstream, pack, file, side, manifest>>

(* copytree has begun: pack.json may or may not be there already. *)
CopyBegins(p) ==
    /\ proc[p].pc = "clone"
    /\ pack[proc[p].k].kind = "absent"
    /\ \E kind \in {"unlisted", "mismatched"} :
         pack' = [pack EXCEPT ![proc[p].k] = [kind |-> kind, v |-> proc[p].v, says |-> proc[p].v, url |-> FALSE]]
    /\ proc' = [proc EXCEPT ![p].pc = "copy"]
    /\ UNCHANGED <<upstream, file, side, manifest>>

CopyEnds(p) ==
    /\ proc[p].pc = "copy"
    /\ pack[proc[p].k].kind # "absent"
    /\ pack' = [pack EXCEPT ![proc[p].k] =
                  [kind |-> Kind(proc[p].k, proc[p].v), v |-> proc[p].v,
                   says |-> proc[p].v, url |-> FALSE]]
    /\ proc' = [proc EXCEPT ![p].pc = "stamp"]
    /\ UNCHANGED <<upstream, file, side, manifest>>

(* source_url is added to the pack.json that was copied. *)
Stamp(p) ==
    /\ proc[p].pc = "stamp"
    /\ pack[proc[p].k].kind # "absent"
    /\ pack' = [pack EXCEPT ![proc[p].k].url = TRUE]
    /\ proc' = [proc EXCEPT ![p].pc = IF proc[p].op = "install" THEN "verify" ELSE "resync"]
    /\ UNCHANGED <<upstream, file, side, manifest>>

(* All packs are loaded again: the new one is removed when some pack.json  *)
(* is broken, and left when a pack does not match its pack.json.           *)
Verify(p) ==
    /\ proc[p].pc = "verify"
    /\ \/ /\ \E k \in Packs : pack[k].kind = "broken"
          /\ pack' = [pack EXCEPT ![proc[p].k] = NoPack]
       \/ /\ Loadable \/ \E k \in Packs : pack[k].kind = "mismatched"
          /\ UNCHANGED pack
    /\ Return(p)
    /\ UNCHANGED <<upstream, file, side, manifest>>

---------------------------------------------------------------------------
(* `garage pack update`: the repository is cloned and its version compared *)
(* before the user is asked.                                               *)

UpdateCall(p, k) ==
    /\ proc[p].pc = "idle"
    /\ pack[k].kind \in {"whole", "mismatched"}
    /\ pack[k].url
    /\ upstream[k] # pack[k].says
    /\ proc' = [proc EXCEPT ![p] =
                  [Call(p, "update", "confirm", k) EXCEPT
                     !.v = upstream[k], !.force = TRUE]]
    /\ UNCHANGED <<upstream, pack, file, side, manifest>>

SwapOut(p) ==
    /\ proc[p].pc = "confirm" /\ proc[p].op = "update"
    /\ pack[proc[p].k].kind # "absent"
    /\ pack' = [pack EXCEPT ![proc[p].k] = NoPack]
    /\ proc' = [proc EXCEPT ![p].pc = "clone", ![p].backup = pack[proc[p].k]]
    /\ UNCHANGED <<upstream, file, side, manifest>>

(* Every host ever installed to is installed to again, at project scope.   *)
Again == [h \in manifest.hosts |-> "project"]

Resync(p) ==
    /\ proc[p].pc = "resync"
    /\ IF manifest.state = "torn" THEN Fails(p)
       ELSE IF manifest.hosts = {} THEN Return(p) /\ UNCHANGED pack
       ELSE IF ~Loadable \/ Conflicting(Targets(Again)) THEN Fails(p)
       ELSE /\ proc' = [proc EXCEPT ![p].pc = "write", ![p].hosts = manifest.hosts,
                          ![p].todo = Targets(Again), ![p].prior = manifest.files]
            /\ UNCHANGED pack
    /\ UNCHANGED <<upstream, file, side, manifest>>

---------------------------------------------------------------------------
(* `garage pack uninstall`; the manifest is read before the user is asked. *)

UninstallCall(p, k) ==
    /\ proc[p].pc = "idle"
    /\ pack[k].kind # "absent"
    /\ manifest.state # "torn"
    /\ LET places == {e.place : e \in {f \in manifest.files : PackOf(f) = k}} IN
       proc' = [proc EXCEPT ![p] =
         [Call(p, "uninstall", "confirm", k) EXCEPT
            !.todo = {[pack |-> k, place |-> d] : d \in places},
            !.sides = {d \in places : side[d] # None},
            !.snap = manifest]]
    /\ UNCHANGED <<upstream, pack, file, side, manifest>>

Confirm(p) ==
    /\ proc[p].pc = "confirm" /\ proc[p].op = "uninstall"
    /\ proc' = [proc EXCEPT ![p].pc = "remove", ![p].backup = pack[proc[p].k]]
    /\ UNCHANGED <<upstream, pack, file, side, manifest>>

Cancel(p) ==
    /\ proc[p].pc = "confirm"
    /\ Return(p)
    /\ UNCHANGED <<upstream, pack, file, side, manifest>>

RemoveSide(p) ==
    /\ proc[p].pc = "remove"
    /\ \E d \in proc[p].sides :
         /\ side' = [side EXCEPT ![d] = None]
         /\ proc' = [proc EXCEPT ![p].sides = @ \ {d}]
    /\ UNCHANGED <<upstream, pack, file, manifest>>

RemoveFile(p) ==
    /\ proc[p].pc = "remove"
    /\ proc[p].sides = {}
    /\ \E t \in proc[p].todo :
         /\ file' = [file EXCEPT ![t.place] = None]
         /\ proc' = [proc EXCEPT ![p].todo = @ \ {t}]
    /\ UNCHANGED <<upstream, pack, side, manifest>>

RemovePack(p) ==
    /\ proc[p].pc = "remove"
    /\ proc[p].sides = {} /\ proc[p].todo = {}
    /\ pack' = [pack EXCEPT ![proc[p].k] = NoPack]
    /\ proc' = [proc EXCEPT ![p].pc = "drop"]
    /\ UNCHANGED <<upstream, file, side, manifest>>

(* The entries that stay.                                                  *)
Others(p) == {e \in proc[p].snap.files : PackOf(e) # proc[p].k}

Drop(p) ==
    /\ proc[p].pc = "drop"
    /\ manifest' = IF \A e \in proc[p].snap.files : PackOf(e) # proc[p].k
                   THEN manifest
                   ELSE [proc[p].snap EXCEPT !.files = Others(p)]
    /\ Return(p)
    /\ UNCHANGED <<upstream, pack, file, side>>

---------------------------------------------------------------------------
(* `garage pack publish`, to the pack's repository; pack.json is read and  *)
(* the pack scanned before the user is asked.                              *)

(* sensitive_scan *)
Scan(k) == <<k, pack[k].v>> \in Sensitive

PublishCall(p, k, force) ==
    /\ proc[p].pc = "idle"
    /\ k \in Outgoing
    /\ pack[k].kind \in {"whole", "mismatched"}
    /\ Scan(k) => force
    /\ proc' = [proc EXCEPT ![p] =
                  [Call(p, "publish", "confirm", k) EXCEPT !.v = pack[k].says]]
    /\ UNCHANGED <<upstream, pack, file, side, manifest>>

(* A copy of what the directory holds by now replaces what the repository  *)
(* has, be it older or newer; --no-update-source-url ends there.  (Bound:  *)
(* not of a directory that is half copied or torn, or whose pack.json is   *)
(* that of another version.)                                               *)
Push(p) ==
    /\ proc[p].pc = "confirm" /\ proc[p].op = "publish"
    /\ LET dir == pack[proc[p].k] IN
       /\ dir.kind # "absent" /\ dir.kind = Kind(proc[p].k, dir.v) /\ dir.says = dir.v
       /\ upstream' = [upstream EXCEPT ![proc[p].k] = dir.v]
    /\ Return(p) \/ proc' = [proc EXCEPT ![p].pc = "source_url"]
    /\ UNCHANGED <<pack, file, side, manifest>>

(* What discover_packs makes of a pack with another version's pack.json.   *)
Relisted(k, says) ==
    LET dir == pack[k] IN
    IF dir.kind = "mismatched" /\ dir.says = says THEN {"mismatched"}
    ELSE IF dir.kind \in {"unlisted", "mismatched"} THEN {"whole", "mismatched"}
    ELSE IF Ships[k][says] = Ships[k][dir.v] /\ <<k, says>> \notin Mismatched THEN {"whole"}
    ELSE {"mismatched"}

(* The pack.json that was read at the beginning, with the source_url. *)
WriteBack(p) ==
    /\ proc[p].pc = "source_url"
    /\ pack[proc[p].k].kind # "absent"
    /\ \E kind \in Relisted(proc[p].k, proc[p].v) :
         pack' = [pack EXCEPT ![proc[p].k] =
                    [kind |-> kind, v |-> @.v, says |-> proc[p].v, url |-> TRUE]]
    /\ Return(p)
    /\ UNCHANGED <<upstream, file, side, manifest>>

---------------------------------------------------------------------------
(* The environment. *)

Fail(p) ==
    /\ "fail" \in Faults
    /\ proc[p].pc # "idle"
    /\ Fails(p)
    /\ UNCHANGED <<upstream, file, side, manifest>>

(* host-installer.json and pack.json are written in place: a kill can      *)
(* leave half of one.                                                      *)
Crash(p) ==
    /\ "crash" \in Faults
    /\ proc[p].pc # "idle"
    /\ \/ UNCHANGED <<pack, manifest>>
       \/ /\ proc[p].pc = "drop" \/ (proc[p].pc = "write" /\ proc[p].todo = {})
          /\ manifest' = [NoManifest EXCEPT !.state = "torn"]
          /\ UNCHANGED pack
       \/ /\ proc[p].pc \in {"stamp", "source_url"} /\ pack[proc[p].k].kind # "absent"
          /\ pack' = [pack EXCEPT ![proc[p].k].kind = "broken"]
          /\ UNCHANGED manifest
    /\ Return(p)
    /\ UNCHANGED <<upstream, file, side>>

Release(k) ==
    /\ k \notin Local
    /\ upstream[k] < MaxVersion
    /\ upstream' = [upstream EXCEPT ![k] = @ + 1]
    /\ UNCHANGED <<pack, file, side, manifest, proc>>

Edit(d) ==
    /\ file' = [file EXCEPT ![d] = Mine]
    /\ UNCHANGED <<upstream, pack, side, manifest, proc>>

Delete(d) ==
    /\ file' = [file EXCEPT ![d] = None]
    /\ UNCHANGED <<upstream, pack, side, manifest, proc>>

CommandBegins(p) ==
    \/ \E want \in Requests, force \in BOOLEAN : InitCall(p, want, force)
    \/ \E k \in Packs : InstallCall(p, k) \/ UpdateCall(p, k) \/ UninstallCall(p, k)
    \/ \E k \in Packs, force \in BOOLEAN : PublishCall(p, k, force)

CommandStep(p) ==
    \/ Decide(p) \/ Write(p) \/ Skip(p) \/ Stumble(p) \/ Merge(p) \/ Collide(p)
    \/ CopyBegins(p) \/ CopyEnds(p) \/ Stamp(p) \/ Verify(p)
    \/ SwapOut(p) \/ Resync(p)
    \/ Confirm(p) \/ Cancel(p)
    \/ RemoveSide(p) \/ RemoveFile(p) \/ RemovePack(p) \/ Drop(p)
    \/ Push(p) \/ WriteBack(p)

Next ==
    \/ \E p \in Procs : CommandBegins(p) \/ CommandStep(p) \/ Fail(p) \/ Crash(p)
    \/ \E k \in Packs : Release(k)
    \/ \E d \in Places : Edit(d) \/ Delete(d)

Spec == Init /\ [][Next]_vars

---------------------------------------------------------------------------
(* Correctness. *)

(* The manifest answers for every file which pack it came from: no place   *)
(* has two entries, whatever commands are repeated, fail or are killed.    *)
OneOwner == \A e, f \in manifest.files : e.place = f.place => e = f

(* FR-706b: text of the user falls to the user, to a command that was      *)
(* forced (an update always is), to the removal of the pack, or, having    *)
(* been saved after the run compared the file, to the write that follows:  *)
(* what the user had saved before is seen by every run that would write.   *)
EditKept ==
    [][\A p \in Procs, d \in Places :
          proc'[p] # proc[p] /\ file[d] = Mine /\ file'[d] # Mine =>
             \/ proc[p].force \/ proc[p].op = "uninstall"
             \/ proc[p].pc = "put" /\ proc[p].put.found # Mine]_vars

(* FR-706b: "Skipped (locally modified)" is only said of a file that the   *)
(* user wrote or edited.                                                   *)
SkipMeansEdit ==
    \A p \in Procs : proc[p].pc = "write" =>
        \A t \in proc[p].todo : ~Overwrites(p, t) => file[t.place] = Mine

AtRest == \A p \in Procs : proc[p].pc = "idle"

(* FR-705, CON-1203: between commands manifest and disk agree.  Every copy *)
(* of a skill is in the manifest as what it is, and every entry belongs to *)
(* a pack that is installed.                                               *)
ManifestMatchesDisk ==
    AtRest =>
      /\ \A d \in Places : file[d] \in Shipped =>
            [place |-> d, text |-> file[d]] \in manifest.files
      /\ \A e \in manifest.files : pack[PackOf(e)].kind # "absent"
=============================================================================
