------------------------ MODULE PackLifecycle_proofs ------------------------
(***************************************************************************)
(* Proofs about PackLifecycle for any packs, hosts, scopes, releases and   *)
(* processes, with commands that fail or are killed anywhere; and, from    *)
(* Tidy on, about one process whose commands neither fail nor are killed.  *)
(*                                                                         *)
(* That the manifest has one entry for a place is inductive together with  *)
(* what a command carries: the targets it has left, the entries it has     *)
(* made and the manifest it read each have one item for a place, and no    *)
(* target is left for a place that has an entry already.                   *)
(***************************************************************************)
EXTENDS PackLifecycle, TLAPS

Once(S) == \A x, y \in S : x.place = y.place => x = y

(* A file about to be written: a target that is left, with a text of its   *)
(* pack; unforced, the file was not the user's when it was compared.       *)
Aimed(b) ==
    /\ b.put \in Put /\ b.put.target \in b.todo
    /\ b.put.text[1] = b.put.target.pack
    /\ b.put.found = Mine => b.force

Phase(b) ==
    /\ \/ b.pc \in {"clone", "copy", "source_url"}
       \/ b.pc = "confirm" /\ b.op \in {"update", "publish"}
       => b.v \in Versions
    /\ b.pc = "remove" => b.op = "uninstall"
    /\ b.op # "init" => b.k \in Packs
    /\ b.pc \notin {"write", "put"} => b.new = {}
    /\ b.pc = "put" => Aimed(b)

Ledger(b) ==
    /\ Once(b.prior) /\ Once(b.new) /\ Once(b.snap.files) /\ Once(b.todo)
    /\ \A t \in b.todo, e \in b.new : t.place # e.place

Sound(b) == b \in Busy /\ Phase(b) /\ Ledger(b)

IInv ==
    /\ TypeOK
    /\ OneOwner
    /\ \A p \in Procs : proc[p].pc # "idle" => Sound(proc[p])

---------------------------------------------------------------------------
(* Types. *)

LEMMA Records ==
    /\ NoPack \notin PackDir
    /\ NoManifest.files = {} /\ NoManifest.hosts = {}
    /\ Idle.pc = "idle"
    /\ \A b \in Busy : b.pc # "idle"
BY DEF NoPack, PackDir, NoManifest, Idle, Busy, PC

(* What a step has to show that moves one process and leaves every other   *)
(* part of the state well-typed.                                           *)
LEMMA Advance ==
    ASSUME IInv, NEW p \in Procs, NEW n, n = Idle \/ Sound(n),
           proc' = [proc EXCEPT ![p] = n],
           upstream' \in [Packs -> Versions],
           pack' \in [Packs -> PackDir \cup {NoPack}],
           file' \in [Places -> Shipped \cup {Mine, None}],
           side' \in [Places -> Shipped \cup {None}],
           manifest' \in Manifest \cup {NoManifest}, Once(manifest'.files)
    PROVE  IInv'
<1>1. n \in Busy \cup {Idle}
  BY DEF Sound
<1>2. TypeOK'
  BY <1>1 DEF IInv, TypeOK
<1>3. OneOwner'
  BY DEF OneOwner, Once
<1>4. \A q \in Procs : proc'[q].pc # "idle" => Sound(proc'[q])
  BY Records DEF IInv, TypeOK
<1> QED BY <1>2, <1>3, <1>4 DEF IInv, Sound, Phase, Aimed, Ledger, Once

LEMMA SoundProc ==
    ASSUME IInv, NEW p \in Procs, proc[p].pc # "idle"
    PROVE  Sound(proc[p]) /\ proc[p] \in Busy /\ Once(manifest.files)
BY DEF IInv, Sound, OneOwner, Once

(* A command that calls install_packs: its targets have distinct places.   *)
LEMMA TargetsOnce ==
    ASSUME TypeOK, NEW H \in SUBSET Hosts, NEW want \in [H -> Scopes],
           ~Conflicting(Targets(want))
    PROVE  Targets(want) \in SUBSET Target /\ Once(Targets(want))
<1>1. \A k \in Discovered : k \in Packs /\ pack[k].v \in Versions
  BY DEF Discovered, TypeOK, PackDir, NoPack
<1>2. \A k \in Discovered : Ships[k][pack[k].v] \in SUBSET Skills
  BY <1>1, PackAssumption
<1>3. Targets(want) \in SUBSET Target
  BY <1>1, <1>2 DEF Targets, Target, Places
<1>4. Once(Targets(want))
  BY <1>3 DEF Once, Conflicting, Target
<1> QED BY <1>3, <1>4

(* A command that fails. *)
LEMMA FailsStep ==
    ASSUME IInv, NEW p \in Procs, proc[p].pc # "idle", Fails(p),
           UNCHANGED <<upstream, file, side, manifest>>
    PROVE  IInv'
<1>1. proc[p].backup \in PackDir \cup {NoPack}
  BY SoundProc DEF Busy
<1>2. pack' \in [Packs -> PackDir \cup {NoPack}]
  BY <1>1 DEF Fails, IInv, TypeOK
<1>3. proc' = [proc EXCEPT ![p] = Idle]
  BY DEF Fails, Return
<1> QED BY <1>2, <1>3, SoundProc, Advance DEF IInv, TypeOK

(* A command that returns. *)
LEMMA ReturnStep ==
    ASSUME IInv, NEW p \in Procs, Return(p),
           UNCHANGED <<upstream, file, side>>,
           pack' \in [Packs -> PackDir \cup {NoPack}],
           manifest' \in Manifest \cup {NoManifest}, Once(manifest'.files)
    PROVE  IInv'
<1>1. proc' = [proc EXCEPT ![p] = Idle]
  BY DEF Return
<1> QED BY <1>1, Advance DEF IInv, TypeOK

---------------------------------------------------------------------------
(* garage init. *)

(* A command begins with empty hands. *)
LEMMA CallTyped ==
    ASSUME NEW p, NEW pc \in PC, NEW op \in {"init", "install", "update", "uninstall", "publish"},
           NEW k \in Packs \cup {None}
    PROVE  Call(p, op, pc, k) \in Busy
BY DEF Call, Busy

LEMMA InitStep ==
    ASSUME IInv, NEW p \in Procs, NEW want \in Requests, NEW force \in BOOLEAN,
           InitCall(p, want, force)
    PROVE  IInv'
<1> DEFINE n == [Call(p, "init", "write", None) EXCEPT
                   !.hosts = DOMAIN want, !.force = force,
                   !.todo = Targets(want), !.prior = manifest.files]
<1>1. PICK H \in SUBSET Hosts : want \in [H -> Scopes]
  BY PackAssumption
<1>2. Targets(want) \in SUBSET Target /\ Once(Targets(want))
  BY <1>1, TargetsOnce DEF InitCall, IInv
<1>3. manifest.files \in SUBSET Entry /\ Once(manifest.files)
  BY Records DEF IInv, TypeOK, Manifest, OneOwner, Once
<1>4. Call(p, "init", "write", None) \in Busy
  BY CallTyped DEF PC
<1>5. n \in Busy
  BY <1>1, <1>2, <1>3, <1>4 DEF Busy
<1>6. Phase(n)
  BY DEF Phase, Call
<1>7. Ledger(n)
  BY <1>2, <1>3, Records DEF Ledger, Call, Once
<1>8. proc' = [proc EXCEPT ![p] = n]
  BY DEF InitCall
<1> HIDE DEF n
<1> QED BY <1>3, <1>5, <1>6, <1>7, <1>8, Advance DEF Sound, InitCall, IInv, TypeOK

(* What a command has left when it has dealt with a target. *)
LEMMA TargetDone ==
    ASSUME IInv, NEW p \in Procs, proc[p].pc \in {"write", "put"}, NEW t \in proc[p].todo,
           NEW E \in SUBSET Entry, Once(E), \A e \in E : e.place = t.place,
           NEW n \in Busy, n.pc = "write",
           n.todo = proc[p].todo \ {t}, n.new = proc[p].new \cup E,
           n.prior = proc[p].prior, n.snap = proc[p].snap,
           n.op = proc[p].op, n.k = proc[p].k
    PROVE  Sound(n)
<1>1. Sound(proc[p]) /\ proc[p] \in Busy
  BY SoundProc
<1>2. Phase(n)
  BY <1>1 DEF Sound, Phase
<1>3. Ledger(proc[p])
  BY <1>1 DEF Sound
<1>4. Once(n.prior) /\ Once(n.snap.files)
  BY <1>3 DEF Ledger
<1>5. Once(n.todo) /\ Once(n.new)
  BY <1>3 DEF Ledger, Once
<1>6. \A u \in n.todo, e \in n.new : u.place # e.place
  BY <1>3 DEF Ledger, Once
<1> QED BY <1>2, <1>4, <1>5, <1>6 DEF Sound, Ledger

LEMMA DecideStep ==
    ASSUME IInv, NEW p \in Procs, Decide(p)
    PROVE  IInv'
<1>1. PICK t \in proc[p].todo :
        /\ Renders(t) /\ Overwrites(p, t)
        /\ proc' = [proc EXCEPT ![p].pc = "put",
              ![p].put = [target |-> t, text |-> TextOf(t), found |-> file[t.place]]]
  BY DEF Decide
<1>2. Sound(proc[p]) /\ proc[p] \in Busy /\ Once(manifest.files)
  BY SoundProc DEF Decide
<1>3. t \in Target /\ t.place \in Places /\ t.pack \in Packs
  BY <1>2 DEF Busy, Target
<1>4. TextOf(t) \in Shipped /\ TextOf(t)[1] = t.pack
  BY <1>1, <1>3 DEF Renders, HasSkill, TextOf, IInv, TypeOK, PackDir, NoPack, Shipped
<1> DEFINE u == [target |-> t, text |-> TextOf(t), found |-> file[t.place]]
           n == [proc[p] EXCEPT !.pc = "put", !.put = u]
<1>5. u \in Put
  BY <1>3, <1>4 DEF Put, IInv, TypeOK
<1>6. u.found = Mine => proc[p].force
  <2>1. \A e \in Priors(p, t) : e.text \in Shipped
    BY <1>2 DEF Busy, Priors, Entry
  <2> QED BY <1>1, <2>1, PackAssumption DEF Overwrites
<1>7. u.target = t /\ u.text[1] = t.pack
  BY <1>4
<1> HIDE DEF u
<1>8. n \in Busy
  BY <1>2, <1>5 DEF Busy, PC
<1>9. /\ n.todo = proc[p].todo /\ n.new = proc[p].new /\ n.prior = proc[p].prior
      /\ n.snap = proc[p].snap /\ n.op = proc[p].op /\ n.k = proc[p].k
      /\ n.force = proc[p].force /\ n.pc = "put" /\ n.put = u
  BY <1>2 DEF Busy
<1>10. proc' = [proc EXCEPT ![p] = n]
  BY <1>1 DEF u
<1> HIDE DEF n
<1>11. Aimed(n)
  BY <1>5, <1>6, <1>7, <1>9 DEF Aimed
<1>12. Phase(n) /\ Ledger(n)
  BY <1>2, <1>9, <1>11 DEF Sound, Phase, Ledger
<1> QED BY <1>2, <1>8, <1>10, <1>12, Advance DEF Sound, Decide, IInv, TypeOK

(* The file that Write writes. *)
LEMMA Putting ==
    ASSUME IInv, NEW p \in Procs, proc[p].pc = "put"
    PROVE  /\ proc[p] \in Busy /\ proc[p].put.target \in proc[p].todo
           /\ proc[p].put.target \in Target /\ proc[p].put.text \in Shipped
           /\ proc[p].put.text[1] = proc[p].put.target.pack
           /\ proc[p].put.found = Mine => proc[p].force
BY SoundProc DEF Sound, Phase, Aimed, Put

LEMMA WriteStep ==
    ASSUME IInv, NEW p \in Procs, Write(p)
    PROVE  IInv'
<1> DEFINE t == proc[p].put.target
           text == proc[p].put.text
           E == {[place |-> t.place, text |-> text]}
           n == [proc[p] EXCEPT !.pc = "write", !.put = None, !.todo = @ \ {t},
                                !.new = @ \cup E]
<1>1. proc[p].pc = "put"
  BY DEF Write
<1>2. /\ proc[p] \in Busy /\ t \in proc[p].todo /\ t \in Target
      /\ t.place \in Places /\ t.pack \in Packs /\ text \in Shipped
  BY <1>1, Putting DEF Target
<1>3. E \in SUBSET Entry /\ Once(E) /\ \A e \in E : e.place = t.place
  BY <1>2 DEF Entry, Once
<1>4. /\ file' = [file EXCEPT ![t.place] = text]
      /\ side' = IF t.place[3] \in Sidecars /\ HasSkill(t)
                 THEN [side EXCEPT ![t.place] = TextOf(t)] ELSE side
      /\ proc' = [proc EXCEPT ![p] = n]
  BY DEF Write
<1>5. HasSkill(t) => TextOf(t) \in Shipped
  BY <1>2 DEF HasSkill, TextOf, IInv, TypeOK, PackDir, NoPack, Shipped
<1>6. file' \in [Places -> Shipped \cup {Mine, None}]
  BY <1>2, <1>4 DEF IInv, TypeOK
<1>7. side' \in [Places -> Shipped \cup {None}]
  BY <1>4, <1>5 DEF IInv, TypeOK
<1> HIDE DEF E, t, text
<1>8. n \in Busy
  BY <1>2, <1>3 DEF Busy, PC
<1>9. /\ n.pc = "write" /\ n.todo = proc[p].todo \ {t} /\ n.new = proc[p].new \cup E
      /\ n.prior = proc[p].prior /\ n.snap = proc[p].snap
      /\ n.op = proc[p].op /\ n.k = proc[p].k
  BY <1>2 DEF Busy
<1> HIDE DEF n
<1>10. Sound(n)
  BY <1>1, <1>2, <1>3, <1>8, <1>9, TargetDone
<1>11. Once(manifest.files)
  BY <1>1, SoundProc
<1> QED BY <1>4, <1>6, <1>7, <1>10, <1>11, Advance DEF Write, IInv, TypeOK

LEMMA SkipStep ==
    ASSUME IInv, NEW p \in Procs, Skip(p)
    PROVE  IInv'
<1>1. PICK t \in proc[p].todo :
        proc' = [proc EXCEPT ![p].todo = @ \ {t}, ![p].new = @ \cup Priors(p, t)]
  BY DEF Skip
<1>2. /\ proc[p] \in Busy /\ proc[p].pc = "write"
      /\ proc[p].prior \in SUBSET Entry /\ Once(proc[p].prior)
  BY SoundProc DEF Skip, Busy, Sound, Ledger
<1> DEFINE E == Priors(p, t)
           n == [proc[p] EXCEPT !.todo = @ \ {t}, !.new = @ \cup E]
<1>3. E \in SUBSET Entry /\ Once(E) /\ \A e \in E : e.place = t.place
  BY <1>2 DEF Priors, Once
<1>4. proc' = [proc EXCEPT ![p] = n]
  BY <1>1
<1> HIDE DEF E
<1>5. n \in Busy
  BY <1>2, <1>3 DEF Busy
<1>6. /\ n.pc = "write" /\ n.todo = proc[p].todo \ {t} /\ n.new = proc[p].new \cup E
      /\ n.prior = proc[p].prior /\ n.snap = proc[p].snap
      /\ n.op = proc[p].op /\ n.k = proc[p].k
  BY <1>2 DEF Busy
<1> HIDE DEF n
<1>7. Sound(n)
  BY <1>2, <1>3, <1>5, <1>6, TargetDone
<1>8. Once(manifest.files)
  BY SoundProc DEF Skip
<1> QED BY <1>4, <1>7, <1>8, Advance DEF Skip, IInv, TypeOK

LEMMA MergeStep ==
    ASSUME IInv, NEW p \in Procs, Merge(p)
    PROVE  IInv'
<1>1. /\ proc[p].new \in SUBSET Entry /\ Once(proc[p].new)
      /\ proc[p].hosts \in SUBSET Hosts /\ Once(manifest.files)
  BY SoundProc DEF Merge, Busy, Sound, Ledger
<1>2. manifest.files \in SUBSET Entry /\ manifest.hosts \in SUBSET Hosts
  BY Records DEF IInv, TypeOK, Manifest
<1>3. manifest' \in Manifest
  BY <1>1, <1>2 DEF Merge, Manifest, Carried
<1>4. manifest'.files = proc[p].new \cup Carried(proc[p].new)
  BY DEF Merge
<1>5. \A e \in proc[p].new, f \in Carried(proc[p].new) : e.place # f.place
  BY DEF Carried, Zone
<1>6. Once(manifest'.files)
  BY <1>1, <1>4, <1>5 DEF Once, Carried
<1> QED BY <1>3, <1>6, ReturnStep DEF Merge, IInv, TypeOK

LEMMA FailingSteps ==
    ASSUME IInv, NEW p \in Procs, Stumble(p) \/ Collide(p) \/ Fail(p)
    PROVE  IInv'
BY FailsStep DEF Stumble, Collide, Fail

---------------------------------------------------------------------------
(* garage pack install and update. *)

(* A command goes on to another place, with the same targets and entries.  *)
LEMMA MoveOn ==
    ASSUME IInv, NEW p \in Procs, proc[p].pc \notin {"idle", "write", "put"},
           NEW pc \in PC, pc # "put", NEW backup \in PackDir \cup {NoPack},
           pc \in {"clone", "copy", "source_url"} => proc[p].v \in Versions,
           pc = "confirm" => proc[p].op \notin {"update", "publish"},
           pc = "remove" => proc[p].op = "uninstall",
           proc' = [proc EXCEPT ![p] = [proc[p] EXCEPT !.pc = pc, !.backup = backup]],
           pack' \in [Packs -> PackDir \cup {NoPack}],
           UNCHANGED <<upstream, file, side, manifest>>
    PROVE  IInv'
<1> DEFINE n == [proc[p] EXCEPT !.pc = pc, !.backup = backup]
<1>1. Sound(proc[p]) /\ proc[p] \in Busy /\ Once(manifest.files)
  BY SoundProc
<1>2. n \in Busy
  BY <1>1 DEF Busy
<1>3. /\ n.todo = proc[p].todo /\ n.new = proc[p].new /\ n.prior = proc[p].prior
      /\ n.snap = proc[p].snap /\ n.op = proc[p].op /\ n.v = proc[p].v
      /\ n.k = proc[p].k /\ n.pc = pc
  BY <1>1 DEF Busy
<1> HIDE DEF n
<1>4. Phase(n) /\ Ledger(n)
  BY <1>1, <1>3 DEF Sound, Phase, Ledger
<1>5. proc' = [proc EXCEPT ![p] = n]
  BY DEF n
<1> QED BY <1>1, <1>2, <1>4, <1>5, Advance DEF Sound, IInv, TypeOK

LEMMA CallSteps ==
    ASSUME IInv, NEW p \in Procs, NEW k \in Packs,
           InstallCall(p, k) \/ UpdateCall(p, k)
    PROVE  IInv'
<1>1. upstream[k] \in Versions
  BY DEF IInv, TypeOK
<1>2. Once(manifest.files)
  BY DEF IInv, OneOwner, Once
<1>3. Once(NoManifest.files)
  BY Records DEF Once
<1>4. CASE InstallCall(p, k)
  <2> DEFINE n == [Call(p, "install", "clone", k) EXCEPT !.v = upstream[k]]
  <2>1. Call(p, "install", "clone", k) \in Busy
    BY CallTyped DEF PC
  <2>2. n \in Busy
    BY <1>1, <2>1 DEF Busy
  <2>3. Phase(n) /\ Ledger(n)
    BY <1>1, <1>3 DEF Phase, Ledger, Call, Once
  <2>4. proc' = [proc EXCEPT ![p] = n]
    BY <1>4 DEF InstallCall
  <2> HIDE DEF n
  <2> QED BY <1>2, <1>4, <2>2, <2>3, <2>4, Advance DEF Sound, InstallCall, IInv, TypeOK
<1>5. CASE UpdateCall(p, k)
  <2> DEFINE n == [Call(p, "update", "confirm", k) EXCEPT !.v = upstream[k], !.force = TRUE]
  <2>1. Call(p, "update", "confirm", k) \in Busy
    BY CallTyped DEF PC
  <2>2. n \in Busy
    BY <1>1, <2>1 DEF Busy
  <2>3. Phase(n) /\ Ledger(n)
    BY <1>1, <1>3 DEF Phase, Ledger, Call, Once
  <2>4. proc' = [proc EXCEPT ![p] = n]
    BY <1>5 DEF UpdateCall
  <2> HIDE DEF n
  <2> QED BY <1>2, <1>5, <2>2, <2>3, <2>4, Advance DEF Sound, UpdateCall, IInv, TypeOK
<1> QED BY <1>4, <1>5

LEMMA CopySteps ==
    ASSUME IInv, NEW p \in Procs, CopyBegins(p) \/ CopyEnds(p) \/ Stamp(p)
    PROVE  IInv'
<1>1. Sound(proc[p]) /\ proc[p] \in Busy /\ proc[p].backup \in PackDir \cup {NoPack}
  BY SoundProc DEF CopyBegins, CopyEnds, Stamp, Busy
<1>2. proc[p].pc \in {"clone", "copy"} => proc[p].v \in Versions
  BY <1>1 DEF Sound, Phase
<1>3. CASE CopyBegins(p)
  <2>1. pack' \in [Packs -> PackDir \cup {NoPack}]
    <3>1. PICK kind \in {"unlisted", "mismatched"} :
            pack' = [pack EXCEPT ![proc[p].k] =
                       [kind |-> kind, v |-> proc[p].v, says |-> proc[p].v, url |-> FALSE]]
      BY <1>3 DEF CopyBegins
    <3>2. [kind |-> kind, v |-> proc[p].v, says |-> proc[p].v, url |-> FALSE] \in PackDir
      BY <1>2, <1>3 DEF CopyBegins, PackDir
    <3> QED BY <3>1, <3>2 DEF IInv, TypeOK
  <2>2. proc' = [proc EXCEPT ![p] = [proc[p] EXCEPT !.pc = "copy", !.backup = proc[p].backup]]
    BY <1>1, <1>3 DEF CopyBegins, Busy
  <2> QED BY <1>1, <1>2, <1>3, <2>1, <2>2, MoveOn DEF CopyBegins, PC
<1>4. CASE CopyEnds(p)
  <2>1. pack' \in [Packs -> PackDir \cup {NoPack}]
    BY <1>2, <1>4 DEF CopyEnds, IInv, TypeOK, PackDir, Kind
  <2>2. proc' = [proc EXCEPT ![p] = [proc[p] EXCEPT !.pc = "stamp", !.backup = proc[p].backup]]
    BY <1>1, <1>4 DEF CopyEnds, Busy
  <2> QED BY <1>1, <1>4, <2>1, <2>2, MoveOn DEF CopyEnds, PC
<1>5. CASE Stamp(p)
  <2>1. pack' \in [Packs -> PackDir \cup {NoPack}]
    <3>1. ASSUME NEW j \in Packs
          PROVE  pack'[j] \in PackDir \cup {NoPack}
      <4>1. pack[j] \in PackDir \cup {NoPack}
        BY DEF IInv, TypeOK
      <4>2. CASE j # proc[p].k
        BY <1>5, <4>1, <4>2 DEF Stamp, IInv, TypeOK
      <4>3. CASE j = proc[p].k
        <5>1. pack[j] \in PackDir
          BY <1>5, <4>1, <4>3 DEF Stamp, NoPack
        <5>2. [pack[j] EXCEPT !.url = TRUE] \in PackDir
          BY <5>1 DEF PackDir
        <5> QED BY <1>5, <4>3, <5>2 DEF Stamp, IInv, TypeOK
      <4> QED BY <4>2, <4>3
    <3>2. pack' = [j \in Packs |-> pack'[j]]
      BY <1>5 DEF Stamp, IInv, TypeOK
    <3> QED BY <3>1, <3>2
  <2>2. PICK pc \in {"verify", "resync"} :
          proc' = [proc EXCEPT ![p] = [proc[p] EXCEPT !.pc = pc, !.backup = proc[p].backup]]
    BY <1>1, <1>5 DEF Stamp, Busy
  <2>3. /\ pc \in PC /\ pc \notin {"clone", "copy", "source_url", "confirm", "remove"}
        /\ pc # "put" /\ proc[p].pc \notin {"idle", "write", "put"}
        /\ UNCHANGED <<upstream, file, side, manifest>>
    BY <1>5 DEF Stamp, PC
  <2> QED BY <1>1, <2>1, <2>2, <2>3, MoveOn
<1> QED BY <1>3, <1>4, <1>5

LEMMA VerifyStep ==
    ASSUME IInv, NEW p \in Procs, Verify(p)
    PROVE  IInv'
<1>1. pack' \in [Packs -> PackDir \cup {NoPack}]
  BY DEF Verify, IInv, TypeOK
<1>2. Once(manifest.files)
  BY DEF IInv, OneOwner, Once
<1> QED BY <1>1, <1>2, ReturnStep DEF Verify, IInv, TypeOK

LEMMA SwapStep ==
    ASSUME IInv, NEW p \in Procs, SwapOut(p)
    PROVE  IInv'
<1>1. Sound(proc[p])
  BY SoundProc DEF SwapOut
<1>2. proc[p].k \in Packs /\ proc[p].v \in Versions
  BY <1>1 DEF Sound, Phase, SwapOut
<1>3. pack[proc[p].k] \in PackDir \cup {NoPack} /\ pack' \in [Packs -> PackDir \cup {NoPack}]
  BY <1>2 DEF SwapOut, IInv, TypeOK
<1>4. proc' = [proc EXCEPT ![p] = [proc[p] EXCEPT !.pc = "clone", !.backup = pack[proc[p].k]]]
  BY DEF SwapOut
<1> QED BY <1>2, <1>3, <1>4, MoveOn DEF SwapOut, PC

LEMMA ResyncStep ==
    ASSUME IInv, NEW p \in Procs, Resync(p)
    PROVE  IInv'
<1>1. /\ Sound(proc[p]) /\ proc[p] \in Busy /\ Once(manifest.files)
      /\ manifest.files \in SUBSET Entry /\ manifest.hosts \in SUBSET Hosts
  BY SoundProc, Records DEF Resync, IInv, TypeOK, Manifest
<1>2. CASE Fails(p)
  BY <1>2, FailsStep DEF Resync
<1>3. CASE Return(p) /\ UNCHANGED pack
  BY <1>1, <1>3, ReturnStep DEF Resync, IInv, TypeOK
<1>4. CASE /\ ~Conflicting(Targets(Again)) /\ UNCHANGED pack
           /\ proc' = [proc EXCEPT ![p].pc = "write", ![p].hosts = manifest.hosts,
                          ![p].todo = Targets(Again), ![p].prior = manifest.files]
  <2> DEFINE n == [proc[p] EXCEPT !.pc = "write", !.hosts = manifest.hosts,
                     !.todo = Targets(Again), !.prior = manifest.files]
  <2>1. Again \in [manifest.hosts -> Scopes]
    BY PackAssumption DEF Again
  <2>2. Targets(Again) \in SUBSET Target /\ Once(Targets(Again))
    BY <1>1, <1>4, <2>1, TargetsOnce DEF IInv
  <2>3. n \in Busy
    BY <1>1, <2>2 DEF Busy, PC
  <2>4. /\ n.todo = Targets(Again) /\ n.new = proc[p].new /\ n.prior = manifest.files
        /\ n.snap = proc[p].snap /\ n.op = proc[p].op /\ n.k = proc[p].k
        /\ n.pc = "write"
    BY <1>1 DEF Busy
  <2>5. proc' = [proc EXCEPT ![p] = n]
    BY <1>4
  <2> HIDE DEF n
  <2>6. proc[p].new = {}
    BY <1>1 DEF Sound, Phase, Resync
  <2>7. Phase(n) /\ Ledger(n)
    BY <1>1, <2>2, <2>4, <2>6 DEF Sound, Phase, Ledger
  <2> QED BY <1>1, <1>4, <2>3, <2>5, <2>7, Advance DEF Sound, Resync, IInv, TypeOK
<1> QED BY <1>2, <1>3, <1>4 DEF Resync

---------------------------------------------------------------------------
(* garage pack uninstall. *)

LEMMA UninstallCallStep ==
    ASSUME IInv, NEW p \in Procs, NEW k \in Packs, UninstallCall(p, k)
    PROVE  IInv'
<1> DEFINE places == {e.place : e \in {f \in manifest.files : PackOf(f) = k}}
           n == [Call(p, "uninstall", "confirm", k) EXCEPT
                   !.todo = {[pack |-> k, place |-> d] : d \in places},
                   !.sides = {d \in places : side[d] # None},
                   !.snap = manifest]
<1>1. manifest.files \in SUBSET Entry /\ Once(manifest.files)
  BY Records DEF IInv, TypeOK, Manifest, OneOwner, Once
<1>2. places \in SUBSET Places
  BY <1>1 DEF Entry
<1>3. Call(p, "uninstall", "confirm", k) \in Busy
  BY CallTyped DEF PC
<1> HIDE DEF places
<1>4. {[pack |-> k, place |-> d] : d \in places} \in SUBSET Target
  BY <1>2 DEF Target
<1>5. n \in Busy
  BY <1>2, <1>3, <1>4 DEF Busy, IInv, TypeOK
<1>6. /\ n.todo = {[pack |-> k, place |-> d] : d \in places}
      /\ n.new = {} /\ n.prior = {} /\ n.snap = manifest
      /\ n.op = "uninstall" /\ n.pc = "confirm" /\ n.k = k
  BY DEF Call
<1>7. proc' = [proc EXCEPT ![p] = n]
  BY DEF UninstallCall, places
<1> HIDE DEF n
<1>8. Phase(n)
  BY <1>6 DEF Phase
<1>9. Ledger(n)
  BY <1>1, <1>6 DEF Ledger, Once
<1> QED BY <1>1, <1>5, <1>7, <1>8, <1>9, Advance DEF Sound, UninstallCall, IInv, TypeOK

LEMMA ConfirmStep ==
    ASSUME IInv, NEW p \in Procs, Confirm(p)
    PROVE  IInv'
<1>1. Sound(proc[p])
  BY SoundProc DEF Confirm
<1>2. proc[p].k \in Packs
  BY <1>1 DEF Sound, Phase, Confirm
<1>3. pack[proc[p].k] \in PackDir \cup {NoPack} /\ pack' \in [Packs -> PackDir \cup {NoPack}]
  BY <1>2 DEF Confirm, IInv, TypeOK
<1>4. proc' = [proc EXCEPT ![p] = [proc[p] EXCEPT !.pc = "remove", !.backup = pack[proc[p].k]]]
  BY DEF Confirm
<1> QED BY <1>3, <1>4, MoveOn DEF Confirm, PC

LEMMA CancelStep ==
    ASSUME IInv, NEW p \in Procs, Cancel(p)
    PROVE  IInv'
BY ReturnStep DEF Cancel, IInv, TypeOK, OneOwner, Once

(* A command has fewer sidecars or files left to remove. *)
LEMMA RemoveSteps ==
    ASSUME IInv, NEW p \in Procs, RemoveSide(p) \/ RemoveFile(p)
    PROVE  IInv'
<1>1. /\ Sound(proc[p]) /\ proc[p] \in Busy /\ Once(manifest.files)
      /\ proc[p].pc = "remove"
  BY SoundProc DEF RemoveSide, RemoveFile
<1>2. CASE RemoveSide(p)
  <2>1. PICK d \in proc[p].sides :
          /\ side' = [side EXCEPT ![d] = None]
          /\ proc' = [proc EXCEPT ![p].sides = @ \ {d}]
    BY <1>2 DEF RemoveSide
  <2> DEFINE n == [proc[p] EXCEPT !.sides = @ \ {d}]
  <2>2. n \in Busy
    BY <1>1 DEF Busy
  <2>3. /\ n.todo = proc[p].todo /\ n.new = proc[p].new /\ n.prior = proc[p].prior
        /\ n.snap = proc[p].snap /\ n.op = proc[p].op /\ n.k = proc[p].k
        /\ n.pc = "remove"
    BY <1>1 DEF Busy
  <2>4. proc' = [proc EXCEPT ![p] = n]
    BY <2>1
  <2>5. side' \in [Places -> Shipped \cup {None}]
    BY <2>1 DEF IInv, TypeOK
  <2> HIDE DEF n
  <2>6. Phase(n) /\ Ledger(n)
    BY <1>1, <2>3 DEF Sound, Phase, Ledger
  <2> QED BY <1>1, <1>2, <2>2, <2>4, <2>5, <2>6, Advance DEF Sound, RemoveSide, IInv, TypeOK
<1>3. CASE RemoveFile(p)
  <2>1. PICK t \in proc[p].todo :
          /\ file' = [file EXCEPT ![t.place] = None]
          /\ proc' = [proc EXCEPT ![p].todo = @ \ {t}]
    BY <1>3 DEF RemoveFile
  <2> DEFINE n == [proc[p] EXCEPT !.todo = @ \ {t}]
  <2>2. n \in Busy
    BY <1>1 DEF Busy
  <2>3. /\ n.todo = proc[p].todo \ {t} /\ n.new = proc[p].new
        /\ n.prior = proc[p].prior /\ n.snap = proc[p].snap
        /\ n.op = proc[p].op /\ n.k = proc[p].k /\ n.pc = "remove"
    BY <1>1 DEF Busy
  <2>4. proc' = [proc EXCEPT ![p] = n]
    BY <2>1
  <2>5. file' \in [Places -> Shipped \cup {Mine, None}]
    BY <2>1 DEF IInv, TypeOK
  <2> HIDE DEF n
  <2>6. Phase(n) /\ Ledger(n)
    BY <1>1, <2>3 DEF Sound, Phase, Ledger, Once
  <2> QED BY <1>1, <1>3, <2>2, <2>4, <2>5, <2>6, Advance DEF Sound, RemoveFile, IInv, TypeOK
<1> QED BY <1>2, <1>3

LEMMA RemovePackStep ==
    ASSUME IInv, NEW p \in Procs, RemovePack(p)
    PROVE  IInv'
<1>1. proc[p] \in Busy
  BY SoundProc DEF RemovePack
<1>2. pack' \in [Packs -> PackDir \cup {NoPack}] /\ proc[p].backup \in PackDir \cup {NoPack}
  BY <1>1 DEF RemovePack, IInv, TypeOK, Busy
<1>3. proc' = [proc EXCEPT ![p] = [proc[p] EXCEPT !.pc = "drop", !.backup = proc[p].backup]]
  BY <1>1 DEF RemovePack, Busy
<1> QED BY <1>2, <1>3, MoveOn DEF RemovePack, PC

LEMMA DropStep ==
    ASSUME IInv, NEW p \in Procs, Drop(p)
    PROVE  IInv'
<1>1. /\ Once(manifest.files) /\ Once(proc[p].snap.files)
      /\ proc[p].snap \in Manifest \cup {NoManifest}
  BY SoundProc DEF Drop, Busy, Sound, Ledger
<1>2. manifest' = manifest \/ /\ proc[p].snap.files # {}
                              /\ manifest' = [proc[p].snap EXCEPT !.files = Others(p)]
  BY DEF Drop
<1>3. CASE manifest' = manifest
  BY <1>1, <1>3, ReturnStep DEF Drop, IInv, TypeOK
<1>4. CASE /\ proc[p].snap.files # {}
           /\ manifest' = [proc[p].snap EXCEPT !.files = Others(p)]
  <2>1. proc[p].snap \in Manifest
    BY <1>1, <1>4, Records
  <2>2. manifest' \in Manifest /\ manifest'.files = Others(p)
    BY <1>4, <2>1 DEF Manifest, Others
  <2>3. Once(manifest'.files)
    BY <1>1, <2>2 DEF Others, Once
  <2> QED BY <2>2, <2>3, ReturnStep DEF Drop, IInv, TypeOK
<1> QED BY <1>2, <1>3, <1>4

---------------------------------------------------------------------------
(* garage pack publish. *)

LEMMA PublishCallStep ==
    ASSUME IInv, NEW p \in Procs, NEW k \in Packs, NEW force \in BOOLEAN,
           PublishCall(p, k, force)
    PROVE  IInv'
<1> DEFINE n == [Call(p, "publish", "confirm", k) EXCEPT !.v = pack[k].says]
<1>1. pack[k].says \in Versions
  BY DEF PublishCall, IInv, TypeOK, PackDir, NoPack
<1>2. Call(p, "publish", "confirm", k) \in Busy
  BY CallTyped DEF PC
<1>3. n \in Busy
  BY <1>1, <1>2 DEF Busy
<1>4. Phase(n) /\ Ledger(n)
  BY <1>1, Records DEF Phase, Ledger, Call, Once
<1>5. proc' = [proc EXCEPT ![p] = n]
  BY DEF PublishCall
<1>6. Once(manifest.files)
  BY DEF IInv, OneOwner, Once
<1> HIDE DEF n
<1> QED BY <1>3, <1>4, <1>5, <1>6, Advance DEF Sound, PublishCall, IInv, TypeOK

LEMMA PushStep ==
    ASSUME IInv, NEW p \in Procs, Push(p)
    PROVE  IInv'
<1>1. /\ Sound(proc[p]) /\ proc[p] \in Busy /\ Once(manifest.files)
      /\ proc[p].pc = "confirm" /\ proc[p].op = "publish"
  BY SoundProc DEF Push
<1>2. proc[p].k \in Packs /\ proc[p].v \in Versions
  BY <1>1 DEF Sound, Phase
<1>3. pack[proc[p].k].v \in Versions
  BY <1>2 DEF Push, IInv, TypeOK, PackDir, NoPack
<1>4. upstream' \in [Packs -> Versions]
  BY <1>3 DEF Push, IInv, TypeOK
<1> DEFINE n == [proc[p] EXCEPT !.pc = "source_url"]
<1>5. n \in Busy
  BY <1>1 DEF Busy, PC
<1>6. /\ n.todo = proc[p].todo /\ n.new = proc[p].new /\ n.prior = proc[p].prior
      /\ n.snap = proc[p].snap /\ n.op = proc[p].op /\ n.v = proc[p].v
      /\ n.k = proc[p].k /\ n.pc = "source_url"
  BY <1>1 DEF Busy
<1>7. proc' = [proc EXCEPT ![p] = Idle] \/ proc' = [proc EXCEPT ![p] = n]
  BY DEF Push, Return
<1> HIDE DEF n
<1>8. Phase(n) /\ Ledger(n)
  BY <1>1, <1>2, <1>6 DEF Sound, Phase, Ledger
<1>9. Sound(n)
  BY <1>5, <1>8 DEF Sound
<1>10. /\ pack' \in [Packs -> PackDir \cup {NoPack}]
       /\ file' \in [Places -> Shipped \cup {Mine, None}]
       /\ side' \in [Places -> Shipped \cup {None}]
       /\ manifest' \in Manifest \cup {NoManifest} /\ Once(manifest'.files)
  BY <1>1 DEF Push, IInv, TypeOK
<1> QED BY <1>4, <1>7, <1>9, <1>10, Advance

LEMMA WriteBackStep ==
    ASSUME IInv, NEW p \in Procs, WriteBack(p)
    PROVE  IInv'
<1>1. Sound(proc[p]) /\ Once(manifest.files)
  BY SoundProc DEF WriteBack
<1>2. proc[p].v \in Versions
  BY <1>1 DEF Sound, Phase, WriteBack
<1>3. PICK kind \in {"whole", "mismatched"} :
        pack' = [pack EXCEPT ![proc[p].k] =
                   [kind |-> kind, v |-> @.v, says |-> proc[p].v, url |-> TRUE]]
  BY DEF WriteBack, Relisted
<1>4. ASSUME NEW j \in Packs
      PROVE  pack'[j] \in PackDir \cup {NoPack}
  <2>1. pack[j] \in PackDir \cup {NoPack}
    BY DEF IInv, TypeOK
  <2>2. CASE j # proc[p].k
    BY <1>3, <2>1, <2>2 DEF IInv, TypeOK
  <2>3. CASE j = proc[p].k
    <3>1. pack[j] \in PackDir
      BY <2>1, <2>3 DEF WriteBack, NoPack
    <3>2. [kind |-> kind, v |-> pack[j].v, says |-> proc[p].v, url |-> TRUE] \in PackDir
      BY <1>2, <3>1 DEF PackDir
    <3> QED BY <1>3, <2>3, <3>2 DEF IInv, TypeOK
  <2> QED BY <2>2, <2>3
<1>5. pack' = [j \in Packs |-> pack'[j]]
  BY <1>3 DEF IInv, TypeOK
<1>6. pack' \in [Packs -> PackDir \cup {NoPack}]
  BY <1>4, <1>5
<1> QED BY <1>1, <1>6, ReturnStep DEF WriteBack, IInv, TypeOK

---------------------------------------------------------------------------
(* Kills, the repositories and the user. *)

LEMMA CrashStep ==
    ASSUME IInv, NEW p \in Procs, Crash(p)
    PROVE  IInv'
<1>1. Once(manifest.files)
  BY SoundProc DEF Crash
<1>2. pack' \in [Packs -> PackDir \cup {NoPack}]
  <2>1. CASE UNCHANGED pack
    BY <2>1 DEF IInv, TypeOK
  <2>2. CASE /\ pack[proc[p].k].kind # "absent"
             /\ pack' = [pack EXCEPT ![proc[p].k].kind = "broken"]
    <3>1. ASSUME NEW j \in Packs
          PROVE  pack'[j] \in PackDir \cup {NoPack}
      <4>1. pack[j] \in PackDir \cup {NoPack}
        BY DEF IInv, TypeOK
      <4>2. CASE j # proc[p].k
        BY <2>2, <4>1, <4>2 DEF IInv, TypeOK
      <4>3. CASE j = proc[p].k
        <5>1. pack[j] \in PackDir
          BY <2>2, <4>1, <4>3 DEF NoPack
        <5>2. [pack[j] EXCEPT !.kind = "broken"] \in PackDir
          BY <5>1 DEF PackDir
        <5> QED BY <2>2, <4>3, <5>2 DEF IInv, TypeOK
      <4> QED BY <4>2, <4>3
    <3>2. pack' = [j \in Packs |-> pack'[j]]
      BY <2>2 DEF IInv, TypeOK
    <3> QED BY <3>1, <3>2
  <2> QED BY <2>1, <2>2 DEF Crash
<1>3. manifest' \in Manifest \cup {NoManifest} /\ Once(manifest'.files)
  BY <1>1 DEF Crash, IInv, TypeOK, Manifest, NoManifest, Once
<1> QED BY <1>2, <1>3, ReturnStep DEF Crash

LEMMA OutsideStep ==
    ASSUME IInv, \/ \E k \in Packs : Release(k)
                 \/ \E d \in Places : Edit(d) \/ Delete(d)
    PROVE  IInv'
<1>1. TypeOK'
  <2>1. CASE \E k \in Packs : Release(k)
    <3>1. PICK k \in Packs : Release(k)
      BY <2>1
    <3>2. upstream[k] + 1 \in Versions
      BY <3>1, PackAssumption DEF Release, IInv, TypeOK, Versions
    <3> QED BY <3>1, <3>2 DEF Release, IInv, TypeOK
  <2>2. CASE \E d \in Places : Edit(d) \/ Delete(d)
    BY <2>2 DEF Edit, Delete, IInv, TypeOK
  <2> QED BY <2>1, <2>2
<1>2. UNCHANGED <<manifest, proc>>
  BY DEF Release, Edit, Delete
<1>3. OneOwner'
  BY <1>2 DEF IInv, OneOwner
<1>4. \A p \in Procs : proc'[p].pc # "idle" => Sound(proc'[p])
  BY <1>2 DEF IInv
<1> QED BY <1>1, <1>3, <1>4 DEF IInv, Sound, Phase, Aimed, Ledger, Once

---------------------------------------------------------------------------
(* The invariant and the theorems. *)

LEMMA InitInv == Init => IInv
<1> SUFFICES ASSUME Init PROVE IInv
  OBVIOUS
<1>1. 1 \in Versions
  BY PackAssumption DEF Versions
<1>2. \A k \in Packs : pack[k] \in PackDir \cup {NoPack}
  BY <1>1 DEF Init, PackDir, Kind
<1>3. TypeOK
  BY <1>1, <1>2 DEF Init, TypeOK
<1>4. OneOwner
  BY Records DEF Init, OneOwner
<1> QED BY <1>3, <1>4, Records DEF Init, IInv

LEMMA NextInv == IInv /\ [Next]_vars => IInv'
<1> SUFFICES ASSUME IInv, [Next]_vars PROVE IInv'
  OBVIOUS
<1>1. ASSUME NEW p \in Procs, CommandBegins(p) PROVE IInv'
  BY <1>1, InitStep, CallSteps, UninstallCallStep, PublishCallStep DEF CommandBegins
<1>2. ASSUME NEW p \in Procs, CommandStep(p) PROVE IInv'
  BY <1>2, DecideStep, WriteStep, SkipStep, MergeStep, FailingSteps, CopySteps, VerifyStep, SwapStep,
     ResyncStep, ConfirmStep, CancelStep, RemoveSteps, RemovePackStep, DropStep,
     PushStep, WriteBackStep
     DEF CommandStep
<1>3. ASSUME NEW p \in Procs, Fail(p) \/ Crash(p) PROVE IInv'
  BY <1>3, FailingSteps, CrashStep
<1>4. ASSUME \/ \E k \in Packs : Release(k)
             \/ \E d \in Places : Edit(d) \/ Delete(d)
      PROVE IInv'
  BY <1>4, OutsideStep
<1>5. CASE UNCHANGED vars
  BY <1>5 DEF vars, IInv, TypeOK, OneOwner, Sound, Phase, Aimed, Ledger, Once
<1> QED BY <1>1, <1>2, <1>3, <1>4, <1>5 DEF Next

(* Every variable keeps its type, whatever commands overlap, fail or are   *)
(* killed.                                                                 *)
THEOREM TypeCorrect == Spec => []TypeOK
<1>1. IInv => TypeOK
  BY DEF IInv
<1> QED BY <1>1, InitInv, NextInv, PTL DEF Spec

(* The manifest names one pack and one text for a file, in every order of  *)
(* init, install, update and uninstall, failures and kills included.       *)
THEOREM OwnerUnique == Spec => []OneOwner
<1>1. IInv => OneOwner
  BY DEF IInv
<1> QED BY <1>1, InitInv, NextInv, PTL DEF Spec

---------------------------------------------------------------------------
(* Who takes away a text of the user. *)

LEMMA WriteKeeps ==
    ASSUME IInv, NEW q \in Procs, Write(q)
    PROVE  proc[q].force \/ (proc[q].pc = "put" /\ proc[q].put.found # Mine)
BY Putting DEF Write

LEMMA RemoveKeeps ==
    ASSUME IInv, NEW q \in Procs, RemoveFile(q)
    PROVE  proc[q].op = "uninstall"
BY SoundProc DEF RemoveFile, Sound, Phase

LEMMA OnlyTheActor ==
    ASSUME TypeOK, NEW q \in Procs, Write(q) \/ RemoveFile(q),
           NEW p \in Procs, proc'[p] # proc[p]
    PROVE  p = q
BY DEF Write, RemoveFile, TypeOK

LEMMA FileStep ==
    ASSUME Next, file' # file, proc' # proc
    PROVE  \E q \in Procs : Write(q) \/ RemoveFile(q)
<1>1. PICK q \in Procs : CommandBegins(q) \/ CommandStep(q) \/ Fail(q) \/ Crash(q)
  BY DEF Next, Release, Edit, Delete
<1>2. ~CommandBegins(q)
  BY DEF CommandBegins, InitCall, InstallCall, UpdateCall, UninstallCall, PublishCall
<1>3. ~(Fail(q) \/ Crash(q))
  BY DEF Fail, Crash
<1>4. CommandStep(q)
  BY <1>1, <1>2, <1>3
<1> QED BY <1>4 DEF CommandStep, Decide, Skip, Stumble, Merge, Collide, CopyBegins, CopyEnds, Stamp,
        Verify, SwapOut, Resync, Confirm, Cancel, RemoveSide, RemovePack, Drop,
        Push, WriteBack

(* A text of the user goes only by the user, by --force (an update always  *)
(* forces), with the pack it replaced, or under the write of a run that    *)
(* had compared the file before the text was saved: no run writes that saw *)
(* a text of the user and was not forced.                                  *)
THEOREM EditsSurvive == Spec => EditKept
<1> DEFINE Falls(p) == \/ proc[p].force \/ proc[p].op = "uninstall"
                       \/ proc[p].pc = "put" /\ proc[p].put.found # Mine
<1>1. ASSUME IInv, Next, NEW p \in Procs, NEW d \in Places,
             proc'[p] # proc[p], file[d] = Mine, file'[d] # Mine
      PROVE  Falls(p)
  <2>1. PICK q \in Procs : Write(q) \/ RemoveFile(q)
    BY <1>1, FileStep
  <2>2. p = q
    BY <1>1, <2>1, OnlyTheActor DEF IInv
  <2>3. CASE Write(q)
    BY <1>1, <2>2, <2>3, WriteKeeps
  <2>4. CASE RemoveFile(q)
    BY <1>1, <2>2, <2>4, RemoveKeeps
  <2> QED BY <2>1, <2>3, <2>4
<1>2. IInv /\ [Next]_vars =>
        [\A p \in Procs, d \in Places :
           proc'[p] # proc[p] /\ file[d] = Mine /\ file'[d] # Mine => Falls(p)]_vars
  BY <1>1
<1> QED BY <1>2, InitInv, NextInv, PTL DEF Spec, EditKept

---------------------------------------------------------------------------
(***************************************************************************)
(* One process whose commands neither fail nor are killed, skills that can *)
(* all be installed and releases that drop none: then manifest and disk    *)
(* agree whenever the process is idle, and a skipped file is the user's.   *)
(*                                                                         *)
(* Inductive is, for every point of a command: which directories of packs  *)
(* are there, and that the one an entry's pack has, or goes back to when   *)
(* the update fails, ships the skill of the entry (Standing); and that     *)
(* whatever has been installed is in the manifest, or, while a command     *)
(* installs or removes files, is in its hands (Accounted).                 *)
(***************************************************************************)
OneProcess  == \E p : Procs = {p}
NoneDropped == \A k \in Packs, v, w \in Versions : v <= w => Ships[k][v] \subseteq Ships[k][w]

Here(k) == pack[k].kind # "absent"

Updating(p) == proc[p].pc \in {"clone", "copy", "stamp", "resync"} /\ proc[p].op = "update"

(* The directory that counts for the entries of pack k. *)
Dir(p, k) == IF Updating(p) /\ proc[p].k = k THEN proc[p].backup ELSE pack[k]

Provides(dir, k, s) == dir.kind # "absent" /\ s \in Ships[k][dir.v]

Standing(p) ==
    \A e \in manifest.files :
        \/ proc[p].pc = "drop" /\ PackOf(e) = proc[p].k
        \/ Provides(Dir(p, PackOf(e)), PackOf(e), e.place[3])

(* The entry there should be for what has been installed at d. *)
Installed(d) == [place |-> d, text |-> file[d]]

(* While files are written: a new entry, or an old one that the merge will *)
(* carry over or that a target is still to renew.                          *)
InHand(p, d) ==
    \/ Installed(d) \in proc[p].new
    \/ /\ Installed(d) \in proc[p].prior
       /\ \/ \A x \in proc[p].todo \cup proc[p].new : Zone(x.place) # Zone(d)
          \/ \E t \in proc[p].todo : t.place = d /\ t.pack = file[d][1]

OnRecord(p, d) ==
    /\ Installed(d) \in manifest.files
    /\ proc[p].pc = "remove" /\ file[d][1] = proc[p].k => \E t \in proc[p].todo : t.place = d
    /\ proc[p].pc = "drop" => file[d][1] # proc[p].k

Accounted(p) ==
    \A d \in Places : file[d] \in Shipped =>
        IF proc[p].pc \in {"write", "put"} THEN InHand(p, d) ELSE OnRecord(p, d)

Kinds(p) ==
    \A k \in Packs :
        \/ pack[k].kind \in {"absent", "whole"}
        \/ pack[k].kind = "mismatched" /\ proc[p].pc \notin {"write", "put"}
        \/ pack[k].kind = "unlisted" /\ proc[p].pc = "copy" /\ proc[p].k = k

Behind == \A k \in Packs : Here(k) => pack[k].v <= upstream[k]

(* install, update and publish. *)
Copying(p) ==
    /\ proc[p].pc = "clone" => ~Here(proc[p].k)
    /\ proc[p].pc \in {"copy", "stamp", "verify", "resync", "source_url"} => Here(proc[p].k)
    /\ proc[p].pc = "confirm" /\ proc[p].op # "uninstall" => Here(proc[p].k)
    /\ proc[p].pc \in {"clone", "copy", "stamp"} => proc[p].op \in {"install", "update"}
    /\ proc[p].pc = "verify" => proc[p].op = "install"
    /\ proc[p].pc = "resync" => proc[p].op = "update"
    /\ proc[p].pc \in {"clone", "copy"} => proc[p].v <= upstream[proc[p].k]
    /\ proc[p].pc = "confirm" /\ proc[p].op = "update" =>
          pack[proc[p].k].v <= proc[p].v /\ proc[p].v <= upstream[proc[p].k]
    /\ Updating(p) => /\ proc[p].backup.kind \in {"whole", "mismatched"}
                      /\ proc[p].v \in Versions
                      /\ proc[p].backup.v <= proc[p].v
    /\ proc[p].pc = "copy" \/ (Updating(p) /\ proc[p].pc \in {"stamp", "resync"}) =>
          pack[proc[p].k].v = proc[p].v

Removing(p) ==
    /\ proc[p].pc = "drop" => proc[p].op = "uninstall"
    /\ proc[p].pc \in {"confirm", "remove", "drop"} /\ proc[p].op = "uninstall" =>
          proc[p].snap = manifest
    /\ proc[p].pc = "confirm" /\ proc[p].op = "uninstall" =>
          \A e \in manifest.files :
              PackOf(e) = proc[p].k => \E t \in proc[p].todo : t.place = e.place

Writing(p) ==
    proc[p].pc \in {"write", "put"} =>
        /\ proc[p].prior = manifest.files
        /\ \A t \in proc[p].todo : Provides(pack[t.pack], t.pack, t.place[3])
        /\ \A e \in proc[p].new : Provides(pack[PackOf(e)], PackOf(e), e.place[3])

Tidy(p) ==
    /\ manifest.state # "torn" /\ Behind
    /\ Standing(p) /\ Accounted(p) /\ Kinds(p)
    /\ Copying(p) /\ Removing(p) /\ Writing(p)

TidyInv == IInv /\ \A p \in Procs : Tidy(p)

---------------------------------------------------------------------------
(* What the steps that are alike have in common. *)

LEMMA Facts ==
    ASSUME IInv
    PROVE  /\ pack \in [Packs -> PackDir \cup {NoPack}]
           /\ upstream \in [Packs -> Versions]
           /\ \A k \in Packs : /\ pack[k].v \in Nat
                               /\ Here(k) => pack[k] \in PackDir /\ pack[k].v \in Versions
           /\ Versions \subseteq Nat
           /\ file \in [Places -> Shipped \cup {Mine, None}]
           /\ manifest.files \in SUBSET Entry
           /\ \A e \in manifest.files : PackOf(e) \in Packs /\ e.place \in Places
           /\ proc \in [Procs -> Busy \cup {Idle}]
<1>1. TypeOK
  BY DEF IInv
<1>2. Versions \subseteq Nat
  BY DEF Versions
<1>3. \A k \in Packs : /\ pack[k].v \in Nat
                       /\ Here(k) => pack[k] \in PackDir /\ pack[k].v \in Versions
  <2> SUFFICES ASSUME NEW k \in Packs
               PROVE  /\ pack[k].v \in Nat
                      /\ Here(k) => pack[k] \in PackDir /\ pack[k].v \in Versions
    OBVIOUS
  <2>1. CASE pack[k] \in PackDir
    BY <1>2, <2>1 DEF PackDir
  <2>2. CASE pack[k] = NoPack
    BY <2>2 DEF NoPack, Here
  <2> QED BY <1>1, <2>1, <2>2 DEF TypeOK
<1>4. manifest.files \in SUBSET Entry
  BY <1>1, Records DEF TypeOK, Manifest
<1>5. \A e \in manifest.files : PackOf(e) \in Packs /\ e.place \in Places
  BY <1>4 DEF Entry, PackOf, Shipped
<1> QED BY <1>1, <1>2, <1>3, <1>4, <1>5 DEF TypeOK

(* Files and manifest stay, and no command works on them. *)
LEMMA AccountedKept ==
    ASSUME NEW p \in Procs, Accounted(p), UNCHANGED <<file, manifest>>,
           proc[p].pc \notin {"write", "put", "remove", "drop"},
           proc'[p].pc \notin {"write", "put", "remove", "drop"}
    PROVE  Accounted(p)'
BY DEF Accounted, OnRecord, Installed

(* The manifest stays, and no directory that counts goes or goes back.     *)
LEMMA StandingKept ==
    ASSUME NoneDropped, IInv, NEW p \in Procs, Standing(p), UNCHANGED manifest,
           proc[p].pc # "drop",
           \A k \in Packs : Dir(p, k).kind # "absent" =>
               /\ Dir(p, k)'.kind # "absent"
               /\ Dir(p, k).v \in Versions /\ Dir(p, k)'.v \in Versions
               /\ Dir(p, k).v <= Dir(p, k)'.v
    PROVE  Standing(p)'
<1> SUFFICES ASSUME NEW e \in manifest.files
             PROVE  Provides(Dir(p, PackOf(e)), PackOf(e), e.place[3])'
  BY DEF Standing
<1>1. Provides(Dir(p, PackOf(e)), PackOf(e), e.place[3]) /\ PackOf(e) \in Packs
  BY Facts DEF Standing
<1>2. /\ Dir(p, PackOf(e)).kind # "absent"
      /\ e.place[3] \in Ships[PackOf(e)][Dir(p, PackOf(e)).v]
  BY <1>1 DEF Provides
<1>3. /\ Dir(p, PackOf(e))'.kind # "absent"
      /\ Dir(p, PackOf(e)).v \in Versions /\ Dir(p, PackOf(e))'.v \in Versions
      /\ Dir(p, PackOf(e)).v <= Dir(p, PackOf(e))'.v
  BY <1>1, <1>2
<1>4. e.place[3] \in Ships[PackOf(e)][Dir(p, PackOf(e))'.v]
  BY <1>1, <1>2, <1>3 DEF NoneDropped
<1> QED BY <1>3, <1>4 DEF Provides, PackOf


LEMMA StandingStays ==
    ASSUME NEW p \in Procs, Standing(p), UNCHANGED <<pack, manifest>>,
           ~Updating(p), ~Updating(p)', proc[p].pc # "drop"
    PROVE  Standing(p)'
BY DEF Standing, Dir, Provides, PackOf

(* A command ends, and leaves everything but the repositories as it is.    *)
LEMMA TidyReturn ==
    ASSUME TidyInv, NEW p \in Procs, Return(p), Behind',
           proc[p].pc \notin {"write", "put", "remove", "drop", "copy"}, ~Updating(p),
           UNCHANGED <<pack, file, manifest>>
    PROVE  Tidy(p)'
<1>1. proc'[p].pc = "idle"
  BY Records DEF Return, TidyInv, IInv, TypeOK
<1>2. Tidy(p)
  BY DEF TidyInv
<1>3. ~Updating(p)'
  BY <1>1 DEF Updating
<1>4. Standing(p)'
  BY <1>2, <1>3, StandingStays DEF Tidy
<1>5. Accounted(p)'
  BY <1>1, <1>2, AccountedKept DEF Tidy
<1>6. Kinds(p)'
  BY <1>1, <1>2 DEF Tidy, Kinds
<1>7. Copying(p)' /\ Removing(p)' /\ Writing(p)'
  BY <1>1, <1>3 DEF Copying, Removing, Writing
<1> QED BY <1>2, <1>4, <1>5, <1>6, <1>7 DEF Tidy

---------------------------------------------------------------------------
(* Releases and the user. *)

LEMMA TidyOutside ==
    ASSUME TidyInv, NEW p \in Procs,
           \/ \E k \in Packs : Release(k)
           \/ \E d \in Places : Edit(d) \/ Delete(d)
    PROVE  Tidy(p)'
<1>1. Tidy(p) /\ IInv /\ UNCHANGED <<pack, manifest, proc>>
  BY DEF TidyInv, Release, Edit, Delete
<1>2. \A k \in Packs : upstream[k] <= upstream'[k] /\ upstream'[k] \in Nat
  <2>1. \A k \in Packs : upstream[k] \in Nat
    BY <1>1 DEF IInv, TypeOK, Versions
  <2> QED BY <1>1, <2>1 DEF Release, Edit, Delete, IInv, TypeOK
<1>3. Behind'
  BY <1>1, <1>2, Facts DEF Tidy, Behind, Here
<1>4. Standing(p)' /\ Kinds(p)'
  BY <1>1 DEF Tidy, Standing, Kinds, Provides, Dir, Updating, PackOf
<1>5. \A d \in Places : file'[d] \in Shipped => file'[d] = file[d]
  BY <1>1, PackAssumption, Facts DEF Release, Edit, Delete
<1>6. Accounted(p)'
  <2> SUFFICES ASSUME NEW d \in Places, file'[d] \in Shipped
               PROVE  (IF proc[p].pc \in {"write", "put"} THEN InHand(p, d)
                       ELSE OnRecord(p, d))'
    BY DEF Accounted
  <2>1. file'[d] = file[d]
    BY <1>5
  <2>2. IF proc[p].pc \in {"write", "put"} THEN InHand(p, d) ELSE OnRecord(p, d)
    BY <1>1, <2>1 DEF Tidy, Accounted
  <2> QED BY <1>1, <2>1, <2>2 DEF InHand, OnRecord, Installed
<1>7. Copying(p)'
  <2>1. proc[p].pc \in {"clone", "copy"} => proc[p].v <= upstream'[proc[p].k]
    <3> SUFFICES ASSUME proc[p].pc \in {"clone", "copy"}
                 PROVE  proc[p].v <= upstream'[proc[p].k]
      OBVIOUS
    <3>1. Sound(proc[p])
      BY <1>1, SoundProc
    <3>2. proc[p].k \in Packs /\ proc[p].v \in Versions
      BY <1>1, <3>1 DEF Sound, Phase, Tidy, Copying
    <3>3. proc[p].v <= upstream[proc[p].k]
      BY <1>1 DEF Tidy, Copying
    <3> QED BY <1>1, <1>2, <3>2, <3>3, Facts
  <2>2. proc[p].pc = "confirm" /\ proc[p].op = "update" => proc[p].v <= upstream'[proc[p].k]
    <3> SUFFICES ASSUME proc[p].pc = "confirm", proc[p].op = "update"
                 PROVE  proc[p].v <= upstream'[proc[p].k]
      OBVIOUS
    <3>1. Sound(proc[p])
      BY <1>1, SoundProc
    <3>2. proc[p].k \in Packs /\ proc[p].v \in Versions
      BY <1>1, <3>1 DEF Sound, Phase, Tidy, Copying
    <3>3. proc[p].v <= upstream[proc[p].k]
      BY <1>1 DEF Tidy, Copying
    <3> QED BY <1>1, <1>2, <3>2, <3>3, Facts
  <2> QED BY <1>1, <2>1, <2>2 DEF Tidy, Copying, Here, Updating
<1>8. Removing(p)' /\ Writing(p)'
  BY <1>1 DEF Tidy, Removing, Writing, Provides, PackOf
<1> QED BY <1>1, <1>3, <1>4, <1>6, <1>7, <1>8 DEF Tidy


---------------------------------------------------------------------------
(* install_packs begins, for init or at the end of an update. *)

LEMMA TargetsProvided ==
    ASSUME NEW want, NEW t \in Targets(want)
    PROVE  Provides(pack[t.pack], t.pack, t.place[3])
BY DEF Targets, Discovered, Provides

(* The targets visit whatever is installed at the scope of a host.         *)
LEMMA TargetsCover ==
    ASSUME IInv, Loadable, \A k \in Packs : pack[k].kind \in {"absent", "whole", "mismatched"},
           NEW want, NEW e \in manifest.files, Provides(pack[PackOf(e)], PackOf(e), e.place[3]),
           NEW x \in Targets(want), Zone(x.place) = Zone(e.place)
    PROVE  [pack |-> PackOf(e), place |-> e.place] \in Targets(want)
<1>1. PackOf(e) \in Packs /\ e.place \in Places
  BY Facts
<1>2. PackOf(e) \in Discovered
  BY <1>1 DEF Discovered, Provides, Loadable
<1>3. PICK h, s : h \in DOMAIN want /\ x.place = <<h, want[h], s>>
  BY DEF Targets
<1>4. e.place[1] = h /\ e.place[2] = want[h]
  BY <1>3 DEF Zone
<1>5. e.place = <<h, want[h], e.place[3]>>
  BY <1>1, <1>4 DEF Places
<1>6. e.place[3] \in Ships[PackOf(e)][pack[PackOf(e)].v]
  BY DEF Provides
<1> DEFINE Of(k) == {[pack |-> k, place |-> <<g, want[g], sk>>] :
                       g \in DOMAIN want, sk \in Ships[k][pack[k].v]}
<1>7. [pack |-> PackOf(e), place |-> <<h, want[h], e.place[3]>>] \in Of(PackOf(e))
  BY <1>3, <1>6
<1>8. Targets(want) = UNION {Of(k) : k \in Discovered}
  BY DEF Targets
<1> HIDE DEF Of
<1> QED BY <1>2, <1>5, <1>7, <1>8

LEMMA TidyWriting ==
    ASSUME TidyInv, NEW p \in Procs, proc[p].pc \notin {"write", "put", "remove", "drop", "copy"},
           Loadable, NEW want,
           proc'[p].pc = "write", proc'[p].prior = manifest.files, proc'[p].new = {},
           proc'[p].todo = Targets(want),
           \A e \in manifest.files : Provides(pack[PackOf(e)], PackOf(e), e.place[3]),
           UNCHANGED <<upstream, pack, file, manifest>>
    PROVE  Tidy(p)'
<1>1. Tidy(p) /\ IInv
  BY DEF TidyInv
<1>2. \A k \in Packs : pack[k].kind \in {"absent", "whole"}
  BY <1>1 DEF Tidy, Kinds, Loadable
<1>3. Standing(p)'
  BY DEF Standing, Dir, Updating, Provides, PackOf
<1>4. Accounted(p)'
  <2> SUFFICES ASSUME NEW d \in Places, file[d] \in Shipped
               PROVE  InHand(p, d)'
    BY DEF Accounted
  <2>1. Installed(d) \in manifest.files
    BY <1>1 DEF Tidy, Accounted, OnRecord
  <2>2. (Installed(d) \in proc[p].prior)'
    BY <2>1 DEF Installed
  <2>3. CASE \A x \in Targets(want) : Zone(x.place) # Zone(d)
    <3>1. \A x \in proc'[p].todo \cup proc'[p].new : Zone(x.place) # Zone(d)
      BY <2>3
    <3> QED BY <2>2, <3>1 DEF InHand, Zone
  <2>4. ASSUME NEW x \in Targets(want), Zone(x.place) = Zone(d)
        PROVE  InHand(p, d)'
    <3> DEFINE e == Installed(d)
    <3>1. e.place = d /\ PackOf(e) = file[d][1]
      BY DEF Installed, PackOf
    <3>2. Provides(pack[PackOf(e)], PackOf(e), e.place[3])
      BY <2>1
    <3>3. [pack |-> PackOf(e), place |-> e.place] \in Targets(want)
      <4> HIDE DEF e
      <4>1. e \in manifest.files
        BY <2>1 DEF e
      <4> QED BY <1>1, <1>2, <2>4, <3>1, <3>2, <4>1, TargetsCover
    <3>4. [pack |-> file[d][1], place |-> d] \in proc'[p].todo
      BY <3>1, <3>3
    <3>5. \E t \in proc'[p].todo : t.place = d /\ t.pack = file'[d][1]
      BY <3>4
    <3> QED BY <2>2, <3>5 DEF InHand
  <2> QED BY <2>3, <2>4
<1>5. Kinds(p)'
  BY <1>2 DEF Kinds
<1>6. Copying(p)' /\ Removing(p)'
  BY DEF Copying, Removing, Updating
<1>7. Writing(p)'
  BY TargetsProvided DEF Writing, Provides
<1>8. (manifest.state # "torn" /\ Behind)'
  BY <1>1 DEF Tidy, Behind, Here
<1> QED BY <1>3, <1>4, <1>5, <1>6, <1>7, <1>8 DEF Tidy

LEMMA TidyInit ==
    ASSUME TidyInv, NEW p \in Procs, NEW want \in Requests, NEW force \in BOOLEAN,
           InitCall(p, want, force)
    PROVE  Tidy(p)'
<1> DEFINE n == [Call(p, "init", "write", None) EXCEPT
                   !.hosts = DOMAIN want, !.force = force,
                   !.todo = Targets(want), !.prior = manifest.files]
<1>1. /\ n.pc = "write" /\ n.prior = manifest.files /\ n.new = {}
      /\ n.todo = Targets(want)
  BY DEF Call
<1>2. proc' = [proc EXCEPT ![p] = n]
  BY DEF InitCall
<1> HIDE DEF n
<1>3. proc'[p] = n
  BY <1>2 DEF TidyInv, IInv, TypeOK
<1>4. \A e \in manifest.files : Provides(pack[PackOf(e)], PackOf(e), e.place[3])
  BY DEF InitCall, TidyInv, Tidy, Standing, Dir, Updating
<1> QED BY <1>1, <1>3, <1>4, TidyWriting DEF InitCall

---------------------------------------------------------------------------
(* The other commands begin. *)

LEMMA TidyCalls ==
    ASSUME TidyInv, NEW p \in Procs, NEW k \in Packs,
           \/ InstallCall(p, k) \/ UpdateCall(p, k) \/ UninstallCall(p, k)
           \/ \E force \in BOOLEAN : PublishCall(p, k, force)
    PROVE  Tidy(p)'
<1>1. Tidy(p) /\ IInv /\ proc[p].pc = "idle"
  BY DEF TidyInv, InstallCall, UpdateCall, UninstallCall, PublishCall
<1>2. UNCHANGED <<upstream, pack, file, manifest>>
  BY DEF InstallCall, UpdateCall, UninstallCall, PublishCall
<1>3. /\ proc \in [Procs -> Busy \cup {Idle}]
      /\ Here(k) => pack[k].v \in Versions
      /\ upstream[k] \in Versions /\ Versions \subseteq Nat
  BY <1>1, Facts
<1>4. ASSUME NEW pc \in {"clone", "confirm"}, proc'[p].pc = pc, ~Updating(p)',
             Copying(p)', Removing(p)'
      PROVE  Tidy(p)'
  <2>1. ~Updating(p)
    BY <1>1 DEF Updating
  <2>2. Standing(p)'
    BY <1>1, <1>2, <1>4, <2>1, StandingStays DEF Tidy
  <2>3. Accounted(p)'
    BY <1>1, <1>2, <1>4, AccountedKept DEF Tidy
  <2>4. Kinds(p)' /\ Writing(p)'
    BY <1>1, <1>2, <1>4 DEF Tidy, Kinds, Writing
  <2>5. (manifest.state # "torn" /\ Behind)'
    BY <1>1, <1>2 DEF Tidy, Behind, Here
  <2> QED BY <1>4, <2>2, <2>3, <2>4, <2>5 DEF Tidy
<1>5. CASE InstallCall(p, k)
  <2> DEFINE n == [Call(p, "install", "clone", k) EXCEPT !.v = upstream[k]]
  <2>1. n.pc = "clone" /\ n.op = "install" /\ n.k = k /\ n.v = upstream[k]
    BY DEF Call
  <2>2. proc' = [proc EXCEPT ![p] = n]
    BY <1>5 DEF InstallCall
  <2> HIDE DEF n
  <2>3. proc'[p] = n
    BY <1>3, <2>2
  <2>4. ~Updating(p)' /\ Removing(p)'
    BY <2>1, <2>3 DEF Updating, Removing
  <2>5. ~Here(k)' /\ upstream[k] <= upstream'[k]
    BY <1>2, <1>3, <1>5 DEF Here, InstallCall
  <2>6. /\ proc'[p].pc = "clone" /\ proc'[p].op = "install"
        /\ proc'[p].k = k /\ proc'[p].v = upstream[k]
    BY <2>1, <2>3
  <2>7. ~Here(proc[p].k)' /\ proc'[p].v <= upstream'[proc'[p].k]
    BY <2>5, <2>6 DEF Here
  <2>8. Copying(p)'
    BY <2>4, <2>6, <2>7 DEF Copying
  <2> QED BY <1>4, <2>1, <2>3, <2>4, <2>8
<1>6. CASE UpdateCall(p, k)
  <2> DEFINE n == [Call(p, "update", "confirm", k) EXCEPT !.v = upstream[k], !.force = TRUE]
  <2>1. n.pc = "confirm" /\ n.op = "update" /\ n.k = k /\ n.v = upstream[k]
    BY DEF Call
  <2>2. proc' = [proc EXCEPT ![p] = n]
    BY <1>6 DEF UpdateCall
  <2> HIDE DEF n
  <2>3. proc'[p] = n
    BY <1>3, <2>2
  <2>4. ~Updating(p)' /\ Removing(p)'
    BY <2>1, <2>3 DEF Updating, Removing
  <2>5. Here(k) /\ pack[k].v <= upstream[k]
    BY <1>1, <1>6 DEF UpdateCall, Here, Tidy, Behind
  <2>6. Here(k)' /\ pack'[k].v <= upstream[k] /\ upstream[k] <= upstream'[k]
    <3>1. pack' = pack /\ upstream' = upstream
      BY <1>2
    <3>2. upstream[k] <= upstream[k]
      <4>1. upstream[k] \in Nat
        BY <1>3
      <4> QED BY <4>1
    <3> QED BY <2>5, <3>1, <3>2 DEF Here
  <2>7. /\ proc'[p].pc = "confirm" /\ proc'[p].op = "update"
        /\ proc'[p].k = k /\ proc'[p].v = upstream[k]
    BY <2>1, <2>3
  <2>8. /\ Here(proc[p].k)' /\ pack'[proc'[p].k].v <= proc'[p].v
        /\ proc'[p].v <= upstream'[proc'[p].k]
    BY <2>6, <2>7 DEF Here
  <2>9. Copying(p)'
    BY <2>4, <2>7, <2>8 DEF Copying
  <2> QED BY <1>4, <2>1, <2>3, <2>4, <2>9
<1>7. CASE UninstallCall(p, k)
  <2> DEFINE places == {e.place : e \in {f \in manifest.files : PackOf(f) = k}}
             n == [Call(p, "uninstall", "confirm", k) EXCEPT
                   !.todo = {[pack |-> k, place |-> d] : d \in places},
                   !.sides = {d \in places : side[d] # None},
                   !.snap = manifest]
  <2>1. /\ n.pc = "confirm" /\ n.op = "uninstall" /\ n.k = k /\ n.snap = manifest
        /\ n.todo = {[pack |-> k, place |-> d] : d \in places}
    BY DEF Call
  <2>2. proc' = [proc EXCEPT ![p] = n]
    BY <1>7 DEF UninstallCall
  <2>3. \A e \in manifest.files : PackOf(e) = k => \E t \in n.todo : t.place = e.place
    <3> SUFFICES ASSUME NEW e \in manifest.files, PackOf(e) = k
                 PROVE  \E t \in n.todo : t.place = e.place
      OBVIOUS
    <3>1. [pack |-> k, place |-> e.place] \in n.todo
      BY <2>1
    <3> HIDE DEF n
    <3> QED BY <3>1
  <2> HIDE DEF n, places
  <2>4. proc'[p] = n
    BY <1>3, <2>2
  <2>5. ~Updating(p)' /\ Copying(p)'
    BY <2>1, <2>4 DEF Updating, Copying
  <2>6. Removing(p)'
    BY <1>2, <2>1, <2>3, <2>4 DEF Removing, PackOf
  <2> QED BY <1>4, <2>1, <2>4, <2>5, <2>6
<1>8. ASSUME NEW force \in BOOLEAN, PublishCall(p, k, force)
      PROVE  Tidy(p)'
  <2> DEFINE n == [Call(p, "publish", "confirm", k) EXCEPT !.v = pack[k].says]
  <2>1. n.pc = "confirm" /\ n.op = "publish" /\ n.k = k
    BY DEF Call
  <2>2. proc' = [proc EXCEPT ![p] = n]
    BY <1>8 DEF PublishCall
  <2> HIDE DEF n
  <2>3. proc'[p] = n
    BY <1>3, <2>2
  <2>4. ~Updating(p)' /\ Removing(p)'
    BY <2>1, <2>3 DEF Updating, Removing
  <2>5. Copying(p)'
    BY <1>2, <1>8, <2>1, <2>3 DEF Copying, Updating, Here, PublishCall
  <2> QED BY <1>4, <2>1, <2>3, <2>4, <2>5
<1> QED BY <1>5, <1>6, <1>7, <1>8


---------------------------------------------------------------------------
(* Files are written, or skipped, and the manifest is merged. *)

LEMMA Skipped ==
    ASSUME TidyInv, NEW p \in Procs, proc[p].pc = "write", NEW t \in proc[p].todo,
           ~Overwrites(p, t)
    PROVE  file[t.place] = Mine
<1>1. IInv /\ Tidy(p) /\ Sound(proc[p]) /\ proc[p] \in Busy
  BY SoundProc DEF TidyInv
<1>2. t.place \in Places /\ t.pack \in Packs
  BY <1>1 DEF Busy, Target
<1>3. file[t.place] \in Shipped \cup {Mine, None} /\ file[t.place] # None
  BY <1>1, <1>2, Facts DEF Overwrites
<1>4. file[t.place] \notin Shipped
  <2> SUFFICES ASSUME file[t.place] \in Shipped PROVE FALSE
    OBVIOUS
  <2> DEFINE e == Installed(t.place)
  <2>1. e.place = t.place /\ e.text = file[t.place] /\ PackOf(e) = file[t.place][1]
    BY DEF Installed, PackOf
  <2>2. InHand(p, t.place)
    BY <1>1, <1>2 DEF Tidy, Accounted
  <2>3. Ledger(proc[p])
    BY <1>1 DEF Sound
  <2>4. e \notin proc[p].new
    BY <2>1, <2>3 DEF Ledger
  <2>5. /\ e \in proc[p].prior
        /\ \E u \in proc[p].todo : u.place = t.place /\ u.pack = file[t.place][1]
    BY <2>2, <2>4 DEF InHand
  <2>6. t.pack = file[t.place][1]
    BY <2>3, <2>5 DEF Ledger, Once
  <2>7. e \in Priors(p, t)
    BY <2>1, <2>5, <2>6 DEF Priors
  <2> QED BY <2>1, <2>7 DEF Overwrites
<1> QED BY <1>3, <1>4

(* A target is dealt with: E are the entries it leaves. *)
LEMMA TidyTarget ==
    ASSUME TidyInv, NEW p \in Procs, proc[p].pc \in {"write", "put"},
           NEW t \in proc[p].todo,
           NEW E, \A e \in E : e.place = t.place /\ PackOf(e) = t.pack,
           NEW n, proc'[p] = n, n.pc = "write", n.prior = proc[p].prior,
           n.todo = proc[p].todo \ {t}, n.new = proc[p].new \cup E,
           UNCHANGED <<upstream, pack, manifest>>,
           \A d \in Places : d # t.place => file'[d] = file[d],
           file'[t.place] \in Shipped => Installed(t.place)' \in E
    PROVE  Tidy(p)'
<1>1. IInv /\ Tidy(p) /\ proc[p] \in Busy
  BY SoundProc DEF TidyInv
<1>3. /\ n.pc = "write" /\ n.todo = proc[p].todo \ {t} /\ n.new = proc[p].new \cup E
      /\ n.prior = proc[p].prior
  OBVIOUS
<1>4. proc'[p] = n
  OBVIOUS
<1>5. ~Updating(p) /\ ~Updating(p)'
  BY <1>3, <1>4 DEF Updating
<1>6. Standing(p)'
  BY <1>1, <1>5, StandingStays DEF Tidy
<1>7. Accounted(p)'
  <2> SUFFICES ASSUME NEW d \in Places, file'[d] \in Shipped
               PROVE  InHand(p, d)'
    BY <1>3, <1>4 DEF Accounted
  <2>1. CASE d = t.place
    <3>1. Installed(d)' \in n.new
      BY <1>3, <2>1
    <3> QED BY <1>4, <3>1 DEF InHand
  <2>2. CASE d # t.place
    <3>1. file'[d] = file[d] /\ Installed(d)' = Installed(d)
      BY <2>2 DEF Installed
    <3>2. InHand(p, d)
      BY <1>1, <3>1 DEF Tidy, Accounted
    <3>3. CASE Installed(d) \in proc[p].new
      BY <1>3, <1>4, <3>1, <3>3 DEF InHand
    <3>4. CASE /\ Installed(d) \in proc[p].prior
               /\ \A x \in proc[p].todo \cup proc[p].new : Zone(x.place) # Zone(d)
      <4>1. \A x \in n.todo \cup n.new : Zone(x.place) # Zone(d)
        BY <1>3, <3>4
      <4> QED BY <1>3, <1>4, <3>1, <3>4, <4>1 DEF InHand, Zone
    <3>5. CASE /\ Installed(d) \in proc[p].prior
               /\ \E u \in proc[p].todo : u.place = d /\ u.pack = file[d][1]
      <4>1. \E u \in n.todo : u.place = d /\ u.pack = file[d][1]
        BY <1>3, <2>2, <3>5
      <4> QED BY <1>3, <1>4, <3>1, <3>5, <4>1 DEF InHand
    <3> QED BY <3>2, <3>3, <3>4, <3>5 DEF InHand
  <2> QED BY <2>1, <2>2
<1>8. Kinds(p)'
  BY <1>1, <1>3, <1>4 DEF Tidy, Kinds
<1>9. Copying(p)' /\ Removing(p)'
  BY <1>3, <1>4, <1>5 DEF Copying, Removing
<1>10. Writing(p)'
  <2>1. Writing(p)
    BY <1>1 DEF Tidy
  <2>2. \A e \in E : Provides(pack[PackOf(e)], PackOf(e), e.place[3])
    BY <2>1 DEF Writing
  <2> QED BY <1>3, <1>4, <2>1, <2>2 DEF Writing, Provides, PackOf
<1>11. (manifest.state # "torn" /\ Behind)'
  BY <1>1 DEF Tidy, Behind, Here
<1> QED BY <1>6, <1>7, <1>8, <1>9, <1>10, <1>11 DEF Tidy

(* A file is compared; nothing but the place of the command changes.       *)
LEMMA TidyDecide ==
    ASSUME TidyInv, NEW p \in Procs, Decide(p)
    PROVE  Tidy(p)'
<1>1. /\ IInv /\ Tidy(p) /\ proc[p] \in Busy /\ proc[p].pc = "write"
      /\ UNCHANGED <<upstream, pack, file, manifest>>
  BY SoundProc DEF TidyInv, Decide
<1>2. PICK u : proc' = [proc EXCEPT ![p].pc = "put", ![p].put = u]
  BY DEF Decide
<1>3. /\ proc'[p].pc = "put" /\ proc'[p].todo = proc[p].todo
      /\ proc'[p].new = proc[p].new /\ proc'[p].prior = proc[p].prior
  BY <1>1, <1>2 DEF Busy, IInv, TypeOK
<1>4. ~Updating(p) /\ ~Updating(p)'
  BY <1>1, <1>3 DEF Updating
<1>5. Standing(p)'
  BY <1>1, <1>4, StandingStays DEF Tidy
<1>6. Accounted(p)'
  <2> SUFFICES ASSUME NEW d \in Places, file[d] \in Shipped
               PROVE  InHand(p, d)'
    BY <1>1, <1>3 DEF Accounted
  <2>1. InHand(p, d)
    BY <1>1 DEF Tidy, Accounted
  <2> QED BY <1>1, <1>3, <2>1 DEF InHand, Installed
<1>7. Kinds(p)'
  BY <1>1, <1>3 DEF Tidy, Kinds
<1>8. Copying(p)' /\ Removing(p)'
  BY <1>3, <1>4 DEF Copying, Removing
<1>9. Writing(p)'
  BY <1>1, <1>3 DEF Tidy, Writing, Provides, PackOf
<1>10. (manifest.state # "torn" /\ Behind)'
  BY <1>1 DEF Tidy, Behind, Here
<1> QED BY <1>5, <1>6, <1>7, <1>8, <1>9, <1>10 DEF Tidy

LEMMA TidyWrite ==
    ASSUME TidyInv, NEW p \in Procs, Write(p)
    PROVE  Tidy(p)'
<1>0. PICK t, text : t = proc[p].put.target /\ text = proc[p].put.text
  OBVIOUS
<1> DEFINE E == {[place |-> t.place, text |-> text]}
           n == [proc[p] EXCEPT !.pc = "write", !.put = None, !.todo = @ \ {t},
                                !.new = @ \cup E]
<1>1. /\ proc[p].pc = "put" /\ IInv /\ UNCHANGED <<upstream, pack, manifest>>
      /\ file' = [file EXCEPT ![t.place] = text]
      /\ proc' = [proc EXCEPT ![p] = n]
  BY <1>0 DEF Write, TidyInv
<1>2. /\ proc[p] \in Busy /\ t \in proc[p].todo /\ t \in Target
      /\ t.place \in Places /\ text[1] = t.pack
  BY <1>0, <1>1, Putting DEF Target
<1>3. \A e \in E : e.place = t.place /\ PackOf(e) = t.pack
  BY <1>2 DEF PackOf
<1>4. /\ file'[t.place] = text
      /\ \A d \in Places : d # t.place => file'[d] = file[d]
  BY <1>1, <1>2, Facts
<1>5. Installed(t.place)' \in E
  BY <1>4 DEF Installed
<1>6. proc'[p] = n
  BY <1>1 DEF IInv, TypeOK
<1> HIDE DEF E
<1>7. /\ n.pc = "write" /\ n.todo = proc[p].todo \ {t} /\ n.new = proc[p].new \cup E
      /\ n.prior = proc[p].prior
  BY <1>2 DEF Busy
<1> HIDE DEF n
<1> QED BY <1>1, <1>2, <1>3, <1>4, <1>5, <1>6, <1>7, TidyTarget

LEMMA TidySkip ==
    ASSUME TidyInv, NEW p \in Procs, Skip(p)
    PROVE  Tidy(p)'
<1>1. PICK t \in proc[p].todo :
        /\ ~Overwrites(p, t)
        /\ proc' = [proc EXCEPT ![p].todo = @ \ {t}, ![p].new = @ \cup Priors(p, t)]
  BY DEF Skip
<1>2. /\ proc[p].pc = "write" /\ IInv /\ proc[p] \in Busy
      /\ UNCHANGED <<upstream, pack, file, manifest>>
  BY SoundProc DEF Skip, TidyInv
<1>3. file[t.place] = Mine
  BY <1>1, <1>2, Skipped
<1>4. \A e \in Priors(p, t) : e.place = t.place /\ PackOf(e) = t.pack
  BY DEF Priors
<1>5. file'[t.place] \notin Shipped
  BY <1>2, <1>3, PackAssumption
<1> DEFINE n == [proc[p] EXCEPT !.todo = @ \ {t}, !.new = @ \cup Priors(p, t)]
<1>6. proc'[p] = n
  BY <1>1, <1>2 DEF IInv, TypeOK
<1>7. /\ n.pc = "write" /\ n.prior = proc[p].prior /\ n.todo = proc[p].todo \ {t}
      /\ n.new = proc[p].new \cup Priors(p, t)
  BY <1>2 DEF Busy
<1> HIDE DEF n
<1> QED BY <1>1, <1>2, <1>4, <1>5, <1>6, <1>7, TidyTarget

LEMMA NoStumble ==
    ASSUME TidyInv, NEW p \in Procs, Malformed = {}
    PROVE  ~Stumble(p)
BY DEF Stumble, Renders, HasSkill, TidyInv, Tidy, Writing, Provides

LEMMA NoCollision ==
    ASSUME TidyInv, NEW p \in Procs
    PROVE  ~Collide(p)
BY DEF Collide, TidyInv, Tidy, Copying, Here

LEMMA TidyMerge ==
    ASSUME TidyInv, NEW p \in Procs, Merge(p)
    PROVE  Tidy(p)'
<1>1. IInv /\ Tidy(p) /\ proc[p] \in Busy /\ proc[p].pc = "write" /\ proc[p].todo = {}
  BY SoundProc DEF TidyInv, Merge
<1>2. proc'[p].pc = "idle"
  BY Records, <1>1 DEF Merge, Return, IInv, TypeOK
<1>3. /\ manifest'.files = proc[p].new \cup Carried(proc[p].new)
      /\ manifest'.state = "whole"
      /\ UNCHANGED <<upstream, pack, file>>
  BY DEF Merge
<1>4. ~Updating(p) /\ ~Updating(p)'
  BY <1>1, <1>2 DEF Updating
<1>5. Standing(p)'
  <2> SUFFICES ASSUME NEW e \in manifest'.files
               PROVE  Provides(pack[PackOf(e)], PackOf(e), e.place[3])
    BY <1>3, <1>4 DEF Standing, Dir, Provides, PackOf
  <2>1. CASE e \in proc[p].new
    BY <1>1, <2>1 DEF Tidy, Writing
  <2>2. CASE e \in manifest.files
    BY <1>1, <1>4, <2>2 DEF Tidy, Standing, Dir
  <2> QED BY <1>3, <2>1, <2>2 DEF Carried
<1>6. Accounted(p)'
  <2> SUFFICES ASSUME NEW d \in Places, file[d] \in Shipped
               PROVE  Installed(d) \in manifest'.files
    BY <1>2, <1>3 DEF Accounted, OnRecord, Installed
  <2>1. InHand(p, d)
    BY <1>1 DEF Tidy, Accounted
  <2>2. CASE Installed(d) \in proc[p].new
    BY <1>3, <2>2
  <2>3. CASE /\ Installed(d) \in proc[p].prior
             /\ \A x \in proc[p].new : Zone(x.place) # Zone(d)
    <3>1. Installed(d) \in manifest.files /\ Installed(d).place = d
      BY <1>1, <2>3 DEF Tidy, Writing, Installed
    <3>2. Installed(d) \in Carried(proc[p].new)
      BY <2>3, <3>1 DEF Carried
    <3> QED BY <1>3, <3>2
  <2> QED BY <1>1, <2>1, <2>2, <2>3 DEF InHand
<1>7. Kinds(p)'
  BY <1>1, <1>2, <1>3 DEF Tidy, Kinds
<1>8. Copying(p)' /\ Removing(p)' /\ Writing(p)'
  BY <1>2, <1>4 DEF Copying, Removing, Writing
<1>9. (manifest.state # "torn" /\ Behind)'
  BY <1>1, <1>3 DEF Tidy, Behind, Here
<1> QED BY <1>5, <1>6, <1>7, <1>8, <1>9 DEF Tidy


---------------------------------------------------------------------------
(* A pack is copied, and its copies are renewed. *)

LEMMA PcStep ==
    ASSUME TidyInv, NEW p \in Procs, proc[p].pc # "idle", NEW pc,
           proc' = [proc EXCEPT ![p].pc = pc]
    PROVE  /\ proc'[p].pc = pc /\ proc'[p].op = proc[p].op /\ proc'[p].k = proc[p].k
           /\ proc'[p].v = proc[p].v /\ proc'[p].backup = proc[p].backup
           /\ proc'[p].snap = proc[p].snap /\ proc'[p].todo = proc[p].todo
<1>1. proc[p] \in Busy
  BY SoundProc DEF TidyInv
<1>2. proc'[p] = [proc[p] EXCEPT !.pc = pc]
  BY DEF TidyInv, IInv, TypeOK
<1> QED BY <1>1, <1>2 DEF Busy

(* The command at hand. *)
LEMMA CopyFacts ==
    ASSUME TidyInv, NEW p \in Procs, proc[p].pc \notin {"idle", "write", "put"}
    PROVE  /\ proc[p].op # "init" => proc[p].k \in Packs
           /\ proc[p].pc \in {"clone", "copy"} => proc[p].v \in Versions
           /\ proc[p].pc = "confirm" /\ proc[p].op = "update" => proc[p].v \in Versions
           /\ Updating(p) => proc[p].backup \in PackDir /\ proc[p].backup.v \in Versions
<1>1. Sound(proc[p]) /\ proc[p] \in Busy /\ Tidy(p)
  BY SoundProc DEF TidyInv
<1>2. Phase(proc[p]) /\ proc[p].backup \in PackDir \cup {NoPack}
  BY <1>1 DEF Sound, Busy
<1>3. Updating(p) => proc[p].backup \in PackDir
  BY <1>1, <1>2 DEF Tidy, Copying, NoPack
<1>4. Updating(p) => proc[p].backup.v \in Versions
  BY <1>3 DEF PackDir
<1> QED BY <1>2, <1>3, <1>4 DEF Phase

LEMMA TidyCopyBegins ==
    ASSUME NoneDropped, TidyInv, NEW p \in Procs, CopyBegins(p)
    PROVE  Tidy(p)'
<1>1. Tidy(p) /\ IInv /\ proc[p].pc = "clone" /\ UNCHANGED <<upstream, file, manifest>>
  BY DEF TidyInv, CopyBegins
<1> DEFINE k == proc[p].k
<1>2. /\ k \in Packs /\ proc[p].v \in Versions /\ ~Here(k)
      /\ proc[p].op \in {"install", "update"} /\ proc[p].v <= upstream[k]
      /\ Updating(p) => proc[p].backup \in PackDir /\ proc[p].backup.v \in Versions
  BY <1>1, CopyFacts DEF Tidy, Copying
<1>3. PICK kind \in {"unlisted", "mismatched"} :
        pack' = [pack EXCEPT ![k] =
                   [kind |-> kind, v |-> proc[p].v, says |-> proc[p].v, url |-> FALSE]]
  BY DEF CopyBegins
<1>4. /\ proc'[p].pc = "copy" /\ proc'[p].op = proc[p].op /\ proc'[p].k = k
      /\ proc'[p].v = proc[p].v /\ proc'[p].backup = proc[p].backup
  BY <1>1, PcStep DEF CopyBegins
<1>5. /\ pack'[k].kind = kind /\ pack'[k].v = proc[p].v
      /\ \A j \in Packs : j # k => pack'[j] = pack[j]
  BY <1>1, <1>2, <1>3, Facts
<1> HIDE DEF k
<1>6. Updating(p)' <=> Updating(p)
  BY <1>1, <1>4 DEF Updating
<1>7. Standing(p)'
  <2>1. ASSUME NEW j \in Packs, Dir(p, j).kind # "absent"
        PROVE  Dir(p, j)' = Dir(p, j) /\ Dir(p, j).v \in Versions
    <3>1. CASE j = k
      <4>1. Updating(p)
        BY <1>2, <2>1, <3>1 DEF Dir, Here
      <4> QED BY <1>2, <1>4, <1>6, <3>1, <4>1 DEF Dir, k
    <3>2. CASE j # k
      BY <1>1, <1>4, <1>5, <1>6, <2>1, <3>2, Facts DEF Dir, Here, k
    <3> QED BY <3>1, <3>2
  <2>2. \A v \in Versions : v <= v
    BY DEF Versions
  <2>3. \A j \in Packs : Dir(p, j).kind # "absent" =>
           /\ Dir(p, j)'.kind # "absent"
           /\ Dir(p, j).v \in Versions /\ Dir(p, j)'.v \in Versions
           /\ Dir(p, j).v <= Dir(p, j)'.v
    BY <2>1, <2>2
  <2>4. Standing(p) /\ UNCHANGED manifest /\ proc[p].pc # "drop"
    BY <1>1 DEF Tidy
  <2> QED BY <1>1, <2>3, <2>4, StandingKept
<1>8. Accounted(p)'
  BY <1>1, <1>4, AccountedKept DEF Tidy
<1>9. Kinds(p)'
  <2> SUFFICES ASSUME NEW j \in Packs
               PROVE  (\/ pack[j].kind \in {"absent", "whole"}
                       \/ pack[j].kind = "mismatched" /\ proc[p].pc \notin {"write", "put"}
                       \/ pack[j].kind = "unlisted" /\ proc[p].pc = "copy" /\ proc[p].k = j)'
    BY DEF Kinds
  <2>1. CASE j = k
    BY <1>3, <1>4, <1>5, <2>1
  <2>2. CASE j # k
    BY <1>1, <1>4, <1>5, <2>2 DEF Tidy, Kinds
  <2> QED BY <2>1, <2>2
<1>10. Behind'
  BY <1>1, <1>2, <1>5 DEF Tidy, Behind, Here
<1>11. pack'[k].kind # "absent"
  BY <1>3, <1>5
<1>12. Copying(p)'
  <2>1. Here(proc[p].k)' /\ pack'[proc'[p].k].v = proc'[p].v
    BY <1>4, <1>5, <1>11 DEF Here
  <2>2. proc'[p].v <= upstream'[proc'[p].k] /\ proc'[p].op \in {"install", "update"}
    BY <1>1, <1>2, <1>4
  <2>3. Updating(p)' => /\ proc'[p].backup.kind \in {"whole", "mismatched"}
                        /\ proc'[p].v \in Versions
                        /\ proc'[p].backup.v <= proc'[p].v
    BY <1>1, <1>4, <1>6 DEF Tidy, Copying
  <2> QED BY <1>4, <2>1, <2>2, <2>3 DEF Copying
<1>13. Removing(p)' /\ Writing(p)'
  BY <1>4 DEF Removing, Writing
<1> QED BY <1>1, <1>7, <1>8, <1>9, <1>10, <1>12, <1>13 DEF Tidy

LEMMA TidyCopyEnds ==
    ASSUME NoneDropped, TidyInv, NEW p \in Procs, CopyEnds(p)
    PROVE  Tidy(p)'
<1>1. Tidy(p) /\ IInv /\ proc[p].pc = "copy" /\ UNCHANGED <<upstream, file, manifest>>
  BY DEF TidyInv, CopyEnds
<1> DEFINE k == proc[p].k
<1>2. /\ k \in Packs /\ proc[p].v \in Versions /\ Here(k)
      /\ proc[p].op \in {"install", "update"} /\ pack[k].v = proc[p].v
      /\ Updating(p) => proc[p].backup \in PackDir /\ proc[p].backup.v \in Versions
  BY <1>1, CopyFacts DEF Tidy, Copying
<1>3. pack' = [pack EXCEPT ![k] = [kind |-> Kind(k, proc[p].v), v |-> proc[p].v,
                                   says |-> proc[p].v, url |-> FALSE]]
  BY DEF CopyEnds
<1>4. /\ proc'[p].pc = "stamp" /\ proc'[p].op = proc[p].op /\ proc'[p].k = k
      /\ proc'[p].v = proc[p].v /\ proc'[p].backup = proc[p].backup
  BY <1>1, PcStep DEF CopyEnds
<1>5. /\ pack'[k].kind \in {"whole", "mismatched"} /\ pack'[k].v = proc[p].v
      /\ \A j \in Packs : j # k => pack'[j] = pack[j]
  BY <1>1, <1>2, <1>3, Facts DEF Kind
<1> HIDE DEF k
<1>6. Updating(p)' <=> Updating(p)
  BY <1>1, <1>4 DEF Updating
<1>7. Standing(p)'
  <2>1. ASSUME NEW j \in Packs, Dir(p, j).kind # "absent"
        PROVE  /\ Dir(p, j)'.kind # "absent"
               /\ Dir(p, j)'.v = Dir(p, j).v /\ Dir(p, j).v \in Versions
    <3>1. CASE j = k /\ Updating(p)
      BY <1>2, <1>4, <1>6, <2>1, <3>1 DEF Dir, k
    <3>2. CASE j = k /\ ~Updating(p)
      BY <1>2, <1>5, <1>6, <3>2 DEF Dir
    <3>3. CASE j # k
      BY <1>1, <1>4, <1>5, <1>6, <2>1, <3>3, Facts DEF Dir, Here, k
    <3> QED BY <3>1, <3>2, <3>3
  <2>2. \A v \in Versions : v <= v
    BY DEF Versions
  <2>3. \A j \in Packs : Dir(p, j).kind # "absent" =>
           /\ Dir(p, j)'.kind # "absent"
           /\ Dir(p, j).v \in Versions /\ Dir(p, j)'.v \in Versions
           /\ Dir(p, j).v <= Dir(p, j)'.v
    BY <2>1, <2>2
  <2>4. Standing(p) /\ UNCHANGED manifest /\ proc[p].pc # "drop"
    BY <1>1 DEF Tidy
  <2> QED BY <1>1, <2>3, <2>4, StandingKept
<1>8. Accounted(p)'
  BY <1>1, <1>4, AccountedKept DEF Tidy
<1>9. Kinds(p)'
  BY <1>1, <1>4, <1>5 DEF Tidy, Kinds, k
<1>10. Behind'
  BY <1>1, <1>2, <1>5 DEF Tidy, Behind, Here
<1>11. Copying(p)'
  <2>1. Here(proc[p].k)' /\ pack'[proc'[p].k].v = proc'[p].v
    BY <1>4, <1>5 DEF Here
  <2>2. Updating(p)' => /\ proc'[p].backup.kind \in {"whole", "mismatched"}
                        /\ proc'[p].v \in Versions
                        /\ proc'[p].backup.v <= proc'[p].v
    BY <1>1, <1>4, <1>6 DEF Tidy, Copying
  <2> QED BY <1>2, <1>4, <2>1, <2>2 DEF Copying
<1>12. Removing(p)' /\ Writing(p)'
  BY <1>4 DEF Removing, Writing
<1> QED BY <1>1, <1>7, <1>8, <1>9, <1>10, <1>11, <1>12 DEF Tidy

LEMMA TidyStamp ==
    ASSUME NoneDropped, TidyInv, NEW p \in Procs, Stamp(p)
    PROVE  Tidy(p)'
<1>1. Tidy(p) /\ IInv /\ proc[p].pc = "stamp" /\ UNCHANGED <<upstream, file, manifest>>
  BY DEF TidyInv, Stamp
<1> DEFINE k == proc[p].k
<1>2. /\ k \in Packs /\ Here(k) /\ proc[p].op \in {"install", "update"}
      /\ pack[k] \in PackDir
      /\ Updating(p) => proc[p].backup \in PackDir /\ proc[p].backup.v \in Versions
  BY <1>1, CopyFacts, Facts DEF Tidy, Copying
<1>3. pack' = [pack EXCEPT ![k].url = TRUE]
  BY DEF Stamp
<1>4. /\ proc'[p].pc = IF proc[p].op = "install" THEN "verify" ELSE "resync"
      /\ proc'[p].op = proc[p].op /\ proc'[p].k = k
      /\ proc'[p].v = proc[p].v /\ proc'[p].backup = proc[p].backup
  <2> DEFINE pc == IF proc[p].op = "install" THEN "verify" ELSE "resync"
  <2>1. proc' = [proc EXCEPT ![p].pc = pc] /\ proc[p].pc # "idle"
    BY <1>1 DEF Stamp
  <2> HIDE DEF pc
  <2>2. /\ proc'[p].pc = pc
        /\ proc'[p].op = proc[p].op /\ proc'[p].k = proc[p].k
        /\ proc'[p].v = proc[p].v /\ proc'[p].backup = proc[p].backup
    BY <2>1, PcStep
  <2> QED BY <2>2 DEF pc
<1>5. pack'[k] = [pack[k] EXCEPT !.url = TRUE]
  BY <1>1, <1>2, <1>3, Facts
<1>6. pack'[k].kind = pack[k].kind /\ pack'[k].v = pack[k].v
  BY <1>2, <1>5 DEF PackDir
<1>7. \A j \in Packs : pack'[j].kind = pack[j].kind /\ pack'[j].v = pack[j].v
  <2>1. \A j \in Packs : j # k => pack'[j] = pack[j]
    BY <1>1, <1>2, <1>3, Facts
  <2> QED BY <1>6, <2>1
<1> HIDE DEF k
<1>8. Updating(p)' <=> Updating(p)
  BY <1>1, <1>2, <1>4 DEF Updating
<1>9. Standing(p)'
  <2>1. ASSUME NEW j \in Packs, Dir(p, j).kind # "absent"
        PROVE  /\ Dir(p, j)'.kind # "absent"
               /\ Dir(p, j)'.v = Dir(p, j).v /\ Dir(p, j).v \in Versions
    <3>1. CASE j = k /\ Updating(p)
      BY <1>2, <1>4, <1>8, <2>1, <3>1 DEF Dir, k
    <3>2. CASE ~(j = k /\ Updating(p))
      BY <1>1, <1>4, <1>7, <1>8, <2>1, <3>2, Facts DEF Dir, Here, k
    <3> QED BY <3>1, <3>2
  <2>2. \A v \in Versions : v <= v
    BY DEF Versions
  <2>3. \A j \in Packs : Dir(p, j).kind # "absent" =>
           /\ Dir(p, j)'.kind # "absent"
           /\ Dir(p, j).v \in Versions /\ Dir(p, j)'.v \in Versions
           /\ Dir(p, j).v <= Dir(p, j)'.v
    BY <2>1, <2>2
  <2>4. Standing(p) /\ UNCHANGED manifest /\ proc[p].pc # "drop"
    BY <1>1 DEF Tidy
  <2> QED BY <1>1, <2>3, <2>4, StandingKept
<1>10. Accounted(p)'
  BY <1>1, <1>4, AccountedKept DEF Tidy
<1>11. Kinds(p)'
  BY <1>1, <1>4, <1>7 DEF Tidy, Kinds
<1>12. Behind'
  BY <1>1, <1>7 DEF Tidy, Behind, Here
<1>13. Copying(p)'
  <2>1. Here(proc[p].k)'
    BY <1>2, <1>4, <1>7 DEF Here
  <2>2. Updating(p)' => /\ proc'[p].backup.kind \in {"whole", "mismatched"}
                        /\ proc'[p].v \in Versions
                        /\ proc'[p].backup.v <= proc'[p].v
                        /\ pack'[proc'[p].k].v = proc'[p].v
    BY <1>1, <1>2, <1>4, <1>7, <1>8 DEF Tidy, Copying, k
  <2>3. /\ proc'[p].pc = "verify" => proc'[p].op = "install"
        /\ proc'[p].pc = "resync" => proc'[p].op = "update"
    BY <1>2, <1>4
  <2> QED BY <1>4, <2>1, <2>2, <2>3 DEF Copying
<1>14. Removing(p)' /\ Writing(p)'
  BY <1>4 DEF Removing, Writing
<1> QED BY <1>1, <1>9, <1>10, <1>11, <1>12, <1>13, <1>14 DEF Tidy


LEMMA TidyVerify ==
    ASSUME TidyInv, NEW p \in Procs, Verify(p)
    PROVE  Tidy(p)'
<1>1. Tidy(p) /\ proc[p].pc = "verify" /\ UNCHANGED <<upstream, file, manifest>>
  BY DEF TidyInv, Verify
<1>2. UNCHANGED pack /\ Return(p)
  BY <1>1 DEF Verify, Tidy, Kinds
<1>3. Behind' /\ ~Updating(p)
  BY <1>1, <1>2 DEF Tidy, Behind, Here, Updating
<1> QED BY <1>1, <1>2, <1>3, TidyReturn

LEMMA TidySwapOut ==
    ASSUME NoneDropped, TidyInv, NEW p \in Procs, SwapOut(p)
    PROVE  Tidy(p)'
<1>1. /\ Tidy(p) /\ IInv /\ proc[p].pc = "confirm" /\ proc[p].op = "update"
      /\ UNCHANGED <<upstream, file, manifest>>
  BY DEF TidyInv, SwapOut
<1> DEFINE k == proc[p].k
           n == [proc[p] EXCEPT !.pc = "clone", !.backup = pack[k]]
<1>2. /\ k \in Packs /\ proc[p].v \in Versions /\ Here(k)
      /\ pack[k].v <= proc[p].v /\ proc[p].v <= upstream[k]
  BY <1>1, CopyFacts DEF Tidy, Copying
<1>3. pack' = [pack EXCEPT ![k] = NoPack] /\ proc' = [proc EXCEPT ![p] = n]
  BY DEF SwapOut
<1>4. proc[p] \in Busy
  BY <1>1, SoundProc
<1>5. /\ n.pc = "clone" /\ n.op = "update" /\ n.k = k /\ n.v = proc[p].v
      /\ n.backup = pack[k]
  BY <1>1, <1>4 DEF Busy
<1>6. proc'[p] = n
  BY <1>1, <1>3 DEF IInv, TypeOK
<1> HIDE DEF n
<1>7. /\ pack'[k] = NoPack /\ NoPack.kind = "absent"
      /\ \A j \in Packs : j # k => pack'[j] = pack[j]
  BY <1>1, <1>2, <1>3, Facts DEF NoPack
<1>8. proc'[p].pc = "clone" /\ proc'[p].op = "update" /\ proc'[p].k = k /\ proc'[p].v = proc[p].v
      /\ proc'[p].backup = pack[k]
  BY <1>5, <1>6
<1> HIDE DEF k
<1>9. ~Updating(p) /\ Updating(p)'
  BY <1>1, <1>8 DEF Updating
<1>10. Standing(p)'
  <2>1. ASSUME NEW j \in Packs, Dir(p, j).kind # "absent"
        PROVE  Dir(p, j)' = Dir(p, j) /\ Dir(p, j).v \in Versions
    <3>1. Dir(p, j) = pack[j] /\ pack[j].v \in Versions
      BY <1>1, <1>9, <2>1, Facts DEF Dir, Here
    <3>2. Dir(p, j)' = pack[j]
      BY <1>7, <1>8, <1>9 DEF Dir
    <3> QED BY <3>1, <3>2
  <2>2. \A v \in Versions : v <= v
    BY DEF Versions
  <2>3. \A j \in Packs : Dir(p, j).kind # "absent" =>
           /\ Dir(p, j)'.kind # "absent"
           /\ Dir(p, j).v \in Versions /\ Dir(p, j)'.v \in Versions
           /\ Dir(p, j).v <= Dir(p, j)'.v
    BY <2>1, <2>2
  <2>4. Standing(p) /\ UNCHANGED manifest /\ proc[p].pc # "drop"
    BY <1>1 DEF Tidy
  <2> QED BY <1>1, <2>3, <2>4, StandingKept
<1>11. Accounted(p)'
  BY <1>1, <1>8, AccountedKept DEF Tidy
<1>12. Kinds(p)'
  BY <1>1, <1>7, <1>8 DEF Tidy, Kinds
<1>13. Behind'
  BY <1>1, <1>7 DEF Tidy, Behind, Here
<1>14. Copying(p)'
  <2>1. ~Here(proc[p].k)' /\ proc'[p].v <= upstream'[proc'[p].k]
    BY <1>1, <1>2, <1>7, <1>8 DEF Here
  <2>2. /\ proc'[p].backup.kind \in {"whole", "mismatched"}
        /\ proc'[p].v \in Versions
        /\ proc'[p].backup.v <= proc'[p].v
    BY <1>1, <1>2, <1>8 DEF Tidy, Kinds, Here
  <2> QED BY <1>8, <2>1, <2>2 DEF Copying
<1>15. Removing(p)' /\ Writing(p)'
  BY <1>8 DEF Removing, Writing
<1> QED BY <1>1, <1>10, <1>11, <1>12, <1>13, <1>14, <1>15 DEF Tidy

LEMMA TidyResync ==
    ASSUME NoneDropped, TidyInv, NEW p \in Procs, Resync(p)
    PROVE  Tidy(p)'
<1>1. /\ Tidy(p) /\ IInv /\ proc[p].pc = "resync" /\ Updating(p)
      /\ UNCHANGED <<upstream, file, manifest>>
  BY DEF TidyInv, Resync, Tidy, Copying, Updating
<1> DEFINE k == proc[p].k
<1>2. /\ k \in Packs /\ Here(k) /\ proc[p].backup \in PackDir
      /\ proc[p].backup.v \in Versions /\ proc[p].v \in Versions
      /\ proc[p].backup.kind \in {"whole", "mismatched"}
      /\ proc[p].backup.v <= proc[p].v /\ pack[k].v = proc[p].v
      /\ manifest.state # "torn"
  BY <1>1, CopyFacts DEF Tidy, Copying
<1> HIDE DEF k
(* Whatever happens to the update, the directories provide the entries.    *)
<1>3. \A e \in manifest.files : Provides(pack[PackOf(e)], PackOf(e), e.place[3])
  <2> SUFFICES ASSUME NEW e \in manifest.files
               PROVE  Provides(pack[PackOf(e)], PackOf(e), e.place[3])
    OBVIOUS
  <2>1. Provides(Dir(p, PackOf(e)), PackOf(e), e.place[3])
    BY <1>1 DEF Tidy, Standing
  <2>2. CASE PackOf(e) # k
    BY <2>1, <2>2 DEF Dir, k
  <2>3. CASE PackOf(e) = k
    <3>1. e.place[3] \in Ships[k][proc[p].backup.v]
      BY <1>1, <2>1, <2>3 DEF Dir, Provides, k
    <3>2. e.place[3] \in Ships[k][proc[p].v]
      BY <1>2, <3>1 DEF NoneDropped
    <3> QED BY <1>2, <2>3, <3>2 DEF Provides, Here
  <2> QED BY <2>2, <2>3
<1>4. ASSUME proc'[p].pc = "idle", \A j \in Packs : j # k => pack'[j] = pack[j],
             pack'[k] = pack[k] \/ pack'[k] = proc[p].backup
      PROVE  Tidy(p)'
  <2>1. ~Updating(p)'
    BY <1>4 DEF Updating
  <2>2. Standing(p)'
    <3> SUFFICES ASSUME NEW e \in manifest.files
                 PROVE  Provides(pack'[PackOf(e)], PackOf(e), e.place[3])
      BY <1>1, <2>1 DEF Standing, Dir, Provides, PackOf
    <3>1. PackOf(e) \in Packs
      BY <1>1, Facts
    <3>2. CASE pack'[PackOf(e)] = pack[PackOf(e)]
      BY <1>3, <3>2
    <3>3. CASE PackOf(e) = k /\ pack'[k] = proc[p].backup
      BY <1>1, <3>3 DEF Tidy, Standing, Dir, k
    <3> QED BY <1>4, <3>1, <3>2, <3>3
  <2>3. Accounted(p)'
    BY <1>1, <1>4, AccountedKept DEF Tidy
  <2>4. Kinds(p)'
    BY <1>1, <1>2, <1>4 DEF Tidy, Kinds
  <2>5. Behind'
    <3>1. pack[k].v <= upstream[k] /\ upstream[k] \in Nat
      BY <1>1, <1>2, Facts DEF Tidy, Behind
    <3>2. proc[p].backup.v <= upstream[k]
      BY <1>1, <1>2, <3>1, Facts
    <3> QED BY <1>1, <1>4, <3>1, <3>2 DEF Tidy, Behind, Here
  <2>6. Copying(p)' /\ Removing(p)' /\ Writing(p)'
    BY <1>4, <2>1 DEF Copying, Removing, Writing
  <2> QED BY <1>1, <2>2, <2>3, <2>4, <2>5, <2>6 DEF Tidy
<1>5. CASE Fails(p)
  <2>1. proc'[p].pc = "idle"
    BY <1>1, <1>5, Records DEF Fails, Return, IInv, TypeOK
  <2>2. proc[p].backup # NoPack
    BY <1>2, Records
  <2>3. pack' = [pack EXCEPT ![k] = proc[p].backup]
    BY <1>5, <2>2 DEF Fails, k
  <2> QED BY <1>1, <1>2, <1>4, <2>1, <2>3, Facts
<1>6. CASE Return(p) /\ UNCHANGED pack
  <2>1. proc'[p].pc = "idle"
    BY <1>1, <1>6, Records DEF Return, IInv, TypeOK
  <2> QED BY <1>4, <1>6, <2>1
<1>7. CASE /\ Loadable /\ UNCHANGED pack
           /\ proc' = [proc EXCEPT ![p].pc = "write", ![p].hosts = manifest.hosts,
                          ![p].todo = Targets(Again), ![p].prior = manifest.files]
  <2> DEFINE n == [proc[p] EXCEPT !.pc = "write", !.hosts = manifest.hosts,
                          !.todo = Targets(Again), !.prior = manifest.files]
  <2>1. proc' = [proc EXCEPT ![p] = n]
    BY <1>7
  <2>2. proc[p] \in Busy /\ Sound(proc[p])
    BY <1>1, SoundProc
  <2>3. proc[p].new = {}
    BY <1>1, <2>2 DEF Sound, Phase
  <2>4. n.pc = "write" /\ n.prior = manifest.files /\ n.new = {} /\ n.todo = Targets(Again)
    BY <2>2, <2>3 DEF Busy
  <2> HIDE DEF n
  <2>5. proc'[p] = n
    BY <1>1, <2>1 DEF IInv, TypeOK
  <2>6. /\ proc'[p].pc = "write" /\ proc'[p].prior = manifest.files /\ proc'[p].new = {}
        /\ proc'[p].todo = Targets(Again)
    BY <2>4, <2>5
  <2> QED BY <1>1, <1>3, <1>7, <2>6, TidyWriting
<1> QED BY <1>5, <1>6, <1>7 DEF Resync


---------------------------------------------------------------------------
(* A pack is uninstalled. *)

LEMMA TidyConfirm ==
    ASSUME TidyInv, NEW p \in Procs, Confirm(p)
    PROVE  Tidy(p)'
<1>1. /\ Tidy(p) /\ IInv /\ proc[p].pc = "confirm" /\ proc[p].op = "uninstall"
      /\ UNCHANGED <<upstream, pack, file, manifest>> /\ proc[p] \in Busy
  BY SoundProc DEF TidyInv, Confirm
<1> DEFINE n == [proc[p] EXCEPT !.pc = "remove", !.backup = pack[proc[p].k]]
<1>2. proc' = [proc EXCEPT ![p] = n]
  BY DEF Confirm
<1>3. /\ n.pc = "remove" /\ n.op = "uninstall" /\ n.k = proc[p].k /\ n.snap = proc[p].snap
      /\ n.todo = proc[p].todo
  BY <1>1 DEF Busy
<1> HIDE DEF n
<1>4. proc'[p] = n
  BY <1>1, <1>2 DEF IInv, TypeOK
<1>5. ~Updating(p) /\ ~Updating(p)'
  BY <1>1, <1>3, <1>4 DEF Updating
<1>6. Standing(p)'
  BY <1>1, <1>5, StandingStays DEF Tidy
<1>7. Accounted(p)'
  <2> SUFFICES ASSUME NEW d \in Places, file[d] \in Shipped
               PROVE  /\ Installed(d) \in manifest.files
                      /\ file[d][1] = proc[p].k => \E t \in proc[p].todo : t.place = d
    BY <1>1, <1>3, <1>4 DEF Accounted, OnRecord, Installed
  <2>1. Installed(d) \in manifest.files
    BY <1>1 DEF Tidy, Accounted, OnRecord
  <2>2. PackOf(Installed(d)) = file[d][1] /\ Installed(d).place = d
    BY DEF Installed, PackOf
  <2> QED BY <1>1, <2>1, <2>2 DEF Tidy, Removing
<1>8. Kinds(p)'
  BY <1>1, <1>3, <1>4 DEF Tidy, Kinds
<1>9. Copying(p)' /\ Writing(p)'
  BY <1>3, <1>4, <1>5 DEF Copying, Writing
<1>10. Removing(p)'
  BY <1>1, <1>3, <1>4 DEF Tidy, Removing
<1>11. (manifest.state # "torn" /\ Behind)'
  BY <1>1 DEF Tidy, Behind, Here
<1> QED BY <1>6, <1>7, <1>8, <1>9, <1>10, <1>11 DEF Tidy

LEMMA TidyCancel ==
    ASSUME TidyInv, NEW p \in Procs, Cancel(p)
    PROVE  Tidy(p)'
<1>1. Behind' /\ ~Updating(p)
  BY DEF Cancel, TidyInv, Tidy, Behind, Here, Updating
<1> QED BY <1>1, TidyReturn DEF Cancel

LEMMA TidyRemove ==
    ASSUME TidyInv, NEW p \in Procs, RemoveSide(p) \/ RemoveFile(p)
    PROVE  Tidy(p)'
<1>1. /\ Tidy(p) /\ IInv /\ proc[p].pc = "remove" /\ proc[p].op = "uninstall"
      /\ UNCHANGED <<upstream, pack, manifest>> /\ proc[p] \in Busy
  BY SoundProc DEF TidyInv, RemoveSide, RemoveFile, Sound, Phase
<1>2. /\ proc'[p].pc = "remove" /\ proc'[p].op = "uninstall" /\ proc'[p].k = proc[p].k
      /\ proc'[p].snap = proc[p].snap
      /\ \/ UNCHANGED file /\ proc'[p].todo = proc[p].todo
         \/ \E t \in proc[p].todo : /\ file' = [file EXCEPT ![t.place] = None]
                                    /\ proc'[p].todo = proc[p].todo \ {t}
  <2>1. CASE RemoveSide(p)
    <3>1. PICK d : proc' = [proc EXCEPT ![p].sides = @ \ {d}]
      BY <2>1 DEF RemoveSide
    <3>2. proc'[p] = [proc[p] EXCEPT !.sides = @ \ {d}] /\ UNCHANGED file
      BY <1>1, <2>1, <3>1 DEF IInv, TypeOK, RemoveSide
    <3> QED BY <1>1, <3>2 DEF Busy
  <2>2. CASE RemoveFile(p)
    <3>1. PICK t \in proc[p].todo : /\ file' = [file EXCEPT ![t.place] = None]
                                    /\ proc' = [proc EXCEPT ![p].todo = @ \ {t}]
      BY <2>2 DEF RemoveFile
    <3>2. proc'[p] = [proc[p] EXCEPT !.todo = @ \ {t}]
      BY <1>1, <3>1 DEF IInv, TypeOK
    <3>3. /\ proc'[p].pc = "remove" /\ proc'[p].op = "uninstall"
          /\ proc'[p].k = proc[p].k /\ proc'[p].snap = proc[p].snap
          /\ proc'[p].todo = proc[p].todo \ {t}
      BY <1>1, <3>2 DEF Busy
    <3> QED BY <3>1, <3>3
  <2> QED BY <2>1, <2>2
<1>3. ~Updating(p) /\ ~Updating(p)'
  BY <1>1, <1>2 DEF Updating
<1>4. Standing(p)'
  BY <1>1, <1>3, StandingStays DEF Tidy
<1>5. Accounted(p)'
  <2> SUFFICES ASSUME NEW d \in Places, file'[d] \in Shipped
               PROVE  /\ Installed(d)' \in manifest.files
                      /\ file'[d][1] = proc[p].k => \E t \in proc'[p].todo : t.place = d
    BY <1>1, <1>2 DEF Accounted, OnRecord
  <2>1. CASE UNCHANGED file /\ proc'[p].todo = proc[p].todo
    BY <1>1, <2>1 DEF Tidy, Accounted, OnRecord, Installed
  <2>2. ASSUME NEW t \in proc[p].todo, file' = [file EXCEPT ![t.place] = None],
               proc'[p].todo = proc[p].todo \ {t}
        PROVE  /\ Installed(d)' \in manifest.files
               /\ file'[d][1] = proc[p].k => \E u \in proc'[p].todo : u.place = d
    <3>1. d # t.place /\ file'[d] = file[d]
      BY <1>1, <2>2, PackAssumption, Facts
    <3>2. OnRecord(p, d)
      BY <1>1, <3>1 DEF Tidy, Accounted
    <3> QED BY <1>1, <2>2, <3>1, <3>2 DEF OnRecord, Installed
  <2> QED BY <1>2, <2>1, <2>2
<1>6. Kinds(p)'
  BY <1>1, <1>2 DEF Tidy, Kinds
<1>7. Copying(p)' /\ Writing(p)'
  BY <1>2, <1>3 DEF Copying, Writing
<1>8. Removing(p)'
  BY <1>1, <1>2 DEF Tidy, Removing
<1>9. (manifest.state # "torn" /\ Behind)'
  BY <1>1 DEF Tidy, Behind, Here
<1> QED BY <1>4, <1>5, <1>6, <1>7, <1>8, <1>9 DEF Tidy

LEMMA TidyRemovePack ==
    ASSUME TidyInv, NEW p \in Procs, RemovePack(p)
    PROVE  Tidy(p)'
<1>1. /\ Tidy(p) /\ IInv /\ proc[p].pc = "remove" /\ proc[p].todo = {}
      /\ proc[p].op = "uninstall" /\ UNCHANGED <<upstream, file, manifest>>
  BY SoundProc DEF TidyInv, RemovePack, Sound, Phase
<1> DEFINE k == proc[p].k
<1>2. k \in Packs
  BY <1>1, CopyFacts
<1>3. /\ proc'[p].pc = "drop" /\ proc'[p].op = "uninstall" /\ proc'[p].k = k
      /\ proc'[p].snap = proc[p].snap
  BY <1>1, PcStep DEF RemovePack
<1>4. /\ pack'[k] = NoPack /\ NoPack.kind = "absent"
      /\ \A j \in Packs : j # k => pack'[j] = pack[j]
  BY <1>1, <1>2, Facts DEF RemovePack, NoPack
<1> HIDE DEF k
<1>5. ~Updating(p) /\ ~Updating(p)'
  BY <1>1, <1>3 DEF Updating
<1>6. Standing(p)'
  <2> SUFFICES ASSUME NEW e \in manifest.files, PackOf(e) # k
               PROVE  Provides(pack'[PackOf(e)], PackOf(e), e.place[3])
    BY <1>1, <1>3, <1>5 DEF Standing, Dir, Provides, PackOf
  <2>1. Provides(pack[PackOf(e)], PackOf(e), e.place[3])
    BY <1>1, <1>5 DEF Tidy, Standing, Dir
  <2>2. pack'[PackOf(e)] = pack[PackOf(e)]
    BY <1>1, <1>4, Facts
  <2> QED BY <2>1, <2>2
<1>7. Accounted(p)'
  BY <1>1, <1>3 DEF Tidy, Accounted, OnRecord, Installed, k
<1>8. Kinds(p)'
  BY <1>1, <1>3, <1>4 DEF Tidy, Kinds
<1>9. Copying(p)' /\ Writing(p)'
  BY <1>3, <1>5 DEF Copying, Writing
<1>10. Removing(p)'
  BY <1>1, <1>3 DEF Tidy, Removing
<1>11. (manifest.state # "torn" /\ Behind)'
  BY <1>1, <1>4 DEF Tidy, Behind, Here
<1> QED BY <1>6, <1>7, <1>8, <1>9, <1>10, <1>11 DEF Tidy

LEMMA TidyDrop ==
    ASSUME TidyInv, NEW p \in Procs, Drop(p)
    PROVE  Tidy(p)'
<1>1. /\ Tidy(p) /\ IInv /\ proc[p].pc = "drop" /\ proc[p].op = "uninstall"
      /\ proc[p].snap = manifest /\ UNCHANGED <<upstream, pack, file>>
  BY DEF TidyInv, Drop, Tidy, Removing
<1>2. proc'[p].pc = "idle"
  BY <1>1, Records DEF Drop, Return, IInv, TypeOK
<1>3. /\ manifest'.state # "torn"
      /\ \A e : e \in manifest'.files <=> e \in manifest.files /\ PackOf(e) # proc[p].k
  <2>1. CASE \A e \in manifest.files : PackOf(e) # proc[p].k
    BY <1>1, <2>1 DEF Drop, Tidy
  <2>2. CASE ~ \A e \in manifest.files : PackOf(e) # proc[p].k
    <3>1. manifest' = [manifest EXCEPT !.files = Others(p)]
      BY <1>1, <2>2 DEF Drop
    <3>2. manifest \in Manifest
      BY <1>1, <2>2, Records DEF IInv, TypeOK
    <3>3. manifest'.files = Others(p) /\ manifest'.state = manifest.state
      BY <3>1, <3>2 DEF Manifest
    <3> QED BY <1>1, <3>3 DEF Others, Tidy
  <2> QED BY <2>1, <2>2
<1>4. ~Updating(p) /\ ~Updating(p)'
  BY <1>1, <1>2 DEF Updating
<1>5. Standing(p)'
  <2> SUFFICES ASSUME NEW e \in manifest'.files
               PROVE  Provides(pack[PackOf(e)], PackOf(e), e.place[3])
    BY <1>1, <1>4 DEF Standing, Dir, Provides, PackOf
  <2> QED BY <1>1, <1>3, <1>4 DEF Tidy, Standing, Dir
<1>6. Accounted(p)'
  <2> SUFFICES ASSUME NEW d \in Places, file[d] \in Shipped
               PROVE  Installed(d) \in manifest'.files
    BY <1>1, <1>2 DEF Accounted, OnRecord, Installed
  <2>1. Installed(d) \in manifest.files /\ file[d][1] # proc[p].k
    BY <1>1 DEF Tidy, Accounted, OnRecord
  <2>2. PackOf(Installed(d)) = file[d][1]
    BY DEF Installed, PackOf
  <2> QED BY <1>3, <2>1, <2>2
<1>7. Kinds(p)'
  BY <1>1, <1>2 DEF Tidy, Kinds
<1>8. Copying(p)' /\ Removing(p)' /\ Writing(p)'
  BY <1>2, <1>4 DEF Copying, Removing, Writing
<1>9. Behind'
  BY <1>1 DEF Tidy, Behind, Here
<1> QED BY <1>3, <1>5, <1>6, <1>7, <1>8, <1>9 DEF Tidy

---------------------------------------------------------------------------
(* A pack is published. *)

LEMMA TidyPush ==
    ASSUME TidyInv, NEW p \in Procs, Push(p)
    PROVE  Tidy(p)'
<1>1. /\ Tidy(p) /\ IInv /\ proc[p].pc = "confirm" /\ proc[p].op = "publish"
      /\ UNCHANGED <<pack, file, manifest>>
  BY DEF TidyInv, Push
<1> DEFINE k == proc[p].k
<1>2. k \in Packs /\ Here(k) /\ pack[k].v \in Versions
  BY <1>1, CopyFacts, Facts DEF Tidy, Copying
<1>3. upstream' = [upstream EXCEPT ![k] = pack[k].v]
  BY DEF Push
<1>4. Behind'
  <2>1. \A v \in Versions : v <= v
    BY DEF Versions
  <2> QED BY <1>1, <1>2, <1>3, <2>1, Facts DEF Tidy, Behind, Here
<1>5. ~Updating(p)
  BY <1>1 DEF Updating
<1>6. CASE Return(p)
  BY <1>1, <1>4, <1>5, <1>6, TidyReturn
<1>7. CASE proc' = [proc EXCEPT ![p].pc = "source_url"]
  <2>1. proc'[p].pc = "source_url" /\ proc'[p].op = "publish" /\ proc'[p].k = k
    BY <1>1, <1>7, PcStep
  <2>2. ~Updating(p)'
    BY <2>1 DEF Updating
  <2>3. Standing(p)'
    BY <1>1, <1>5, <2>2, StandingStays DEF Tidy
  <2>4. Accounted(p)'
    BY <1>1, <2>1, AccountedKept DEF Tidy
  <2>5. Kinds(p)'
    BY <1>1, <2>1 DEF Tidy, Kinds
  <2>6. Copying(p)' /\ Removing(p)' /\ Writing(p)'
    BY <1>1, <1>2, <2>1, <2>2 DEF Copying, Removing, Writing, Here
  <2> QED BY <1>1, <1>4, <2>3, <2>4, <2>5, <2>6 DEF Tidy
<1> QED BY <1>6, <1>7 DEF Push

LEMMA TidyWriteBack ==
    ASSUME NoneDropped, TidyInv, NEW p \in Procs, WriteBack(p)
    PROVE  Tidy(p)'
<1>1. /\ Tidy(p) /\ IInv /\ proc[p].pc = "source_url"
      /\ UNCHANGED <<upstream, file, manifest>> /\ Sound(proc[p])
  BY SoundProc DEF TidyInv, WriteBack
<1> DEFINE k == proc[p].k
<1>2. Here(k) /\ pack \in [Packs -> PackDir \cup {NoPack}]
  BY <1>1, Facts DEF Tidy, Copying
<1>3. PICK kind \in {"whole", "mismatched"} :
        pack' = [pack EXCEPT ![k] =
                   [kind |-> kind, v |-> @.v, says |-> proc[p].v, url |-> TRUE]]
  BY DEF WriteBack, Relisted
<1>4. proc'[p].pc = "idle"
  BY <1>1, Records DEF WriteBack, Return, IInv, TypeOK
<1>5. \A j \in Packs : /\ pack'[j].v = pack[j].v
                       /\ j # k => pack'[j] = pack[j]
                       /\ j = k => pack'[j].kind \in {"whole", "mismatched"}
  BY <1>2, <1>3
<1> HIDE DEF k
<1>6. ~Updating(p) /\ ~Updating(p)'
  BY <1>1, <1>4 DEF Updating
<1>7. Standing(p)'
  <2>1. \A v \in Versions : v <= v
    BY DEF Versions
  <2>2. ASSUME NEW j \in Packs, Dir(p, j).kind # "absent"
        PROVE  /\ Dir(p, j)'.kind # "absent"
               /\ Dir(p, j)'.v = Dir(p, j).v /\ Dir(p, j).v \in Versions
    BY <1>1, <1>5, <1>6, <2>2, Facts DEF Dir, Here
  <2>3. \A j \in Packs : Dir(p, j).kind # "absent" =>
           /\ Dir(p, j)'.kind # "absent"
           /\ Dir(p, j).v \in Versions /\ Dir(p, j)'.v \in Versions
           /\ Dir(p, j).v <= Dir(p, j)'.v
    BY <2>1, <2>2
  <2>4. Standing(p) /\ UNCHANGED manifest /\ proc[p].pc # "drop"
    BY <1>1 DEF Tidy
  <2> QED BY <1>1, <2>3, <2>4, StandingKept
<1>8. Accounted(p)'
  BY <1>1, <1>4, AccountedKept DEF Tidy
<1>9. Kinds(p)'
  BY <1>1, <1>4, <1>5 DEF Tidy, Kinds
<1>10. Behind'
  BY <1>1, <1>2, <1>5 DEF Tidy, Behind, Here, k
<1>11. Copying(p)' /\ Removing(p)' /\ Writing(p)'
  BY <1>4, <1>6 DEF Copying, Removing, Writing
<1> QED BY <1>1, <1>7, <1>8, <1>9, <1>10, <1>11 DEF Tidy

---------------------------------------------------------------------------
(* The invariant and the theorems about it. *)

LEMMA InitTidy == Init => TidyInv
<1> SUFFICES ASSUME Init, NEW p \in Procs PROVE Tidy(p)
  BY InitInv DEF TidyInv
<1>1. proc[p].pc = "idle" /\ manifest.files = {} /\ manifest.state = "absent"
  BY Records DEF Init, NoManifest
<1>2. Standing(p) /\ ~Updating(p)
  BY <1>1 DEF Standing, Updating
<1>3. Accounted(p)
  BY PackAssumption DEF Init, Accounted
<1>4. Kinds(p)
  <2> SUFFICES ASSUME NEW j \in Packs
               PROVE  pack[j].kind \in {"absent", "whole", "mismatched"}
    BY <1>1 DEF Kinds
  <2>1. CASE j \in Local
    BY <2>1 DEF Init, Kind
  <2>2. CASE j \notin Local
    BY <2>2 DEF Init, NoPack
  <2> QED BY <2>1, <2>2
<1>5. Behind
  BY DEF Init, Behind, Here, NoPack
<1>6. Copying(p) /\ Removing(p) /\ Writing(p)
  BY <1>1, <1>2 DEF Copying, Removing, Writing
<1> QED BY <1>1, <1>2, <1>3, <1>4, <1>5, <1>6 DEF Tidy

LEMMA NextTidy ==
    ASSUME OneProcess, Faults = {}, Malformed = {}, NoneDropped
    PROVE  TidyInv /\ [Next]_vars => TidyInv'
<1> SUFFICES ASSUME TidyInv, [Next]_vars, NEW p \in Procs PROVE Tidy(p)'
  BY NextInv DEF TidyInv
<1>1. \A q \in Procs : q = p
  BY DEF OneProcess
<1>2. CASE CommandBegins(p)
  BY <1>2, TidyInit, TidyCalls DEF CommandBegins
<1>3. CASE CommandStep(p)
  BY <1>3, TidyDecide, TidyWrite, TidySkip, NoStumble, TidyMerge, NoCollision, TidyCopyBegins,
     TidyCopyEnds, TidyStamp, TidyVerify, TidySwapOut, TidyResync, TidyConfirm, TidyCancel,
     TidyRemove, TidyRemovePack, TidyDrop, TidyPush, TidyWriteBack
     DEF CommandStep
<1>4. CASE \/ \E k \in Packs : Release(k)
           \/ \E d \in Places : Edit(d) \/ Delete(d)
  BY <1>4, TidyOutside
<1>5. CASE UNCHANGED vars
  <2>1. Tidy(p) /\ UNCHANGED <<upstream, pack, file, manifest, proc>>
    BY <1>5 DEF vars, TidyInv
  <2>2. Behind' /\ Kinds(p)' /\ Copying(p)'
    BY <2>1 DEF Tidy, Behind, Kinds, Copying, Here, Updating
  <2>3. Standing(p)' /\ Accounted(p)'
    BY <2>1 DEF Tidy, Standing, Accounted, Dir, Updating, Provides, PackOf, InHand,
       OnRecord, Installed
  <2>4. Removing(p)' /\ Writing(p)'
    BY <2>1 DEF Tidy, Removing, Writing, Provides, PackOf
  <2> QED BY <2>1, <2>2, <2>3, <2>4 DEF Tidy
<1>6. ~Fail(p) /\ ~Crash(p)
  BY DEF Fail, Crash
<1> QED BY <1>1, <1>2, <1>3, <1>4, <1>5, <1>6 DEF Next

(* FR-705, CON-1203: where one command runs at a time and none fails, every *)
(* release can be installed and drops no skill, manifest and disk agree     *)
(* between commands, whatever the user edits and deletes.                   *)
THEOREM DiskOnRecord ==
    ASSUME OneProcess, Faults = {}, Malformed = {}, NoneDropped
    PROVE  Spec => []ManifestMatchesDisk
<1>1. TidyInv /\ [Next]_vars => TidyInv'
  BY NextTidy
<1>2. TidyInv => ManifestMatchesDisk
  <2> SUFFICES ASSUME TidyInv, AtRest
               PROVE  /\ \A d \in Places : file[d] \in Shipped =>
                            Installed(d) \in manifest.files
                      /\ \A e \in manifest.files : pack[PackOf(e)].kind # "absent"
    BY DEF ManifestMatchesDisk, Installed
  <2>1. PICK p \in Procs : proc[p].pc = "idle" /\ Tidy(p)
    BY DEF OneProcess, TidyInv, AtRest
  <2>2. ~Updating(p)
    BY <2>1 DEF Updating
  <2> QED BY <2>1, <2>2 DEF Tidy, Accounted, OnRecord, Standing, Dir, Provides
<1> QED BY <1>1, <1>2, InitTidy, PTL DEF Spec

(* FR-706b: under the same conditions `locally modified` is said only of a  *)
(* file the user wrote, and in the middle of a command as well.             *)
THEOREM SkipsAreEdits ==
    ASSUME OneProcess, Faults = {}, Malformed = {}, NoneDropped
    PROVE  Spec => []SkipMeansEdit
<1>1. TidyInv /\ [Next]_vars => TidyInv'
  BY NextTidy
<1>2. TidyInv => SkipMeansEdit
  BY Skipped DEF SkipMeansEdit
<1> QED BY <1>1, <1>2, InitTidy, PTL DEF Spec
=============================================================================
