---------------------------- MODULE ArtifactBoard ----------------------------
(***************************************************************************)
(* ArtifactBoardSync.sync as a function of the board, a list of references *)
(* to artifacts, and the files: what it finds consistent, what it takes    *)
(* over from a file, what is missing and what no reference is to.          *)
(*                                                                         *)
(* A date is the figures that strftime shows, and a text in a file has a   *)
(* form as well: "utc" is just what strftime writes, fromisoformat reads   *)
(* "local" too (an offset, fractions, only a day), not "other", and YAML   *)
(* makes a date of "unquoted" before sync sees it.                         *)
(***************************************************************************)
EXTENDS Naturals, Sequences, SequencesExt

CONSTANTS
    Paths,      \* of artifacts
    Documents   \* those that *.md under docs/ finds

ASSUME BoardAssumption == Documents \subseteq Paths

ArtifactStatus == {"draft", "review", "approved", "archived"}

NoDate == [figures |-> 0, form |-> "none"]
DateText == {NoDate} \cup
    [figures : Nat \ {0}, form : {"utc", "local", "other", "unquoted"}]

(* date is updated_at, 0 if there is none. *)
Reference == [path : Paths, status : ArtifactStatus, date : Nat]
Artifact  == [status : STRING, date : DateText]
Absent    == [absent |-> TRUE]
Garbled   == [garbled |-> TRUE]    \* no front matter, or none that is YAML
Disk      == [Paths -> Artifact \cup {Absent, Garbled}]

(* _calculate_board_hash hashes the status and this. *)
Shown(date) == IF date = 0 THEN NoDate ELSE [figures |-> date, form |-> "utc"]
SameHash(a, f) == a.status = f.status /\ Shown(a.date) = f.date

(* What sync makes of a reference; reading an unquoted date raises.        *)
Verdict(a, disk) ==
    LET f == disk[a.path] IN
    CASE f \in {Absent, Garbled}     -> "orphaned"
      [] f.date.form = "unquoted"    -> "raises"
      [] SameHash(a, f)              -> "consistent"
      [] OTHER                       -> "board_updated"

(* Seeded fault: a reference keeps its date. *)
FromFile_Status(a, f) ==
    [a EXCEPT !.status = IF f.status \in ArtifactStatus THEN f.status ELSE "draft"]

(* _update_artifact_from_file: what it cannot read stays, or is a draft.   *)
FromFile(a, f) ==
    [a EXCEPT !.status = IF f.status \in ArtifactStatus THEN f.status ELSE "draft",
              !.date   = IF f.date.form \in {"utc", "local"} THEN f.date.figures ELSE @]

PathsOf(board) == {board[n].path : n \in DOMAIN board}

(* Reference after reference, each goes to the end of its verdict's list.  *)
Those(verdict, board, disk) ==
    LET upto[n \in 0 .. Len(board)] ==
            IF n = 0 THEN <<>>
            ELSE IF Verdict(board[n], disk) = verdict THEN Append(upto[n - 1], board[n])
            ELSE upto[n - 1]
    IN upto[Len(board)]

Synced(board, disk) ==
    LET changed == Those("board_updated", board, disk)
    IN [consistent |-> Those("consistent", board, disk),
        updated    |-> [n \in DOMAIN changed |-> FromFile(changed[n], disk[changed[n].path])],
        orphaned   |-> Those("orphaned", board, disk),
        untracked  |-> {p \in Documents \ PathsOf(board) : disk[p] # Absent}]

Raises(board, disk) == \E n \in DOMAIN board : Verdict(board[n], disk) = "raises"

(* sync-log.json is written anew for every artifact, so it ends up with    *)
(* the last: an untracked one, whichever rglob comes to last, or the last  *)
(* of the board before the one that raised.                                *)
Logged(board, disk) ==
    LET done == IF Raises(board, disk)
                THEN SelectInSeq(board, LAMBDA a : Verdict(a, disk) = "raises") - 1
                ELSE Len(board)
        last == board[done]
    IN IF ~Raises(board, disk) /\ Synced(board, disk).untracked # {}
       THEN {[path |-> p, action |-> "untracked"] : p \in Synced(board, disk).untracked}
       ELSE IF done = 0 THEN {}
       ELSE {[path |-> last.path, action |-> Verdict(last, disk)]}
=============================================================================
