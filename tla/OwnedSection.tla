---------------------------- MODULE OwnedSection ----------------------------
(***************************************************************************)
(* What `garage sync` promises about the marked section of a context file: *)
(* between runs the section is the user's, to edit or to delete; a run     *)
(* that has a file open may put a generated section there (or lose one, if *)
(* it is interrupted), but an edit only falls to a run the user forced.    *)
(* Which runs exist, what they remember and when they stop is no part of   *)
(* the promise.                                                            *)
(***************************************************************************)
CONSTANTS Places, Contents, UserTexts, None

VARIABLES
    text,       \* the section of every file: generated, edited, or none
    open,       \* the files some run has decided to write
    override    \* the files some forced run has decided to write

Init == /\ text = [d \in Places |-> None]
        /\ open = {}
        /\ override = {}

Write(d) ==
    /\ d \in open
    /\ text[d] \in UserTexts => d \in override
    /\ \E x \in Contents \cup {None} : text' = [text EXCEPT ![d] = x]

UserEdit(d) ==
    /\ d \notin open
    /\ \E x \in UserTexts \cup {None} : text' = [text EXCEPT ![d] = x]

Next ==
    /\ open' \in SUBSET Places
    /\ override' \in SUBSET open'
    /\ \/ UNCHANGED text
       \/ \E d \in Places : Write(d) \/ UserEdit(d)

Spec == Init /\ [][Next]_<<text, open, override>>
=============================================================================
