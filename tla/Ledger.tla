------------------------------- MODULE Ledger -------------------------------
(***************************************************************************)
(* What the head of a session promises its readers: a ledger of revisions. *)
(* A revision is content, identities and authored notes that change        *)
(* together in one step or not at all; the last Cap contents stay readable *)
(* by number, and whoever pins a revision keeps what it read.  There is no *)
(* transaction here: no overlay, engine, sidecar, failure or rollback.     *)
(***************************************************************************)
EXTENDS Naturals

CONSTANTS
    Contents,     \* what a revision may hold as content
    Identities,   \* ... as identities
    Notes,        \* ... as authored notes
    Blank,        \* the empty revision: content, identities and notes
    Cap           \* how many contents stay readable by revision number

VARIABLES
    status,     \* "closed", "opening" or "open"
    revision,   \* the number of the current revision
    current,    \* the current revision: content, identities and notes
    kept,       \* revision number -> content, for the last Cap revisions
    pins        \* what readers hold

ledger == <<status, revision, current, kept, pins>>

Revisions == [content : Contents, ids : Identities, notes : Notes]

Init ==
    /\ status = "closed" /\ revision = 0 /\ current = Blank
    /\ kept = [r \in {} |-> Blank.content] /\ pins = {}

(* The window after revision r with content c has been added to w. *)
Slides(w, r, c, next) ==
    /\ DOMAIN next = {k \in DOMAIN w \cup {r} : k + Cap > r}
    /\ \A k \in DOMAIN next : next[k] = IF k = r THEN c ELSE w[k]

(* A new ledger begins: the empty revision 0, then what was found as revision 1. *)
Start ==
    /\ status = "closed" /\ status' = "opening"
    /\ revision' = 1
    /\ current' \in Revisions /\ current'.notes = Blank.notes
    /\ Slides([r \in {0} |-> Blank.content], 1, current'.content, kept')
    /\ pins' \subseteq pins

(* The notes of earlier ledgers are read back. *)
Recover ==
    /\ status = "opening" /\ status' = "open"
    /\ current' \in Revisions
    /\ current'.content = current.content /\ current'.ids = current.ids
    /\ UNCHANGED <<revision, kept, pins>>

(* The next revision: a change of content and identities, or of the notes. *)
Commit ==
    /\ status = "open"
    /\ revision' = revision + 1
    /\ current' \in Revisions
    /\ \/ current'.notes = current.notes
       \/ current'.content = current.content /\ current'.ids = current.ids
    /\ Slides(kept, revision', current'.content, kept')
    /\ UNCHANGED <<status, pins>>

(* The notes in memory are dropped. *)
Forget ==
    /\ status = "open"
    /\ current' = [current EXCEPT !.notes = Blank.notes]
    /\ UNCHANGED <<status, revision, kept, pins>>

(* A reader pins the current revision, or the content of one that is kept. *)
Pinned(r, content, head) ==
    [rev |-> r, gen |-> content, reg |-> current.ids, authored |-> current.notes,
     head |-> head]
Pin ==
    /\ status = "open"
    /\ \/ pins' = pins \cup {Pinned(revision, current.content, TRUE)}
       \/ \E r \in DOMAIN kept : pins' = pins \cup {Pinned(r, kept[r], FALSE)}
    /\ UNCHANGED <<status, revision, current, kept>>

Release ==
    /\ pins' \subseteq pins
    /\ UNCHANGED <<status, revision, current, kept>>

(* The session ends or dies; nothing of the ledger but its readers' pins is left. *)
Stop ==
    /\ status' = "closed" /\ revision' = 0 /\ current' = Blank
    /\ kept' = [r \in {} |-> Blank.content] /\ pins' \subseteq pins

Next == Start \/ Recover \/ Commit \/ Forget \/ Pin \/ Release \/ Stop

Spec == Init /\ [][Next]_ledger
=============================================================================
