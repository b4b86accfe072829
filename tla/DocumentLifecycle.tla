-------------------------- MODULE DocumentLifecycle --------------------------
(***************************************************************************)
(* What the ingestion service promises the rest of the program about a     *)
(* document: the status a reader may find on its PDFDocument record, and   *)
(* whether the text of all its pages can be read back as chunks.           *)
(*                                                                         *)
(* Summary, diff and trend only look at the status, so the promise they    *)
(* live on is the guard of Finish: a status is moved to "completed" only   *)
(* when the whole text is already in the store, and text that has reached  *)
(* the store stays there.  Module Ingestion implements this specification. *)
(***************************************************************************)

CONSTANTS
    Documents,   \* the document ids
    Textless     \* those whose pages hold no extractable text

VARIABLES
    status,      \* PDFDocument.status; "absent" while there is no record
    indexed      \* the documents whose whole text is in the chunk store

lifecycle == <<status, indexed>>

Present(d) == status[d] # "absent"

SetStatus(d, s) == status' = [status EXCEPT ![d] = s]

Init ==
    /\ status = [d \in Documents |-> "absent"]
    /\ indexed = Textless

(* An upload creates the record. *)
Register(d) ==
    /\ ~Present(d)
    /\ SetStatus(d, "uploaded")
    /\ UNCHANGED indexed

(* An ingestion announces itself, whatever the record said before: a        *)
(* completed document may be ingested again.                                *)
Begin(d) ==
    /\ Present(d)
    /\ SetStatus(d, "ingesting")
    /\ UNCHANGED indexed

(* The last missing piece of the text of d reaches the store. *)
Index(d) ==
    /\ Present(d)
    /\ indexed' = indexed \cup {d}
    /\ UNCHANGED status

(* An ingestion reports success: only once the text is all there. *)
Finish(d) ==
    /\ Present(d)
    /\ d \in indexed
    /\ SetStatus(d, "completed")
    /\ UNCHANGED indexed

(* An ingestion reports failure; the text stored so far stays. *)
Abort(d) ==
    /\ Present(d)
    /\ SetStatus(d, "failed")
    /\ UNCHANGED indexed

Next == \E d \in Documents :
            Register(d) \/ Begin(d) \/ Index(d) \/ Finish(d) \/ Abort(d)

Spec == Init /\ [][Next]_lifecycle
=============================================================================
