----------------------------- MODULE ContentStore -----------------------------
(***************************************************************************)
(* What the upload endpoints promise about content, without requests,      *)
(* transactions, row locks or names: each upload is published once, in one *)
(* step that also says which object stands for its content.  That object   *)
(* is the first one published and stays so; the others are duplicates and  *)
(* may go at any time.  Only undoing an upload can take an object that     *)
(* stands for content.                                                     *)
(***************************************************************************)
EXTENDS Naturals, FiniteSets

CONSTANTS Sessions, NoSession, Contents, Content

VARIABLES
    session,    \* of an upload
    objects,
    home,       \* the object that stands for a content
    undone,     \* uploads that were undone
    references

storeVars == <<session, objects, home, undone, references>>

Init ==
    /\ session = [s \in Sessions |-> "NONE"]
    /\ objects = {} /\ undone = {}
    /\ home = [c \in Contents |-> NoSession]
    /\ references = [c \in Contents |-> 0]

Becomes(s, from, to) ==
    /\ session[s] = from
    /\ session' = [session EXCEPT ![s] = to]

Write(s) ==
    /\ session[s] = "NONE"
    /\ objects' = objects \cup {s}
    /\ UNCHANGED <<session, home, undone, references>>

\* An upload is opened or given up when its object is there; it can expire.
Turn(s) ==
    /\ \/ s \in objects /\ Becomes(s, "NONE", "UPLOADED")
       \/ s \in objects /\ Becomes(s, "NONE", "ABANDONED")
       \/ Becomes(s, "UPLOADED", "EXPIRED")
    /\ UNCHANGED <<objects, home, undone, references>>

Publish(s) ==
    /\ Becomes(s, "UPLOADED", "FINALIZED")
    /\ s \in objects \cup undone
    /\ home' = [home EXCEPT ![Content[s]] =
           IF home[Content[s]] = NoSession THEN s ELSE home[Content[s]]]
    /\ references' = [references EXCEPT ![Content[s]] =
           references[Content[s]] + 1]
    /\ UNCHANGED <<objects, undone>>

RemoveDuplicate(s) ==
    /\ session[s] = "FINALIZED" /\ home[Content[s]] # s
    /\ objects' = objects \ {s}
    /\ UNCHANGED <<session, home, undone, references>>

Undo(s) ==
    /\ session[s] \notin {"NONE", "ABANDONED"}
    /\ objects' = objects \ {s}
    /\ undone' = undone \cup {s}
    /\ UNCHANGED <<session, home, references>>

\* A reconciliation writes a number of versions there were at some time.
Recount(c) ==
    /\ \E n \in 1..Cardinality({s \in Sessions :
                        session[s] = "FINALIZED" /\ Content[s] = c}) :
           references' = [references EXCEPT ![c] = n]
    /\ UNCHANGED <<session, objects, home, undone>>

Next ==
    \/ \E s \in Sessions :
          Write(s) \/ Turn(s) \/ Publish(s) \/ RemoveDuplicate(s) \/ Undo(s)
    \/ \E c \in Contents : Recount(c)

Spec == Init /\ [][Next]_storeVars

==============================================================================
