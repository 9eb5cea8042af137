------------------------------- MODULE Journal -------------------------------
(***************************************************************************)
(* What the event journal promises, without saying how.                    *)
(*                                                                         *)
(* Every business operation of the IAM service leaves events.  They are    *)
(* first kept locally (the MongoDB collection "events") and are owed to    *)
(* the probative journal of VITAM; the local copy of an event may be       *)
(* dropped, but only once VITAM holds the event.                           *)
(***************************************************************************)
CONSTANT Event

VARIABLES submitted,  \* events of the committed transactions
          kept,       \* events whose local copy still exists
          journaled   \* events VITAM holds

vars == <<submitted, kept, journaled>>

TypeOK ==
  /\ submitted \subseteq Event
  /\ kept \subseteq submitted
  /\ journaled \subseteq submitted

Init ==
  /\ submitted = {}
  /\ kept = {}
  /\ journaled = {}

\* A transaction commits new events.
Submit(S) ==
  /\ S # {}
  /\ S \cap submitted = {}
  /\ submitted' = submitted \cup S
  /\ kept' = kept \cup S
  /\ UNCHANGED journaled

\* VITAM records events it was sent.
Record(S) ==
  /\ S \subseteq submitted
  /\ ~ (S \subseteq journaled)
  /\ journaled' = journaled \cup S
  /\ UNCHANGED <<submitted, kept>>

\* The local copy of an event VITAM holds is dropped.
Forget(e) ==
  /\ e \in kept \cap journaled
  /\ kept' = kept \ {e}
  /\ UNCHANGED <<submitted, journaled>>

Next ==
  \/ \E S \in SUBSET Event : Submit(S) \/ Record(S)
  \/ \E e \in Event : Forget(e)

Spec == Init /\ [][Next]_vars
==============================================================================
