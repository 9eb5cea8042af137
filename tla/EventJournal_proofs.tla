------------------------- MODULE EventJournal_proofs -------------------------
(***************************************************************************)
(* Theorems about the outbox, for every set of events, requests and        *)
(* instances and every delay.                                              *)
(***************************************************************************)
EXTENDS EventJournal, TLAPS

USE EventsAssumption, InstancesAssumption, DelaysAssumption

\* What it is for VITAM to hold an event.
LEMMA JournaledMember ==
  ASSUME NEW e
  PROVE  e \in Journaled <=> \E m \in Event : e \in operation[m]
BY DEF Journaled

\* The steps that leave the operations of VITAM alone leave Journaled alone.
LEMMA JournaledUnchanged ==
  ASSUME UNCHANGED operation
  PROVE  Journaled' = Journaled
BY DEF Journaled

\* Only a commit changes the submitted events.
LEMMA SubmittedUnchanged ==
  ASSUME UNCHANGED committed
  PROVE  Submitted' = Submitted
BY DEF Submitted

\* Only a change of status changes what the collection holds.
LEMMA StoredUnchanged ==
  ASSUME UNCHANGED status
  PROVE  Stored' = Stored
BY DEF Stored

\* What VITAM records is added to what it holds.
LEMMA JournaledGrows ==
  ASSUME TypeOK, NEW g \in SUBSET Event, VitamRecords(g)
  PROVE  Journaled' = Journaled \cup g
<1>1. PICK m \in g : operation[m] = {} /\ operation' = [operation EXCEPT ![m] = g]
  BY DEF VitamRecords
<1>2. operation \in [Event -> SUBSET Event]
  BY DEF TypeOK
<1>3. operation'[m] = g /\ \A n \in Event \ {m} : operation'[n] = operation[n]
  BY <1>1, <1>2
<1>4. ASSUME NEW x PROVE x \in Journaled' <=> x \in Journaled \cup g
  <2>1. x \in Journaled' <=> \E n \in Event : x \in operation'[n]
    BY DEF Journaled
  <2>2. x \in Journaled <=> \E n \in Event : x \in operation[n]
    BY JournaledMember
  <2> QED BY <1>1, <1>3, <2>1, <2>2
<1> QED BY <1>4

\* The groups of a run are groups of eligible events.
LEMMA GroupsAreElligible ==
  ASSUME NEW g \in GroupsByRequest(ElligibleToBeSent)
  PROVE  /\ g # {}
         /\ g \subseteq ElligibleToBeSent
         /\ \E r \in Request : g = EventsOf(r) \cap ElligibleToBeSent
BY DEF GroupsByRequest

-------------------------------------------------------------------------------
(* Type correctness *)

\* The events a transaction writes.
Written(t) == {e \in Event : TransactionOf[e] = t}

\* The initial state is well typed.
LEMMA InitTypeOK == Init => TypeOK
<1> SUFFICES ASSUME Init PROVE TypeOK
  OBVIOUS
<1> 0 \in 0..Oldest /\ 0 \in 0..MaxTorn /\ 0 \in 0..MaxCrashes
  BY DEF Oldest
<1> QED BY DEF Init, TypeOK

\* A call to VITAM keeps the types, whatever its answer.
LEMMA SendTypeOK ==
  ASSUME TypeOK, NEW i \in Instance, SendToVitam(i)
  PROVE  TypeOK'
<1>1. PICK g \in todo[i] :
        \/ ConversionFails(i, g) \/ CallCreated(i, g) \/ CallAnswerLost(i, g)
        \/ CallConflict(i, g) \/ CallFails(i, g)
  BY DEF SendToVitam
<1>2. g \in SUBSET Event
  BY DEF TypeOK
<1>3. operation' \in [Event -> SUBSET Event]
  <2>1. CASE VitamRecords(g)
    BY <1>2, <2>1 DEF VitamRecords, TypeOK
  <2>2. CASE UNCHANGED operation
    BY <2>2 DEF TypeOK
  <2> QED BY <1>1, <2>1, <2>2 DEF ConversionFails, CallCreated, CallAnswerLost, CallConflict, CallFails
<1>4. \E result \in {"SUCCESS", "ERROR"} : Sent(i, g, result)
  BY <1>1 DEF ConversionFails, CallCreated, CallAnswerLost, CallConflict, CallFails
<1> QED BY <1>2, <1>3, <1>4 DEF Sent, TypeOK

\* So does the write of its outcome, whole or partial.
LEMMA UpdateTypeOK ==
  ASSUME TypeOK, NEW i \in Instance, UpdateEventStatus(i)
  PROVE  TypeOK'
<1>1. PICK reached \in SUBSET group[i] :
        /\ \/ reached = group[i] /\ UNCHANGED torn
           \/ reached # group[i] /\ torn < MaxTorn /\ torn' = torn + 1
        /\ status' = [e \in Event |->
              IF e \in reached /\ e \in Stored THEN outcome[i] ELSE status[e]]
        /\ age' = [e \in Event |-> IF e \in reached THEN 0 ELSE age[e]]
  BY DEF UpdateEventStatus
<1>2. torn' \in 0..MaxTorn
  BY <1>1 DEF TypeOK
<1>3. status' \in [Event -> {"absent", "CREATED", "SUCCESS", "ERROR"}]
  BY <1>1 DEF TypeOK
<1>4. age' \in [Event -> 0..Oldest]
  BY <1>1 DEF TypeOK, Oldest
<1> QED BY <1>2, <1>3, <1>4 DEF UpdateEventStatus, TypeOK

\* And every step.
LEMMA NextTypeOK == TypeOK /\ [Next]_vars => TypeOK'
<1> SUFFICES ASSUME TypeOK, [Next]_vars PROVE TypeOK'
  OBVIOUS
<1>1. ASSUME NEW t \in Transaction, Commit(t) PROVE TypeOK'
  BY <1>1 DEF Commit, TypeOK
<1>2. ASSUME NEW i \in Instance, StartRun(i) PROVE TypeOK'
  <2>1. GroupsByRequest(ElligibleToBeSent) \in SUBSET SUBSET Event
    BY DEF GroupsByRequest, ElligibleToBeSent
  <2> QED BY <1>2, <2>1 DEF StartRun, TypeOK
<1>3. ASSUME NEW i \in Instance, SendToVitam(i) PROVE TypeOK'
  BY <1>3, SendTypeOK
<1>4. ASSUME NEW i \in Instance, UpdateEventStatus(i) PROVE TypeOK'
  BY <1>4, UpdateTypeOK
<1>5. ASSUME NEW i \in Instance, StartDeletion(i) PROVE TypeOK'
  <2>1. ElligibleToBeDeleted \in SUBSET Event
    BY DEF ElligibleToBeDeleted
  <2> QED BY <1>5, <2>1 DEF StartDeletion, TypeOK
<1>6. ASSUME NEW i \in Instance, DeleteById(i) PROVE TypeOK'
  <2>1. 0 \in 0..Oldest
    BY DEF Oldest
  <2> QED BY <1>6, <2>1 DEF DeleteById, TypeOK
<1>7. ASSUME NEW i \in Instance, Crash(i) PROVE TypeOK'
  BY <1>7 DEF Crash, TypeOK
<1>8. CASE Tick
  <2>1. age' \in [Event -> 0..Oldest]
    BY <1>8 DEF Tick, TypeOK, Oldest
  <2> QED BY <1>8, <2>1 DEF Tick, TypeOK
<1>9. CASE UNCHANGED vars
  BY <1>9 DEF vars, TypeOK
<1> QED BY <1>1, <1>2, <1>3, <1>4, <1>5, <1>6, <1>7, <1>8, <1>9 DEF Next

\* The variables keep their types in every behaviour.
THEOREM TypeCorrect == Spec => []TypeOK
<1> QED BY InitTypeOK, NextTypeOK, PTL DEF Spec

-------------------------------------------------------------------------------
(* The outbox never loses an event *)

\* The collection and VITAM are empty at first.
LEMMA InitOutboxInv == Init => OutboxInv
<1> SUFFICES ASSUME Init PROVE OutboxInv
  OBVIOUS
<1>1. Journaled = {} /\ Stored = {} /\ Submitted = {}
  BY DEF Init, Journaled, Stored, Submitted
<1> QED BY <1>1, InitTypeOK DEF Init, OutboxInv, SuccessIsTrue, NoLoss

\* A committed transaction adds its events to the collection and to Submitted.
LEMMA CommitOutboxInv ==
  ASSUME OutboxInv, NEW t \in Transaction, Commit(t), TypeOK'
  PROVE  OutboxInv'
<1>1. Journaled' = Journaled
  BY JournaledUnchanged DEF Commit
<1>2. Submitted' = Submitted \cup Written(t)
  BY DEF Commit, Submitted, Written
<1>3. Stored' = Stored \cup Written(t)
  BY DEF Commit, Stored, Written, OutboxInv, TypeOK
<1>4. SuccessIsTrue'
  BY <1>1 DEF Commit, SuccessIsTrue, OutboxInv, TypeOK
<1>5. NoLoss'
  BY <1>1, <1>2, <1>3 DEF NoLoss, OutboxInv
<1>6. /\ Stored' \subseteq Submitted'
      /\ Journaled' \subseteq Submitted'
  BY <1>1, <1>2, <1>3 DEF OutboxInv
<1>7. ASSUME NEW i \in Instance
      PROVE  /\ group'[i] \subseteq Submitted'
             /\ \A g \in todo'[i] : g \subseteq Submitted'
             /\ outcome'[i] = "SUCCESS" => group'[i] \subseteq Journaled'
  BY <1>1, <1>2 DEF Commit, OutboxInv
<1> QED BY <1>4, <1>5, <1>6, <1>7 DEF OutboxInv

\* A call to VITAM: only CallCreated promises a SUCCESS, and it has recorded.
LEMMA SendOutboxInv ==
  ASSUME OutboxInv, NEW i \in Instance, SendToVitam(i), TypeOK'
  PROVE  OutboxInv'
<1>1. PICK g \in todo[i] :
        \/ ConversionFails(i, g) \/ CallCreated(i, g) \/ CallAnswerLost(i, g)
        \/ CallConflict(i, g) \/ CallFails(i, g)
  BY DEF SendToVitam
<1>2. g \in SUBSET Event /\ g \subseteq Submitted /\ TypeOK
  BY DEF OutboxInv, TypeOK
<1>3. PICK result \in {"SUCCESS", "ERROR"} :
        Sent(i, g, result) /\ (result = "SUCCESS" => VitamRecords(g))
  BY <1>1 DEF ConversionFails, CallCreated, CallAnswerLost, CallConflict, CallFails
<1>4. Submitted' = Submitted /\ Stored' = Stored
  BY <1>3 DEF Sent, Submitted, Stored
<1>5. /\ Journaled \subseteq Journaled'
      /\ Journaled' \subseteq Submitted
      /\ result = "SUCCESS" => g \subseteq Journaled'
  <2>1. CASE VitamRecords(g)
    <3>1. Journaled' = Journaled \cup g
      BY <1>2, <2>1, JournaledGrows
    <3> QED BY <1>2, <3>1 DEF OutboxInv
  <2>2. CASE UNCHANGED operation /\ result = "ERROR"
    BY <2>2, JournaledUnchanged DEF OutboxInv
  <2>3. VitamRecords(g) \/ UNCHANGED operation
    BY <1>1 DEF ConversionFails, CallCreated, CallAnswerLost, CallConflict, CallFails
  <2> QED BY <1>3, <2>1, <2>2, <2>3
<1>6. SuccessIsTrue'
  BY <1>3, <1>5 DEF Sent, SuccessIsTrue, OutboxInv
<1>7. NoLoss'
  BY <1>4, <1>5 DEF NoLoss, OutboxInv
<1>8. ASSUME NEW j \in Instance
      PROVE  /\ group'[j] \subseteq Submitted'
             /\ \A h \in todo'[j] : h \subseteq Submitted'
             /\ outcome'[j] = "SUCCESS" => group'[j] \subseteq Journaled'
  <2>1. CASE j = i
    BY <1>2, <1>3, <1>4, <1>5, <2>1 DEF Sent, OutboxInv, TypeOK
  <2>2. CASE j # i
    BY <1>2, <1>3, <1>4, <1>5, <2>2 DEF Sent, OutboxInv, TypeOK
  <2> QED BY <2>1, <2>2
<1> QED BY <1>4, <1>5, <1>6, <1>7, <1>8 DEF OutboxInv

\* Writing the outcome: a SUCCESS is written on journaled events only.
LEMMA UpdateOutboxInv ==
  ASSUME OutboxInv, NEW i \in Instance, UpdateEventStatus(i), TypeOK'
  PROVE  OutboxInv'
<1>1. PICK reached \in SUBSET group[i] :
        status' = [e \in Event |->
              IF e \in reached /\ e \in Stored THEN outcome[i] ELSE status[e]]
  BY DEF UpdateEventStatus
<1>2. TypeOK
  BY DEF OutboxInv
<1>3. Journaled' = Journaled /\ Submitted' = Submitted
  BY DEF UpdateEventStatus, Journaled, Submitted
<1>4. \A e \in Event : status'[e] = IF e \in reached /\ e \in Stored THEN outcome[i] ELSE status[e]
  BY <1>1
<1>5. outcome[i] \in {"SUCCESS", "ERROR"}
  BY <1>2 DEF TypeOK
<1>6. Stored' = Stored
  BY <1>4, <1>5 DEF Stored
<1>7. SuccessIsTrue'
  <2> SUFFICES ASSUME NEW e \in Event,
                      status'[e] = "SUCCESS" \/ \E j \in Instance : e \in doomed'[j]
               PROVE  e \in Journaled
    BY <1>3 DEF SuccessIsTrue
  <2>1. CASE e \in reached /\ outcome[i] = "SUCCESS"
    BY <2>1 DEF OutboxInv
  <2>2. CASE status[e] = "SUCCESS" \/ \E j \in Instance : e \in doomed[j]
    BY <2>2 DEF OutboxInv, SuccessIsTrue
  <2> QED BY <1>4, <2>1, <2>2 DEF UpdateEventStatus
<1>8. NoLoss'
  BY <1>3, <1>6 DEF NoLoss, OutboxInv
<1>9. ASSUME NEW j \in Instance
      PROVE  /\ group'[j] \subseteq Submitted'
             /\ \A h \in todo'[j] : h \subseteq Submitted'
             /\ outcome'[j] = "SUCCESS" => group'[j] \subseteq Journaled'
  BY <1>2, <1>3 DEF UpdateEventStatus, OutboxInv, TypeOK
<1> QED BY <1>3, <1>6, <1>7, <1>8, <1>9 DEF OutboxInv

\* A deletion only drops events VITAM holds.
LEMMA DeleteOutboxInv ==
  ASSUME OutboxInv, NEW i \in Instance, DeleteById(i), TypeOK'
  PROVE  OutboxInv'
<1>1. PICK e \in doomed[i] :
        /\ status' = [status EXCEPT ![e] = "absent"]
        /\ doomed' = [doomed EXCEPT ![i] = @ \ {e}]
  BY DEF DeleteById
<1>2. TypeOK /\ e \in Event
  BY DEF OutboxInv, TypeOK
<1>3. Journaled' = Journaled /\ Submitted' = Submitted
  BY DEF DeleteById, Journaled, Submitted
<1>4. e \in Journaled
  BY <1>2 DEF OutboxInv, SuccessIsTrue
<1>5. Stored' = Stored \ {e}
  BY <1>1, <1>2 DEF Stored, TypeOK
<1>6. SuccessIsTrue'
  BY <1>1, <1>2, <1>3 DEF SuccessIsTrue, OutboxInv, TypeOK
<1>7. NoLoss'
  BY <1>3, <1>4, <1>5 DEF NoLoss, OutboxInv
<1>8. ASSUME NEW j \in Instance
      PROVE  /\ group'[j] \subseteq Submitted'
             /\ \A h \in todo'[j] : h \subseteq Submitted'
             /\ outcome'[j] = "SUCCESS" => group'[j] \subseteq Journaled'
  BY <1>3 DEF DeleteById, OutboxInv
<1> QED BY <1>3, <1>5, <1>6, <1>7, <1>8 DEF OutboxInv

\* The invariant of the outbox is inductive.
LEMMA NextOutboxInv == OutboxInv /\ [Next]_vars => OutboxInv'
<1> SUFFICES ASSUME OutboxInv, [Next]_vars PROVE OutboxInv'
  OBVIOUS
<1>1. TypeOK /\ TypeOK'
  BY NextTypeOK DEF OutboxInv
<1>2. ASSUME NEW t \in Transaction, Commit(t) PROVE OutboxInv'
  BY <1>1, <1>2, CommitOutboxInv
<1>3. ASSUME NEW i \in Instance, SendToVitam(i) PROVE OutboxInv'
  BY <1>1, <1>3, SendOutboxInv
<1>4. ASSUME NEW i \in Instance, UpdateEventStatus(i) PROVE OutboxInv'
  BY <1>1, <1>4, UpdateOutboxInv
<1>5. ASSUME NEW i \in Instance, DeleteById(i) PROVE OutboxInv'
  BY <1>1, <1>5, DeleteOutboxInv
<1>6. ASSUME NEW i \in Instance, StartRun(i) PROVE OutboxInv'
  <2>1. Journaled' = Journaled /\ Submitted' = Submitted /\ Stored' = Stored
    BY <1>6, JournaledUnchanged, SubmittedUnchanged, StoredUnchanged DEF StartRun
  <2>2. \A g \in GroupsByRequest(ElligibleToBeSent) : g \subseteq Submitted
    BY GroupsAreElligible DEF OutboxInv, ElligibleToBeSent, Stored
  <2>3. \A j \in Instance : \A g \in todo'[j] : g \subseteq Submitted'
    BY <1>1, <1>6, <2>1, <2>2 DEF StartRun, OutboxInv, TypeOK
  <2>4. SuccessIsTrue' /\ NoLoss'
    BY <1>6, <2>1 DEF StartRun, OutboxInv, SuccessIsTrue, NoLoss
  <2> QED BY <1>1, <1>6, <2>1, <2>3, <2>4 DEF StartRun, OutboxInv
<1>7. ASSUME NEW i \in Instance, StartDeletion(i) PROVE OutboxInv'
  <2>1. Journaled' = Journaled /\ Submitted' = Submitted /\ Stored' = Stored
    BY <1>7, JournaledUnchanged, SubmittedUnchanged, StoredUnchanged DEF StartDeletion
  <2>2. SuccessIsTrue'
    BY <1>1, <1>7, <2>1 DEF StartDeletion, ElligibleToBeDeleted, OutboxInv, SuccessIsTrue, TypeOK
  <2> QED BY <1>1, <1>7, <2>1, <2>2 DEF StartDeletion, OutboxInv, NoLoss
<1>8. ASSUME NEW i \in Instance, Crash(i) PROVE OutboxInv'
  <2>1. Journaled' = Journaled /\ Submitted' = Submitted /\ Stored' = Stored
    BY <1>8, JournaledUnchanged, SubmittedUnchanged, StoredUnchanged DEF Crash
  <2>2. SuccessIsTrue'
    BY <1>1, <1>8, <2>1 DEF Crash, OutboxInv, SuccessIsTrue, TypeOK
  <2> QED BY <1>1, <1>8, <2>1, <2>2 DEF Crash, OutboxInv, NoLoss, TypeOK
<1>9. CASE Tick \/ UNCHANGED vars
  <2>1. UNCHANGED <<committed, status, todo, group, outcome, doomed, operation>>
    BY <1>9 DEF Tick, vars
  <2>2. Journaled' = Journaled /\ Submitted' = Submitted /\ Stored' = Stored
    BY <2>1, JournaledUnchanged, SubmittedUnchanged, StoredUnchanged
  <2> QED BY <1>1, <2>1, <2>2 DEF OutboxInv, SuccessIsTrue, NoLoss
<1> QED BY <1>2, <1>3, <1>4, <1>5, <1>6, <1>7, <1>8, <1>9 DEF Next

\* What the tasks remember was committed, and an outcome SUCCESS not written yet
\* is about journaled events, with any number of primaries and of crashes.
THEOREM OutboxInvariant == Spec => []OutboxInv
<1> QED BY InitOutboxInv, NextOutboxInv, PTL DEF Spec

\* No committed event is ever lost, with any number of primaries, crashes and
\* partial updates.
THEOREM NothingLost == Spec => []NoLoss
<1>1. OutboxInv => NoLoss
  BY DEF OutboxInv
<1> QED BY <1>1, OutboxInvariant, PTL

\* A SUCCESS status, and a deletion, only concern events VITAM holds.
THEOREM SuccessTrue == Spec => []SuccessIsTrue
<1>1. OutboxInv => SuccessIsTrue
  BY DEF OutboxInv
<1> QED BY <1>1, OutboxInvariant, PTL

-------------------------------------------------------------------------------
(* The outbox implements the journal *)

\* The initial states of the outbox are those of the journal.
LEMMA InitJournal == Init => J!Init
BY DEF Init, J!Init, Submitted, Stored, Journaled

\* A committed transaction submits its events, or stutters when it has none.
LEMMA CommitJournal ==
  ASSUME OutboxInv, NEW t \in Transaction, Commit(t)
  PROVE  [J!Next]_(J!vars)
<1>1. Journaled' = Journaled
  BY JournaledUnchanged DEF Commit
<1>2. Submitted' = Submitted \cup Written(t) /\ Submitted \cap Written(t) = {}
  BY DEF Commit, Submitted, Written
<1>3. Stored' = Stored \cup Written(t)
  BY DEF Commit, Stored, Written, OutboxInv, TypeOK
<1>4. Written(t) \in SUBSET Event
  BY DEF Written
<1>5. CASE Written(t) = {}
  BY <1>1, <1>2, <1>3, <1>5 DEF J!vars
<1>6. CASE Written(t) # {}
  <2>1. J!Submit(Written(t))
    BY <1>1, <1>2, <1>3, <1>6 DEF J!Submit
  <2> QED BY <1>4, <2>1 DEF J!Next
<1> QED BY <1>5, <1>6

\* A call to VITAM records the group, or changes nothing of the journal.
LEMMA SendJournal ==
  ASSUME OutboxInv, NEW i \in Instance, SendToVitam(i)
  PROVE  [J!Next]_(J!vars)
<1>1. PICK g \in todo[i] :
        \/ ConversionFails(i, g) \/ CallCreated(i, g) \/ CallAnswerLost(i, g)
        \/ CallConflict(i, g) \/ CallFails(i, g)
  BY DEF SendToVitam
<1>2. g \in SUBSET Event /\ g \subseteq Submitted /\ TypeOK
  BY DEF OutboxInv, TypeOK
<1>3. UNCHANGED <<committed, status>>
  BY <1>1 DEF ConversionFails, CallCreated, CallAnswerLost, CallConflict, CallFails, Sent
<1>4. Submitted' = Submitted /\ Stored' = Stored
  BY <1>3, SubmittedUnchanged, StoredUnchanged
<1>5. VitamRecords(g) \/ UNCHANGED operation
  BY <1>1 DEF ConversionFails, CallCreated, CallAnswerLost, CallConflict, CallFails
<1>6. Journaled' = Journaled \cup g \/ Journaled' = Journaled
  BY <1>2, <1>5, JournaledGrows, JournaledUnchanged
<1>7. CASE Journaled' = Journaled
  BY <1>4, <1>7 DEF J!vars
<1>8. CASE Journaled' = Journaled \cup g /\ Journaled' # Journaled
  <2>1. J!Record(g)
    BY <1>2, <1>4, <1>8 DEF J!Record
  <2> QED BY <1>2, <2>1 DEF J!Next
<1> QED BY <1>6, <1>7, <1>8

\* A deletion forgets an event VITAM holds; deleting it again changes nothing.
LEMMA DeleteJournal ==
  ASSUME OutboxInv, NEW i \in Instance, DeleteById(i)
  PROVE  [J!Next]_(J!vars)
<1>1. PICK e \in doomed[i] : status' = [status EXCEPT ![e] = "absent"]
  BY DEF DeleteById
<1>2. TypeOK /\ e \in Event
  BY DEF OutboxInv, TypeOK
<1>3. Journaled' = Journaled /\ Submitted' = Submitted
  BY JournaledUnchanged, SubmittedUnchanged DEF DeleteById
<1>4. Stored' = Stored \ {e}
  BY <1>1, <1>2 DEF Stored, TypeOK
<1>5. e \in Journaled
  BY <1>2 DEF OutboxInv, SuccessIsTrue
<1>6. CASE e \in Stored
  <2>1. J!Forget(e)
    BY <1>3, <1>4, <1>5, <1>6 DEF J!Forget
  <2> QED BY <1>2, <2>1 DEF J!Next
<1>7. CASE e \notin Stored
  BY <1>3, <1>4, <1>7 DEF J!vars
<1> QED BY <1>6, <1>7

\* A status update neither adds nor removes events.
LEMMA UpdateStored ==
  ASSUME TypeOK, NEW i \in Instance, UpdateEventStatus(i)
  PROVE  Stored' = Stored
<1>1. PICK reached \in SUBSET group[i] :
        status' = [e \in Event |->
              IF e \in reached /\ e \in Stored THEN outcome[i] ELSE status[e]]
  BY DEF UpdateEventStatus
<1>2. outcome[i] \in {"SUCCESS", "ERROR"}
  BY DEF TypeOK
<1> QED BY <1>1, <1>2 DEF Stored

\* Every step of the outbox is a step of the journal, or none.
LEMMA NextJournal == OutboxInv /\ [Next]_vars => [J!Next]_(J!vars)
<1> SUFFICES ASSUME OutboxInv, [Next]_vars PROVE [J!Next]_(J!vars)
  OBVIOUS
<1>1. ASSUME NEW t \in Transaction, Commit(t) PROVE [J!Next]_(J!vars)
  BY <1>1, CommitJournal
<1>2. ASSUME NEW i \in Instance, SendToVitam(i) PROVE [J!Next]_(J!vars)
  BY <1>2, SendJournal
<1>3. ASSUME NEW i \in Instance, UpdateEventStatus(i) PROVE [J!Next]_(J!vars)
  <2>1. Journaled' = Journaled /\ Submitted' = Submitted
    BY <1>3, JournaledUnchanged, SubmittedUnchanged DEF UpdateEventStatus
  <2>2. Stored' = Stored
    BY <1>3, UpdateStored DEF OutboxInv
  <2> QED BY <2>1, <2>2 DEF J!vars
<1>4. ASSUME NEW i \in Instance, DeleteById(i) PROVE [J!Next]_(J!vars)
  BY <1>4, DeleteJournal
<1>5. ASSUME UNCHANGED <<committed, status, operation>> PROVE [J!Next]_(J!vars)
  <2>1. Journaled' = Journaled /\ Submitted' = Submitted /\ Stored' = Stored
    BY <1>5, JournaledUnchanged, SubmittedUnchanged, StoredUnchanged
  <2> QED BY <2>1 DEF J!vars
<1>6. ASSUME NEW i \in Instance, StartRun(i) \/ StartDeletion(i) \/ Crash(i)
      PROVE  UNCHANGED <<committed, status, operation>>
  BY <1>6 DEF StartRun, StartDeletion, Crash
<1>7. CASE Tick \/ UNCHANGED vars
  BY <1>5, <1>7 DEF Tick, vars
<1> QED BY <1>1, <1>2, <1>3, <1>4, <1>5, <1>6, <1>7 DEF Next

\* The outbox implements the abstract journal: events are submitted once, the
\* journal only grows, and the local copy of an event is dropped only when
\* VITAM holds the event.
THEOREM OutboxImplementsJournal == Spec => JournalSpec
<1>1. Init => J!Init
  BY InitJournal
<1>2. OutboxInv /\ [Next]_vars => [J!Next]_(J!vars)
  BY NextJournal
<1> QED BY <1>1, <1>2, OutboxInvariant, PTL DEF Spec, J!Spec, JournalSpec

-------------------------------------------------------------------------------
(* One primary, no status update that stops partway, whole requests *)

\* The deployment the documentation asks for, on a database whose updateMulti
\* commands run to their end, with REST calls of one transaction.
Regular ==
  /\ \A i, j \in Primary : i = j
  /\ MaxTorn = 0
  /\ \A e, f \in Event : RequestOf[e] = RequestOf[f] => TransactionOf[e] = TransactionOf[f]

\* An event belongs to one request.
LEMMA EventsOfDisjoint ==
  ASSUME NEW r, NEW s, NEW e \in EventsOf(r), e \in EventsOf(s)
  PROVE  EventsOf(r) = EventsOf(s)
BY DEF EventsOf

\* The primary takes the events of a request all together.
LEMMA GroupsAreRequests ==
  ASSUME OutboxInv, RequestInv, NEW g \in GroupsByRequest(ElligibleToBeSent)
  PROVE  /\ \E r \in Request : g = EventsOf(r)
         /\ \A e \in g : Pending(e)
<1>1. PICK r \in Request : g = EventsOf(r) \cap ElligibleToBeSent
  BY GroupsAreElligible
<1>2. g # {} /\ g \subseteq ElligibleToBeSent
  BY GroupsAreElligible
<1>3. \A e \in g : Pending(e)
  BY <1>2 DEF ElligibleToBeSent, Pending
<1>4. PICK e \in g : TRUE
  BY <1>2
<1>5. e \in Event /\ RequestOf[e] = r /\ Pending(e)
  BY <1>1, <1>3 DEF EventsOf
<1>6. ASSUME NEW f \in EventsOf(r) PROVE f \in ElligibleToBeSent
  <2>1. f \in Event /\ RequestOf[e] = RequestOf[f]
    BY <1>5 DEF EventsOf
  <2>2. status[f] = status[e] /\ age[f] = age[e]
    BY <1>5, <2>1 DEF RequestInv
  <2> QED BY <1>1, <2>1, <2>2 DEF ElligibleToBeSent
<1> QED BY <1>1, <1>3, <1>6

\* No request is known at first.
LEMMA InitRequestInv == Init => RequestInv
BY DEF Init, RequestInv, Pending, OneOperationPerRequest

\* The events a transaction commits were in nobody's hands.
LEMMA CommitRequestInv ==
  ASSUME Regular, OutboxInv, RequestInv, NEW t \in Transaction, Commit(t)
  PROVE  RequestInv'
<1>1. TypeOK
  BY DEF OutboxInv
<1>2. \A e \in Event : TransactionOf[e] = t => e \notin Submitted /\ status[e] = "absent" /\ age[e] = 0
  BY <1>1 DEF Commit, OutboxInv, Submitted, Stored, RequestInv
<1>3. \A e \in Event : status'[e] = IF TransactionOf[e] = t THEN "CREATED" ELSE status[e]
  BY DEF Commit
<1>4. UNCHANGED <<age, task, todo, group, doomed, operation>> /\ Submitted \subseteq Submitted'
  BY DEF Commit, Submitted
<1>5. \A e, f \in Event :
        RequestOf[e] = RequestOf[f] /\ Pending(e)' => status'[f] = status'[e] /\ age'[f] = age'[e]
  BY <1>2, <1>3, <1>4 DEF Pending, RequestInv, Regular
<1>6. \A e \in Event : status'[e] \in {"absent", "CREATED"} => age'[e] = 0
  BY <1>2, <1>3, <1>4 DEF RequestInv
<1>7. \A e \in Event : Pending(e) => Pending(e)'
  BY <1>3 DEF Pending
<1>8. \A i \in Instance : \A e \in doomed'[i] : e \in Submitted' /\ ~ Pending(e)'
  BY <1>1, <1>2, <1>3, <1>4 DEF RequestInv, Pending, TypeOK
<1>9. \A i \in Instance : \A g \in todo'[i] \cup ({group'[i]} \ {{}}) :
        /\ \E q \in Request : g = EventsOf(q)
        /\ \A e \in g : Pending(e)'
  <2>1. \A i \in Instance : \A g \in todo[i] \cup ({group[i]} \ {{}}) : g \subseteq Event
    BY <1>1 DEF TypeOK
  <2> QED BY <1>4, <1>7, <2>1 DEF RequestInv
<1>10. OneOperationPerRequest'
  BY <1>4 DEF RequestInv, OneOperationPerRequest
<1> QED BY <1>4, <1>5, <1>6, <1>8, <1>9, <1>10 DEF RequestInv

\* What is recorded is a whole request under the id of its first event.
LEMMA SendRequestInv ==
  ASSUME OutboxInv, RequestInv, NEW i \in Instance, SendToVitam(i)
  PROVE  RequestInv'
<1>1. PICK g \in todo[i] :
        \/ ConversionFails(i, g) \/ CallCreated(i, g) \/ CallAnswerLost(i, g)
        \/ CallConflict(i, g) \/ CallFails(i, g)
  BY DEF SendToVitam
<1>2. \E result \in {"SUCCESS", "ERROR"} : Sent(i, g, result)
  BY <1>1 DEF ConversionFails, CallCreated, CallAnswerLost, CallConflict, CallFails
<1>3. VitamRecords(g) \/ UNCHANGED operation
  BY <1>1 DEF ConversionFails, CallCreated, CallAnswerLost, CallConflict, CallFails
<1>4. PICK r \in Request : g = EventsOf(r)
  BY DEF RequestInv
<1>5. TypeOK
  BY DEF OutboxInv
<1>6. UNCHANGED <<committed, status, age, doomed>>
  BY <1>2 DEF Sent
<1>7. OneOperationPerRequest'
  <2>1. CASE UNCHANGED operation
    BY <2>1 DEF RequestInv, OneOperationPerRequest
  <2>2. CASE VitamRecords(g)
    <3>1. PICK m \in g : IsFirst(m, g) /\ operation' = [operation EXCEPT ![m] = g]
      BY <2>2 DEF VitamRecords
    <3>2. m \in Event /\ g = EventsOf(RequestOf[m])
      BY <1>4, <3>1 DEF EventsOf
    <3>3. \A n \in Event : operation'[n] = IF n = m THEN g ELSE operation[n]
      BY <1>5, <3>1, <3>2 DEF TypeOK
    <3>4. \A n \in Event : operation'[n] # {} =>
            operation'[n] = EventsOf(RequestOf[n]) /\ IsFirst(n, operation'[n])
      BY <3>1, <3>2, <3>3 DEF RequestInv, OneOperationPerRequest
    <3> QED BY <3>4 DEF OneOperationPerRequest, IsFirst
  <2> QED BY <1>3, <2>1, <2>2
<1>8. i \in Primary
  BY DEF RequestInv
<1>9. ASSUME NEW j \in Instance
      PROVE  /\ j \notin Primary => todo'[j] = {} /\ group'[j] = {}
             /\ task'[j] # "updating" => group'[j] = {}
             /\ group'[j] # {} => group'[j] \notin todo'[j]
             /\ \A h \in todo'[j] \cup ({group'[j]} \ {{}}) :
                   /\ \E q \in Request : h = EventsOf(q)
                   /\ \A e \in h : Pending(e)'
             /\ \A e \in doomed'[j] : e \in Submitted' /\ ~ Pending(e)'
  <2>1. todo'[j] = IF j = i THEN todo[i] \ {g} ELSE todo[j]
    BY <1>2, <1>5 DEF Sent, TypeOK
  <2>2. group'[j] = IF j = i THEN g ELSE group[j]
    BY <1>2, <1>5 DEF Sent, TypeOK
  <2>3. task'[j] = IF j = i THEN "updating" ELSE task[j]
    BY <1>2, <1>5 DEF Sent, TypeOK
  <2>4. \A h \in todo'[j] \cup ({group'[j]} \ {{}}) : h \in todo[j] \cup ({group[j]} \ {{}})
    BY <2>1, <2>2
  <2> QED BY <1>6, <1>8, <2>1, <2>2, <2>3, <2>4 DEF RequestInv, Pending, Submitted
<1> QED BY <1>6, <1>7, <1>9 DEF RequestInv, Pending

\* The outcome is written on the whole request, which only the primary holds.
LEMMA UpdateRequestInv ==
  ASSUME Regular, OutboxInv, RequestInv, NEW i \in Instance, UpdateEventStatus(i)
  PROVE  /\ RequestInv'
         /\ \A e \in Event : status[e] = "SUCCESS" => status'[e] = "SUCCESS"
<1>1. TypeOK
  BY DEF OutboxInv
<1>2. /\ status' = [e \in Event |->
            IF e \in group[i] /\ e \in Stored THEN outcome[i] ELSE status[e]]
      /\ age' = [e \in Event |-> IF e \in group[i] THEN 0 ELSE age[e]]
  BY <1>1 DEF UpdateEventStatus, Regular, TypeOK
<1>3. /\ group' = [group EXCEPT ![i] = {}]
      /\ task'[i] # "updating"
      /\ \A j \in Instance \ {i} : task'[j] = task[j]
      /\ UNCHANGED <<committed, todo, doomed, operation>>
  BY <1>1 DEF UpdateEventStatus, TypeOK
<1>4. CASE group[i] = {}
  <2>1. UNCHANGED <<status, age>>
    BY <1>1, <1>2, <1>4 DEF TypeOK
  <2>2. group' = group
    BY <1>1, <1>3, <1>4 DEF TypeOK
  <2>3. OneOperationPerRequest'
    BY <1>3 DEF RequestInv, OneOperationPerRequest
  <2> QED BY <1>3, <1>4, <2>1, <2>2, <2>3 DEF RequestInv, Pending, Submitted
<1>5. CASE group[i] # {}
  <2>1. PICK r \in Request : group[i] = EventsOf(r)
    BY <1>5 DEF RequestInv
  <2>2. \A e \in group[i] : Pending(e) /\ e \in Stored /\ e \in Event
    BY <1>1, <1>5 DEF RequestInv, Pending, Stored, TypeOK
  <2>3. \A e \in Event : status'[e] = IF RequestOf[e] = r THEN outcome[i] ELSE status[e]
    BY <1>2, <2>1, <2>2 DEF EventsOf
  <2>4. \A e \in Event : age'[e] = IF RequestOf[e] = r THEN 0 ELSE age[e]
    BY <1>2, <2>1 DEF EventsOf
  <2>5. \A e \in Event : status[e] = "SUCCESS" => status'[e] = "SUCCESS"
    BY <2>1, <2>2, <2>3 DEF EventsOf, Pending
  <2>6. outcome[i] \in {"SUCCESS", "ERROR"}
    BY <1>1 DEF TypeOK
  <2>7. \A e, f \in Event :
          RequestOf[e] = RequestOf[f] /\ Pending(e)' => status'[f] = status'[e] /\ age'[f] = age'[e]
    BY <2>3, <2>4 DEF RequestInv, Pending
  <2>8. \A e \in Event : status'[e] \in {"absent", "CREATED"} => age'[e] = 0
    BY <2>3, <2>4, <2>6 DEF RequestInv
  <2>9. OneOperationPerRequest'
    BY <1>3 DEF RequestInv, OneOperationPerRequest
  <2>10. i \in Primary
    BY <1>5 DEF RequestInv
  <2>11. ASSUME NEW j \in Instance
         PROVE  /\ j \notin Primary => todo'[j] = {} /\ group'[j] = {}
                /\ task'[j] # "updating" => group'[j] = {}
                /\ group'[j] # {} => group'[j] \notin todo'[j]
                /\ \A h \in todo'[j] \cup ({group'[j]} \ {{}}) :
                      /\ \E q \in Request : h = EventsOf(q)
                      /\ \A e \in h : Pending(e)'
                /\ \A e \in doomed'[j] : e \in Submitted' /\ ~ Pending(e)'
    <3>1. CASE j = i
      <4>1. ASSUME NEW h \in todo[i]
            PROVE  \A e \in h : Pending(e)'
        <5>1. PICK q \in Request : h = EventsOf(q)
          BY DEF RequestInv
        <5>2. h # group[i]
          BY <1>5 DEF RequestInv
        <5>3. \A e \in h : e \in Event /\ RequestOf[e] # r
          BY <2>1, <5>1, <5>2 DEF EventsOf
        <5> QED BY <2>3, <5>3 DEF RequestInv, Pending
      <4>2. \A e \in doomed[i] : e \in Event /\ ~ Pending(e) /\ e \notin group[i]
        BY <1>1, <2>2 DEF RequestInv, TypeOK
      <4>3. \A e \in doomed[i] : ~ Pending(e)'
        BY <1>2, <4>2 DEF Pending
      <4> QED BY <1>1, <1>3, <2>10, <3>1, <4>1, <4>3 DEF RequestInv, Submitted, TypeOK
    <3>2. CASE j # i
      <4>1. j \notin Primary
        BY <2>10, <3>2 DEF Regular
      <4>2. todo'[j] = {} /\ group'[j] = {}
        BY <1>1, <1>3, <3>2, <4>1 DEF RequestInv, TypeOK
      <4>3. \A e \in doomed[j] : e \in Event /\ ~ Pending(e) /\ e \notin group[i]
        BY <1>1, <2>2 DEF RequestInv, TypeOK
      <4>4. \A e \in doomed[j] : ~ Pending(e)'
        BY <1>2, <4>3 DEF Pending
      <4> QED BY <1>3, <4>2, <4>4 DEF RequestInv, Submitted
    <3> QED BY <3>1, <3>2
  <2> QED BY <2>5, <2>7, <2>8, <2>9, <2>11 DEF RequestInv
<1> QED BY <1>4, <1>5

\* A deletion does not touch the events the primary holds.
LEMMA DeleteRequestInv ==
  ASSUME OutboxInv, RequestInv, NEW i \in Instance, DeleteById(i)
  PROVE  RequestInv'
<1>1. TypeOK
  BY DEF OutboxInv
<1>2. PICK d \in doomed[i] :
        /\ status' = [status EXCEPT ![d] = "absent"]
        /\ age' = [age EXCEPT ![d] = 0]
        /\ doomed' = [doomed EXCEPT ![i] = @ \ {d}]
        /\ task' = [task EXCEPT ![i] = IF doomed[i] = {d} THEN "idle" ELSE @]
  BY DEF DeleteById
<1>3. d \in Event /\ ~ Pending(d) /\ task[i] = "deleting"
  BY <1>1 DEF RequestInv, TypeOK, DeleteById
<1>4. \A e \in Event : /\ status'[e] = IF e = d THEN "absent" ELSE status[e]
                       /\ age'[e] = IF e = d THEN 0 ELSE age[e]
  BY <1>1, <1>2 DEF TypeOK
<1>5. \A e \in Event : Pending(e)' <=> Pending(e)
  BY <1>3, <1>4 DEF Pending
<1>6. UNCHANGED <<committed, todo, group, operation>>
  BY DEF DeleteById
<1>7. \A e, f \in Event :
        RequestOf[e] = RequestOf[f] /\ Pending(e)' => status'[f] = status'[e] /\ age'[f] = age'[e]
  <2> SUFFICES ASSUME NEW e \in Event, NEW f \in Event, RequestOf[e] = RequestOf[f], Pending(e)
               PROVE  status'[f] = status'[e] /\ age'[f] = age'[e]
    BY <1>5
  <2>1. status[f] = status[e] /\ age[f] = age[e]
    BY DEF RequestInv
  <2>2. e # d /\ f # d
    BY <1>3, <2>1 DEF Pending
  <2> QED BY <1>4, <2>1, <2>2
<1>8. \A e \in Event : status'[e] \in {"absent", "CREATED"} => age'[e] = 0
  BY <1>4 DEF RequestInv
<1>9. OneOperationPerRequest'
  BY <1>6 DEF RequestInv, OneOperationPerRequest
<1>10. ASSUME NEW j \in Instance
       PROVE  /\ j \notin Primary => todo'[j] = {} /\ group'[j] = {}
              /\ task'[j] # "updating" => group'[j] = {}
              /\ group'[j] # {} => group'[j] \notin todo'[j]
              /\ \A h \in todo'[j] \cup ({group'[j]} \ {{}}) :
                    /\ \E q \in Request : h = EventsOf(q)
                    /\ \A e \in h : Pending(e)'
              /\ \A e \in doomed'[j] : e \in Submitted' /\ ~ Pending(e)'
  <2>1. task'[j] # "updating" => task[j] # "updating"
    BY <1>1, <1>2, <1>3 DEF TypeOK
  <2>2. \A h \in todo[j] \cup ({group[j]} \ {{}}) : \A e \in h : e \in Event
    BY <1>1 DEF TypeOK
  <2>3. \A e \in doomed'[j] : e \in doomed[j] /\ e \in Event
    BY <1>1, <1>2 DEF TypeOK
  <2> QED BY <1>5, <1>6, <2>1, <2>2, <2>3 DEF RequestInv, Submitted
<1> QED BY <1>7, <1>8, <1>9, <1>10 DEF RequestInv

\* A run takes whole requests, because their events change together.
LEMMA StartRunRequestInv ==
  ASSUME OutboxInv, RequestInv, NEW i \in Instance, StartRun(i)
  PROVE  RequestInv'
<1>1. TypeOK
  BY DEF OutboxInv
<1>2. \A j \in Instance :
        /\ todo'[j] = IF j = i THEN GroupsByRequest(ElligibleToBeSent) ELSE todo[j]
        /\ task'[j] = IF j = i THEN "sending" ELSE task[j]
  BY <1>1 DEF StartRun, TypeOK
<1>3. group[i] = {} /\ i \in Primary
  BY DEF StartRun, RequestInv
<1>4. UNCHANGED <<committed, status, age, group, doomed, operation>>
  BY DEF StartRun
<1>5. \A g \in GroupsByRequest(ElligibleToBeSent) :
        (\E q \in Request : g = EventsOf(q)) /\ \A e \in g : Pending(e)
  BY GroupsAreRequests
<1>6. OneOperationPerRequest'
  BY <1>4 DEF RequestInv, OneOperationPerRequest
<1> QED BY <1>2, <1>3, <1>4, <1>5, <1>6 DEF RequestInv, Pending, Submitted

\* A deletion takes events that no sender holds.
LEMMA StartDeletionRequestInv ==
  ASSUME OutboxInv, RequestInv, NEW i \in Instance, StartDeletion(i)
  PROVE  RequestInv'
<1>1. TypeOK
  BY DEF OutboxInv
<1>2. \A j \in Instance :
        /\ doomed'[j] = IF j = i THEN ElligibleToBeDeleted ELSE doomed[j]
        /\ task'[j] = IF j = i THEN "deleting" ELSE task[j]
  BY <1>1 DEF StartDeletion, TypeOK
<1>3. group[i] = {}
  BY DEF StartDeletion, RequestInv
<1>4. UNCHANGED <<committed, status, age, group, todo, operation>>
  BY DEF StartDeletion
<1>5. \A e \in ElligibleToBeDeleted : e \in Submitted /\ ~ Pending(e)
  BY DEF ElligibleToBeDeleted, OutboxInv, Stored, Pending
<1>6. OneOperationPerRequest'
  BY <1>4 DEF RequestInv, OneOperationPerRequest
<1> QED BY <1>2, <1>3, <1>4, <1>5, <1>6 DEF RequestInv, Pending, Submitted

\* A restart forgets groups, it does not split them.
LEMMA CrashRequestInv ==
  ASSUME OutboxInv, RequestInv, NEW i \in Instance, Crash(i)
  PROVE  RequestInv'
<1>1. TypeOK
  BY DEF OutboxInv
<1>2. \A j \in Instance :
        /\ todo'[j] = IF j = i THEN {} ELSE todo[j]
        /\ group'[j] = IF j = i THEN {} ELSE group[j]
        /\ doomed'[j] = IF j = i THEN {} ELSE doomed[j]
        /\ j # i => task'[j] = task[j]
  BY <1>1 DEF Crash, TypeOK
<1>3. UNCHANGED <<committed, status, age, operation>>
  BY DEF Crash
<1>4. OneOperationPerRequest'
  BY <1>3 DEF RequestInv, OneOperationPerRequest
<1> QED BY <1>2, <1>3, <1>4 DEF RequestInv, Pending, Submitted

\* Time passes for all the events of a request in ERROR alike.
LEMMA TickRequestInv ==
  ASSUME OutboxInv, RequestInv, Tick
  PROVE  RequestInv'
<1>1. TypeOK
  BY DEF OutboxInv
<1>2. UNCHANGED <<committed, status, task, todo, group, doomed, operation>>
  BY DEF Tick
<1>3. \A e \in Event : age'[e] =
        IF status[e] \in {"SUCCESS", "ERROR"} /\ age[e] < Oldest THEN age[e] + 1 ELSE age[e]
  BY DEF Tick
<1>4. \A e, f \in Event :
        RequestOf[e] = RequestOf[f] /\ Pending(e) => status[f] = status[e] /\ age'[f] = age'[e]
  BY <1>3 DEF RequestInv
<1>5. \A e \in Event : status[e] \in {"absent", "CREATED"} => age'[e] = 0
  BY <1>3 DEF RequestInv
<1>6. OneOperationPerRequest'
  BY <1>2 DEF RequestInv, OneOperationPerRequest
<1> QED BY <1>2, <1>4, <1>5, <1>6 DEF RequestInv, Pending, Submitted

\* The invariant of the requests is inductive.
LEMMA NextRequestInv ==
  ASSUME Regular, OutboxInv, RequestInv, [Next]_vars
  PROVE  RequestInv'
<1>1. CASE UNCHANGED vars
  <2>1. OneOperationPerRequest'
    BY <1>1 DEF vars, RequestInv, OneOperationPerRequest
  <2> QED BY <1>1, <2>1 DEF vars, RequestInv, Pending, Submitted
<1> QED BY <1>1, CommitRequestInv, SendRequestInv, UpdateRequestInv, DeleteRequestInv,
           StartRunRequestInv, StartDeletionRequestInv, CrashRequestInv, TickRequestInv DEF Next

\* SUCCESS is only overwritten by a sender that read the event before.
LEMMA NextSuccessIsFinal ==
  ASSUME Regular, OutboxInv, RequestInv, [Next]_vars
  PROVE  \A e \in Event : status[e] = "SUCCESS" => status'[e] \in {"SUCCESS", "absent"}
<1>1. ASSUME NEW t \in Transaction, Commit(t)
      PROVE  \A e \in Event : status[e] = "SUCCESS" => status'[e] = "SUCCESS"
  BY <1>1 DEF Commit, OutboxInv, Stored, Submitted
<1>2. ASSUME NEW i \in Instance, UpdateEventStatus(i)
      PROVE  \A e \in Event : status[e] = "SUCCESS" => status'[e] = "SUCCESS"
  BY <1>2, UpdateRequestInv
<1>3. ASSUME NEW i \in Instance, DeleteById(i)
      PROVE  \A e \in Event : status[e] = "SUCCESS" => status'[e] \in {"SUCCESS", "absent"}
  BY <1>3 DEF DeleteById, OutboxInv, TypeOK
<1>4. ASSUME NEW i \in Instance, SendToVitam(i) PROVE UNCHANGED status
  BY <1>4 DEF SendToVitam, ConversionFails, CallCreated, CallAnswerLost, CallConflict, CallFails, Sent
<1>5. ASSUME NEW i \in Instance, StartRun(i) \/ StartDeletion(i) \/ Crash(i)
      PROVE  UNCHANGED status
  BY <1>5 DEF StartRun, StartDeletion, Crash
<1>6. CASE Tick \/ UNCHANGED vars
  BY <1>6 DEF Tick, vars
<1> QED BY <1>1, <1>2, <1>3, <1>4, <1>5, <1>6 DEF Next

\* The two inductive invariants hold together in every behaviour.
LEMMA RequestInvariant ==
  ASSUME Regular
  PROVE  Spec => [](OutboxInv /\ RequestInv)
<1>1. Init => OutboxInv /\ RequestInv
  BY InitOutboxInv, InitRequestInv
<1>2. OutboxInv /\ RequestInv /\ [Next]_vars => (OutboxInv /\ RequestInv)'
  BY NextOutboxInv, NextRequestInv
<1> QED BY <1>1, <1>2, PTL DEF Spec

\* With one primary, no partial status update and one transaction per call, the
\* tasks always hold whole requests, whose events change their status together.
THEOREM RequestsAreWhole ==
  ASSUME Regular
  PROVE  Spec => []RequestInv
<1>1. OutboxInv /\ RequestInv => RequestInv
  OBVIOUS
<1> QED BY <1>1, RequestInvariant, PTL

\* With one primary, no partial status update and one transaction per call, each
\* REST call is at most one operation of VITAM, complete and under the id of its first event, however
\* many times it is sent again.
THEOREM OneOperation ==
  ASSUME Regular
  PROVE  Spec => []OneOperationPerRequest
<1>1. RequestInv => OneOperationPerRequest
  BY DEF RequestInv
<1> QED BY <1>1, RequestInvariant, PTL

\* With one primary, no partial status update and one transaction per call,
\* SUCCESS is final.
THEOREM SuccessFinal ==
  ASSUME Regular
  PROVE  Spec => SuccessIsFinal
<1>1. OutboxInv /\ RequestInv /\ [Next]_vars =>
        [\A e \in Event : status[e] = "SUCCESS" => status'[e] \in {"SUCCESS", "absent"}]_vars
  BY NextSuccessIsFinal
<1> QED BY <1>1, RequestInvariant, PTL DEF Spec, SuccessIsFinal
===============================================================================
