----------------------------- MODULE EventJournal -----------------------------
(***************************************************************************)
(* The outbox of the IAM service (commons-logbook).                        *)
(*                                                                         *)
(* EventService writes the events of a REST call in the transaction of the *)
(* operation they are about; a call has one transaction, or a few one      *)
(* after the other (a login that blocks the user has two).                 *)
(* SendEventToVitamTasks, a scheduled task of the primary instance, reads  *)
(* the events that are CREATED, or in ERROR for long enough, sends the     *)
(* events of a request to VITAM as one operation identified by its first   *)
(* event, and then writes the outcome back on the events.                  *)
(* DeleteSynchronizedEventsTasks, a scheduled task of every instance,      *)
(* reads the events that are in SUCCESS for long enough and deletes them   *)
(* one by one.  The tasks of an instance share one scheduling thread.      *)
(*                                                                         *)
(* External parts: MongoDB (a transaction commits its events at once;      *)
(* updateMulti is one command, which fails partway at most MaxTorn times)  *)
(* and VITAM (an operation id is accepted once and refused as a CONFLICT   *)
(* afterwards; a call may fail with or without having been applied).       *)
(***************************************************************************)
EXTENDS Integers, FiniteSets

CONSTANTS
  Event,         \* the events, named by their id (a GUID)
  Request,       \* the REST calls (evIdReq)
  RequestOf,     \* the request each event belongs to
  Transaction,   \* the MongoDB transactions of the REST calls
  TransactionOf, \* the transaction each event is written in
  CreationDate,  \* System.nanoTime() when the event was created
  Malformed,     \* events the converters of the task throw on
  Instance,      \* the instances of the IAM service
  Primary,       \* those whose instance.primary is true or missing
  RetryAge,      \* retryErrorEventInMinutes, in ticks
  Ttl,           \* ttlInDays, in ticks
  MaxTorn,       \* bound on the updateMulti commands that stop partway
  MaxCrashes     \* bound on the restarts of instances

ASSUME EventsAssumption ==
  /\ RequestOf \in [Event -> Request]
  /\ CreationDate \in [Event -> Int]
  /\ \A e1, e2 \in Event :
        RequestOf[e1] = RequestOf[e2] /\ CreationDate[e1] = CreationDate[e2] => e1 = e2
  /\ TransactionOf \in [Event -> Transaction]
  /\ \A e1, e2 \in Event :
        TransactionOf[e1] = TransactionOf[e2] => RequestOf[e1] = RequestOf[e2]
  /\ Malformed \subseteq Event

ASSUME InstancesAssumption == Primary \subseteq Instance

ASSUME DelaysAssumption ==
  /\ RetryAge \in Nat
  /\ Ttl \in Nat
  /\ MaxTorn \in Nat
  /\ MaxCrashes \in Nat

VARIABLES
  committed,  \* the transactions that committed
  status,     \* status of each event, "absent" when it is not in the collection
  age,        \* ticks since synchronizedVitamDate, up to Oldest
  task,       \* what the scheduling thread of each instance is doing
  todo,       \* the groups of events its run has still to send
  group,      \* the group whose outcome it has still to write
  outcome,    \* that outcome
  doomed,     \* the events its deletion has still to delete
  operation,  \* VITAM: the events recorded under each operation id, {} if none
  torn,       \* updateMulti commands that stopped partway so far
  crashes     \* restarts so far

vars == <<committed, status, age, task, todo, group, outcome, doomed, operation, torn, crashes>>

Oldest == IF RetryAge > Ttl THEN RetryAge ELSE Ttl

EventsOf(r) == {e \in Event : RequestOf[e] = r}

Stored == {e \in Event : status[e] # "absent"}

\* TreeSet.first() under the order byPersistedDate.
IsFirst(e, g) == e \in g /\ \A f \in g : CreationDate[e] <= CreationDate[f]

TypeOK ==
  /\ committed \subseteq Transaction
  /\ status \in [Event -> {"absent", "CREATED", "SUCCESS", "ERROR"}]
  /\ age \in [Event -> 0..Oldest]
  /\ task \in [Instance -> {"idle", "sending", "updating", "deleting"}]
  /\ todo \in [Instance -> SUBSET SUBSET Event]
  /\ group \in [Instance -> SUBSET Event]
  /\ outcome \in [Instance -> {"SUCCESS", "ERROR"}]
  /\ doomed \in [Instance -> SUBSET Event]
  /\ operation \in [Event -> SUBSET Event]
  /\ torn \in 0..MaxTorn
  /\ crashes \in 0..MaxCrashes

Init ==
  /\ committed = {}
  /\ status = [e \in Event |-> "absent"]
  /\ age = [e \in Event |-> 0]
  /\ task = [i \in Instance |-> "idle"]
  /\ todo = [i \in Instance |-> {}]
  /\ group = [i \in Instance |-> {}]
  /\ outcome = [i \in Instance |-> "ERROR"]
  /\ doomed = [i \in Instance |-> {}]
  /\ operation = [e \in Event |-> {}]
  /\ torn = 0
  /\ crashes = 0

-------------------------------------------------------------------------------
(* EventService: a transaction commits its events, all CREATED.  The        *)
(* transactions of a call run one after the other.                         *)
Commit(t) ==
  /\ t \notin committed
  /\ \A e, f \in Event :
        /\ RequestOf[e] = RequestOf[f]
        /\ CreationDate[e] < CreationDate[f]
        /\ TransactionOf[f] = t
        => TransactionOf[e] \in committed \cup {t}
  /\ committed' = committed \cup {t}
  /\ status' = [e \in Event |-> IF TransactionOf[e] = t THEN "CREATED" ELSE status[e]]
  /\ UNCHANGED <<age, task, todo, group, outcome, doomed, operation, torn, crashes>>

(* SendEventToVitamTasks *)

\* Mutants: errors are not retried; the retry delay is not tied to ERROR.
ElligibleToBeSent_NoRetry == {e \in Event : status[e] = "CREATED"}
ElligibleToBeSent_AnyOld ==
  {e \in Event : status[e] = "CREATED" \/ (status[e] # "absent" /\ age[e] >= RetryAge)}

\* CREATED, or ERROR with a synchronizedVitamDate older than the retry delay.
ElligibleToBeSent ==
  {e \in Event : status[e] = "CREATED" \/ (status[e] = "ERROR" /\ age[e] >= RetryAge)}

\* Mutant: every event is an operation of its own.
GroupsByRequest_Singletons(events) == {{e} : e \in events}

\* The groups of a run: the eligible events, stacked together by request.
GroupsByRequest(events) == {EventsOf(r) \cap events : r \in Request} \ {{}}

StartRun(i) ==
  /\ i \in Primary
  /\ task[i] = "idle"
  /\ ElligibleToBeSent # {}
  /\ todo' = [todo EXCEPT ![i] = GroupsByRequest(ElligibleToBeSent)]
  /\ task' = [task EXCEPT ![i] = "sending"]
  /\ UNCHANGED <<committed, status, age, group, outcome, doomed, operation, torn, crashes>>

\* sendToVitam(g) up to its finally block, which will write `result`.
Sent(i, g, result) ==
  /\ todo' = [todo EXCEPT ![i] = @ \ {g}]
  /\ group' = [group EXCEPT ![i] = g]
  /\ outcome' = [outcome EXCEPT ![i] = result]
  /\ task' = [task EXCEPT ![i] = "updating"]
  /\ UNCHANGED <<committed, status, age, doomed, torn, crashes>>

\* A converter throws on one of the events: VITAM is not called.
ConversionFails(i, g) ==
  /\ g \cap Malformed # {}
  /\ Sent(i, g, "ERROR")
  /\ UNCHANGED operation

\* VITAM records the operation under the id of the first event: 201 Created.
VitamRecords(g) ==
  \E m \in g :
    /\ IsFirst(m, g)
    /\ operation[m] = {}
    /\ operation' = [operation EXCEPT ![m] = g]

CallCreated(i, g) ==
  /\ g \cap Malformed = {}
  /\ VitamRecords(g)
  /\ Sent(i, g, "SUCCESS")

\* The operation is recorded but the answer does not reach the task.
CallAnswerLost(i, g) ==
  /\ g \cap Malformed = {}
  /\ VitamRecords(g)
  /\ Sent(i, g, "ERROR")

\* Mutants: a conflict is taken for a success; it gets a status of its own.
CallConflict_Success(i, g) ==
  /\ g \cap Malformed = {}
  /\ \E m \in g : IsFirst(m, g) /\ operation[m] # {}
  /\ Sent(i, g, "SUCCESS")
  /\ UNCHANGED operation
CallConflict_Status(i, g) ==
  /\ g \cap Malformed = {}
  /\ \E m \in g : IsFirst(m, g) /\ operation[m] # {}
  /\ Sent(i, g, "CONFLICT")
  /\ UNCHANGED operation

\* VITAM already has an operation of that id: 409 Conflict, any answer but 201
\* counts as an error.
CallConflict(i, g) ==
  /\ g \cap Malformed = {}
  /\ \E m \in g : IsFirst(m, g) /\ operation[m] # {}
  /\ Sent(i, g, "ERROR")
  /\ UNCHANGED operation

\* Mutant: the status of the answer is not looked at.
CallFails_Success(i, g) ==
  /\ g \cap Malformed = {}
  /\ Sent(i, g, "SUCCESS")
  /\ UNCHANGED operation

\* VITAM is unreachable or refuses the call: nothing is recorded.
CallFails(i, g) ==
  /\ g \cap Malformed = {}
  /\ Sent(i, g, "ERROR")
  /\ UNCHANGED operation

\* The groups of a run are sent one after the other.  A run sends them in the
\* order of their first events; nanoTime has a different origin on every JVM,
\* so between requests that order is arbitrary.
SendToVitam(i) ==
  /\ task[i] = "sending"
  /\ \E g \in todo[i] :
        \/ ConversionFails(i, g)
        \/ CallCreated(i, g)
        \/ CallAnswerLost(i, g)
        \/ CallConflict(i, g)
        \/ CallFails(i, g)

\* Mutant: only the first event of the group gets the outcome.
UpdateEventStatus_FirstOnly(i) ==
  /\ task[i] = "updating"
  /\ \E m \in group[i] :
        /\ IsFirst(m, group[i])
        /\ status' = [e \in Event |-> IF e = m /\ e \in Stored THEN outcome[i] ELSE status[e]]
        /\ age' = [age EXCEPT ![m] = 0]
  /\ group' = [group EXCEPT ![i] = {}]
  /\ task' = [task EXCEPT ![i] = IF todo[i] = {} THEN "idle" ELSE "sending"]
  /\ UNCHANGED <<committed, todo, outcome, doomed, operation, torn, crashes>>

\* updateMulti on the ids of the group: what is still stored gets the outcome
\* and a new synchronizedVitamDate.  When the command stops partway the
\* exception is caught by run(), which goes on with the next group.
UpdateEventStatus(i) ==
  /\ task[i] = "updating"
  /\ \E reached \in SUBSET group[i] :
        /\ \/ reached = group[i] /\ UNCHANGED torn
           \/ reached # group[i] /\ torn < MaxTorn /\ torn' = torn + 1
        /\ status' = [e \in Event |->
              IF e \in reached /\ e \in Stored THEN outcome[i] ELSE status[e]]
        /\ age' = [e \in Event |-> IF e \in reached THEN 0 ELSE age[e]]
  /\ group' = [group EXCEPT ![i] = {}]
  /\ task' = [task EXCEPT ![i] = IF todo[i] = {} THEN "idle" ELSE "sending"]
  /\ UNCHANGED <<committed, todo, outcome, doomed, operation, crashes>>

(* DeleteSynchronizedEventsTasks *)

\* Mutants: the query forgets the status; it keeps the old and takes the new.
ElligibleToBeDeleted_AnyStatus == {e \in Event : status[e] # "absent" /\ age[e] >= Ttl}
ElligibleToBeDeleted_Recent == {e \in Event : status[e] = "SUCCESS" /\ age[e] < Ttl}

ElligibleToBeDeleted == {e \in Event : status[e] = "SUCCESS" /\ age[e] >= Ttl}

StartDeletion(i) ==
  /\ task[i] = "idle"
  /\ ElligibleToBeDeleted # {}
  /\ doomed' = [doomed EXCEPT ![i] = ElligibleToBeDeleted]
  /\ task' = [task EXCEPT ![i] = "deleting"]
  /\ UNCHANGED <<committed, status, age, todo, group, outcome, operation, torn, crashes>>

\* deleteById does not look at the status the event has by now.
DeleteById(i) ==
  /\ task[i] = "deleting"
  /\ \E e \in doomed[i] :
        /\ status' = [status EXCEPT ![e] = "absent"]
        /\ age' = [age EXCEPT ![e] = 0]
        /\ doomed' = [doomed EXCEPT ![i] = @ \ {e}]
        /\ task' = [task EXCEPT ![i] = IF doomed[i] = {e} THEN "idle" ELSE @]
  /\ UNCHANGED <<committed, todo, group, outcome, operation, torn, crashes>>

(* Environment *)

\* The instance restarts: what its thread was doing is forgotten.
Crash(i) ==
  /\ crashes < MaxCrashes
  /\ task[i] # "idle"
  /\ crashes' = crashes + 1
  /\ task' = [task EXCEPT ![i] = "idle"]
  /\ todo' = [todo EXCEPT ![i] = {}]
  /\ group' = [group EXCEPT ![i] = {}]
  /\ doomed' = [doomed EXCEPT ![i] = {}]
  /\ UNCHANGED <<committed, status, age, outcome, operation, torn>>

\* Time passes for every event that has a synchronizedVitamDate.
Tick ==
  /\ \E e \in Event : status[e] \in {"SUCCESS", "ERROR"} /\ age[e] < Oldest
  /\ age' = [e \in Event |->
        IF status[e] \in {"SUCCESS", "ERROR"} /\ age[e] < Oldest THEN age[e] + 1 ELSE age[e]]
  /\ UNCHANGED <<committed, status, task, todo, group, outcome, doomed, operation, torn, crashes>>

Next ==
  \/ \E t \in Transaction : Commit(t)
  \/ \E i \in Instance :
        \/ StartRun(i)
        \/ SendToVitam(i)
        \/ UpdateEventStatus(i)
        \/ StartDeletion(i)
        \/ DeleteById(i)
        \/ Crash(i)
  \/ Tick

Spec == Init /\ [][Next]_vars

\* VITAM gives a proper answer (201 or 409) to a call with the operation id m.
VitamAnswers(m) ==
  \E i \in Instance :
    /\ task[i] = "sending"
    /\ \E g \in todo[i] :
          /\ IsFirst(m, g)
          /\ CallCreated(i, g) \/ CallConflict(i, g)

\* A task that is due gets the scheduling thread, a started task goes on and
\* time passes; VITAM, called with an id over and over, once answers.
Fairness ==
  /\ \A i \in Instance :
        /\ SF_vars(StartRun(i))
        /\ WF_vars(SendToVitam(i))
        /\ WF_vars(UpdateEventStatus(i))
        /\ SF_vars(StartDeletion(i))
        /\ WF_vars(DeleteById(i))
  /\ WF_vars(Tick)
  /\ \A m \in Event : SF_vars(VitamAnswers(m))

FairSpec == Spec /\ Fairness

-------------------------------------------------------------------------------
(* Properties *)

Journaled == UNION {operation[m] : m \in Event}

Submitted == {e \in Event : TransactionOf[e] \in committed}

\* No event is lost: an event whose transaction committed is in the collection
\* or in VITAM, whatever the crashes, lost answers, partial status updates,
\* concurrent senders and deletions (DeleteSynchronizedEventsTasks deletes on
\* the word of the status only).
NoLoss == Submitted \subseteq Stored \cup Journaled

\* What the status says is true: SUCCESS is never written on an event VITAM
\* does not hold, and no event is about to be deleted that VITAM does not hold.
SuccessIsTrue ==
  \A e \in Event :
    status[e] = "SUCCESS" \/ (\E i \in Instance : e \in doomed[i]) => e \in Journaled

\* One REST call is one operation of VITAM: it is identified by the first event
\* of the call and holds all of its events (architecture.md, "Un appel REST").
\* It takes one primary, no partial update and one transaction per call.
\* In particular no event is journaled twice, although calls whose answer is
\* lost are sent again.
OneOperationPerRequest ==
  \A m \in Event :
    operation[m] # {} =>
      /\ operation[m] = EventsOf(RequestOf[m])
      /\ IsFirst(m, operation[m])

\* SUCCESS is final: an event in SUCCESS may be deleted but never goes back to
\* ERROR, from where it would be sent again.
SuccessIsFinal ==
  [][\A e \in Event : status[e] = "SUCCESS" => status'[e] \in {"SUCCESS", "absent"}]_vars

J == INSTANCE Journal WITH submitted <- Submitted, kept <- Stored, journaled <- Journaled

\* The outbox implements the abstract journal: every step of the tasks, also
\* of two primaries and of a command that stops partway, submits, records or
\* forgets events as Journal allows, or changes nothing it can see.
JournalSpec == J!Spec

\* An event that is due to be sent: SendEventToVitamTasks may still take it.
Pending(e) == status[e] \in {"CREATED", "ERROR"}

\* The inductive invariant behind NoLoss and SuccessIsTrue, for any number of
\* primaries: everything the tasks remember was committed, and an outcome
\* SUCCESS that is not written yet is about journaled events.
OutboxInv ==
  /\ TypeOK
  /\ Stored \subseteq Submitted
  /\ Journaled \subseteq Submitted
  /\ \A i \in Instance :
        /\ group[i] \subseteq Submitted
        /\ \A g \in todo[i] : g \subseteq Submitted
        /\ outcome[i] = "SUCCESS" => group[i] \subseteq Journaled
  /\ SuccessIsTrue
  /\ NoLoss

\* The inductive invariant behind OneOperationPerRequest and SuccessIsFinal,
\* with one primary, no partial update and one transaction per request: the
\* events of a request change together, and the primary always holds whole requests that are pending.
RequestInv ==
  /\ \A e, f \in Event :
        RequestOf[e] = RequestOf[f] /\ Pending(e) =>
          status[f] = status[e] /\ age[f] = age[e]
  /\ \A e \in Event : status[e] \in {"absent", "CREATED"} => age[e] = 0
  /\ \A i \in Instance :
        /\ i \notin Primary => todo[i] = {} /\ group[i] = {}
        /\ task[i] # "updating" => group[i] = {}
        /\ group[i] # {} => group[i] \notin todo[i]
        /\ \A g \in todo[i] \cup ({group[i]} \ {{}}) :
              /\ \E r \in Request : g = EventsOf(r)
              /\ \A e \in g : Pending(e)
        /\ \A e \in doomed[i] : e \in Submitted /\ ~ Pending(e)
  /\ OneOperationPerRequest

\* Every event of a well-formed request is in the end journaled by VITAM
\* (EventService.java:120, "This event is send to vitam by the process"; it
\* retries for ever), although VITAM may be unreachable and the instances may
\* restart a finite number of times.
JournaledEventually ==
  \A e \in Event :
    EventsOf(RequestOf[e]) \cap Malformed = {} => (e \in Submitted ~> e \in Journaled)

\* The collection does not keep the events in SUCCESS for ever.
PurgedEventually ==
  \A e \in Event : status[e] = "SUCCESS" ~> status[e] = "absent"

\* Event.java:163, "If event is correctly send to vitam, then the status passed
\* to SUCCESS": an event VITAM holds ends up in SUCCESS (and may then be
\* deleted) instead of being retried for ever.
JournaledSettles ==
  \A e \in Event : e \in Journaled ~> status[e] \in {"SUCCESS", "absent"}
===============================================================================
