----------------------------- MODULE Transactions -----------------------------
(***************************************************************************)
(* One transaction of the Collect application, in one browser session: the *)
(* row TransactionListComponent shows, the commands it sends, the polling  *)
(* that follows a validation, and SipImportTrackingService, which polls    *)
(* the import of a SIP so that the transaction is not validated meanwhile. *)
(*                                                                         *)
(* The status shown is never read back before a command: it is what the    *)
(* last answer to be handled said, and answers come in any order.  A GET   *)
(* of pollUntil is read by the server at one moment and handled later.     *)
(*                                                                         *)
(* External: VITAM, which moves the transaction and runs the imports; no    *)
(* other session sends it commands meanwhile.                              *)
(***************************************************************************)
EXTENDS Integers, FiniteSets

CONSTANTS
  MaxImports,   \* bound on the SIP imports of this session
  MaxRetries,   \* polls before a polling stops
  MaxCommands   \* bound on the commands of this session

ASSUME BoundsAssumption ==
  MaxImports \in Nat /\ MaxRetries \in Nat /\ MaxCommands \in Nat

VARIABLES
  server,            \* VITAM: the status of the transaction
  imports,           \* VITAM: the state of each import
  automaticIngest,   \* VITAM: the project ingests what is validated
  status,            \* transaction.status, as displayed
  isAutomaticIngest, \* what the component knows of the project
  confirming,        \* the dialog that confirms a forced validation is open
  commands,          \* PUT calls in flight
  polls,             \* the pollings that follow the validations
  pending,           \* the transaction is in pendingTransactionIds$
  trackers,          \* the pollings of imports
  sent,              \* commands sent so far
  uploads,           \* imports whose upload has not been answered yet
  watched,           \* history: the imports tracked that VITAM has not completed,
                     \* until their polling breaks off
  raced              \* history: a command was accepted while a status was under way

vitamVars == <<server, imports, automaticIngest>>
rowVars == <<status, isAutomaticIngest, confirming>>
vars == <<vitamVars, rowVars, commands, polls, pending, trackers, sent, uploads, watched, raced>>

-----------------------------------------------------------------------------
\* The imports, in the order they are sent in.
Import == 1..MaxImports

\* TransactionStatus.  "SENT" stands for SENT, ACK_OK and ACK_WARNING, "KO" for
\* KO and ACK_KO: the row offers the same commands for them.
Status == {"OPEN", "READY", "VALIDATED", "SENDING", "SENT", "KO", "ABORTED"}
Kind == {"validate", "send", "edit", "abort"}
NotRead == "none"
CommandIds == 1..MaxCommands

\* The states of an import; "RUNNING" stands for every one but COMPLETED.
OperationState == {"RUNNING", "COMPLETED"}
Unfinished == {i \in Import : imports[i] = "RUNNING"}

TypeOK ==
  /\ server \in Status
  /\ imports \in [Import -> OperationState \cup {"absent"}]
  /\ automaticIngest \in BOOLEAN
  /\ status \in Status
  /\ isAutomaticIngest \in BOOLEAN /\ confirming \in BOOLEAN
  /\ commands \subseteq [id : CommandIds, kind : Kind, result : {"sent", "done", "refused"},
                         automatic : BOOLEAN]
  /\ polls \subseteq [id : CommandIds, automatic : BOOLEAN, left : 0..MaxRetries,
                      read : Status \cup {NotRead}]
  /\ pending \in BOOLEAN
  /\ trackers \subseteq [import : Import, left : 0..MaxRetries,
                         read : OperationState \cup {NotRead}]
  /\ sent \in 0..MaxCommands
  /\ uploads \subseteq Import /\ watched \subseteq Import
  /\ raced \in BOOLEAN

Init ==
  /\ server = "OPEN" /\ status = "OPEN"
  /\ imports = [i \in Import |-> "absent"]
  /\ automaticIngest \in BOOLEAN
  /\ isAutomaticIngest = FALSE /\ confirming = FALSE
  /\ commands = {} /\ polls = {}
  /\ pending = FALSE /\ trackers = {}
  /\ sent = 0
  /\ uploads = {} /\ watched = {} /\ raced = FALSE

-----------------------------------------------------------------------------
(* VITAM.                                                                  *)

Editable == {"READY", "VALIDATED", "KO"}
Abortable == Editable \cup {"OPEN"}

\* The status a command leads to, from those it is accepted in.
Accepts(kind) ==
  CASE kind = "validate" -> server = "OPEN" /\ Unfinished = {}
    [] kind = "send" -> server = "VALIDATED"
    [] kind = "edit" -> server \in Editable
    [] kind = "abort" -> server \in Abortable
After(kind) ==
  CASE kind = "validate" -> "READY" [] kind = "send" -> "SENDING"
    [] kind = "edit" -> "OPEN" [] kind = "abort" -> "ABORTED"

StatusUnderWay == \E p \in polls : p.read # NotRead

\* A command reaches VITAM; it may also be lost, which the caller cannot tell
\* from a refusal.
Process(c) ==
  /\ c.result = "sent"
  /\ \/ /\ Accepts(c.kind)
        /\ server' = After(c.kind)
        /\ raced' = (raced \/ StatusUnderWay \/ \E d \in commands : d # c)
        /\ \E answer \in {"done", "refused"} :
             commands' = (commands \ {c}) \cup {[c EXCEPT !.result = answer]}
     \/ /\ commands' = (commands \ {c}) \cup {[c EXCEPT !.result = "refused"]}
        /\ UNCHANGED <<server, raced>>
  /\ UNCHANGED <<imports, automaticIngest, rowVars, polls, pending, trackers, sent,
                 uploads, watched>>

Progress ==
  /\ \/ server = "READY" /\ server' \in {"VALIDATED", "KO"}
     \/ server = "VALIDATED" /\ automaticIngest /\ server' = "SENDING"
     \/ server = "SENDING" /\ server' \in {"SENT", "KO"}
     \/ server = "SENT" /\ server' = "KO"
  /\ UNCHANGED <<imports, automaticIngest, rowVars, commands, polls, pending, trackers,
                 sent, uploads, watched, raced>>

ImportEnds(i) ==
  /\ i \in Unfinished
  /\ imports' = [imports EXCEPT ![i] = "COMPLETED"]
  /\ watched' = watched \ {i}
  /\ UNCHANGED <<server, automaticIngest, rowVars, commands, polls, pending, trackers, sent,
                 uploads, raced>>

-----------------------------------------------------------------------------
(* The imports: handleUploadSuccess and SipImportTrackingService.           *)

\* A SIP is sent, from the dialog open transactions offer.
Upload(i) ==
  /\ status = "OPEN" /\ ~ confirming
  /\ imports[i] = "absent" /\ server = "OPEN"
  /\ \A j \in 1..(i - 1) : imports[j] # "absent"
  /\ imports' = [imports EXCEPT ![i] = "RUNNING"]
  /\ uploads' = uploads \cup {i}
  /\ UNCHANGED <<server, automaticIngest, rowVars, commands, polls, pending, trackers,
                 sent, watched, raced>>

\* Mutant: an import is tracked although one of the transaction is.
UploadAnswered_TrackedTwice(i) ==
  /\ i \in uploads
  /\ uploads' = uploads \ {i}
  /\ pending' = TRUE
  /\ trackers' = trackers \cup {[import |-> i, left |-> MaxRetries, read |-> NotRead]}
  /\ watched' = watched \cup ({i} \cap Unfinished)
  /\ UNCHANGED <<vitamVars, rowVars, commands, polls, sent, raced>>
\* trackSipImport: ignored while an import of the transaction is tracked.  An
\* upload goes on when its dialog is closed by the navigation of the browser, so
\* it may be answered in any state of the row, under the other dialog too.
UploadAnswered(i) ==
  /\ i \in uploads
  /\ uploads' = uploads \ {i}
  /\ IF pending THEN UNCHANGED <<pending, trackers, watched>>
     ELSE /\ pending' = TRUE
          /\ trackers' = trackers \cup {[import |-> i, left |-> MaxRetries, read |-> NotRead]}
          /\ watched' = watched \cup ({i} \cap Unfinished)
  /\ UNCHANGED <<vitamVars, rowVars, commands, polls, sent, raced>>

UploadFailed(i) ==
  /\ i \in uploads
  /\ uploads' = uploads \ {i}
  /\ UNCHANGED <<vitamVars, rowVars, commands, polls, pending, trackers, sent, watched, raced>>

\* Mutant: the hour has no end.
TrackerTick_NoLimit(t) ==
  /\ trackers' = (trackers \ {t}) \cup {[t EXCEPT !.read = imports[t.import]]}
  /\ UNCHANGED <<vitamVars, rowVars, commands, polls, pending, sent, uploads, watched, raced>>
\* timer and switchMap of pollUntil: a tick asks again and forgets the call in
\* flight; until the answer comes, the field read is what VITAM said.
TrackerTick(t) ==
  /\ t.left > 0
  /\ trackers' = (trackers \ {t}) \cup
       {[t EXCEPT !.left = @ - 1, !.read = imports[t.import]]}
  /\ UNCHANGED <<vitamVars, rowVars, commands, polls, pending, sent, uploads, watched, raced>>

\* finalize, which unblocks the validation however the polling ends.
EndTracker(t) ==
  /\ trackers' = trackers \ {t}
  /\ pending' = FALSE
  /\ UNCHANGED <<vitamVars, rowVars, commands, polls, sent, uploads, raced>>

\* Mutant: any answer about the import is taken for its end.
TrackerAnswered_AnyState(t) == t.read # NotRead /\ EndTracker(t) /\ UNCHANGED watched
TrackerAnswered(t) ==
  /\ t.read # NotRead
  /\ IF t.read = "COMPLETED" THEN EndTracker(t) /\ UNCHANGED watched
     ELSE /\ trackers' = (trackers \ {t}) \cup {[t EXCEPT !.read = NotRead]}
          /\ UNCHANGED <<vitamVars, rowVars, commands, polls, pending, sent, uploads,
                         watched, raced>>

\* Mutant: an error of the polling is not finalized.
TrackerFailed_StaysPending(t) ==
  /\ t.read # NotRead
  /\ trackers' = trackers \ {t} /\ watched' = watched \ {t.import}
  /\ UNCHANGED <<vitamVars, rowVars, commands, polls, pending, sent, uploads, raced>>
\* The end of the hour, and a GET that fails: the import is no longer waited for.
BreakOff(t) == EndTracker(t) /\ watched' = watched \ {t.import}
TrackerTimeout(t) == t.left = 0 /\ BreakOff(t)
TrackerFailed(t) == t.read # NotRead /\ BreakOff(t)

-----------------------------------------------------------------------------
(* The commands of the row.                                                *)

\* ngOnInit: until the project is loaded it is taken for a manual one.
ProjectLoaded ==
  /\ isAutomaticIngest # automaticIngest
  /\ isAutomaticIngest' = automaticIngest
  /\ UNCHANGED <<vitamVars, status, confirming, commands, polls, pending, trackers, sent, uploads, watched, raced>>

Send(kind) ==
  /\ sent < MaxCommands
  /\ sent' = sent + 1
  /\ commands' = commands \cup {[id |-> sent + 1, kind |-> kind, result |-> "sent",
                                 automatic |-> isAutomaticIngest]}
  /\ UNCHANGED <<vitamVars, status, isAutomaticIngest, polls, pending, trackers, uploads, raced>>

Validatable == status = "OPEN" /\ ~ pending
CanSend == ~ isAutomaticIngest /\ status = "VALIDATED"
IsEditable == status \in Editable /\ ~ (isAutomaticIngest /\ status \in {"READY", "VALIDATED"})
IsAbortable == status \in Abortable /\ ~ (isAutomaticIngest /\ status \in {"READY", "VALIDATED"})

\* validateTransaction: it is confirmed first when a batch is in error.
ClickValidate ==
  /\ ~ confirming /\ Validatable
  /\ \/ Send("validate") /\ UNCHANGED confirming
     \/ /\ confirming' = TRUE
        /\ UNCHANGED <<vitamVars, status, isAutomaticIngest, commands, polls, pending, trackers,
                       sent, uploads, raced>>
  /\ UNCHANGED watched

\* validateTransactionDialog: the dialog is confirmed; nothing is checked again.
Confirm ==
  /\ confirming /\ Send("validate")
  /\ confirming' = FALSE
  /\ UNCHANGED watched

Cancel ==
  /\ confirming
  /\ confirming' = FALSE
  /\ UNCHANGED <<vitamVars, status, isAutomaticIngest, commands, polls, pending, trackers, sent,
                 uploads, watched, raced>>

ClickOther ==
  /\ ~ confirming
  /\ \/ CanSend /\ Send("send")
     \/ IsEditable /\ Send("edit")
     \/ IsAbortable /\ Send("abort")
  /\ UNCHANGED <<confirming, watched>>

\* Mutant: a command that succeeds leaves the status of the row.
CommandAnswered_StatusKept(c) ==
  /\ c.result # "sent"
  /\ commands' = commands \ {c}
  /\ IF c.result = "done" /\ c.kind = "validate"
     THEN polls' = polls \cup {[id |-> c.id, automatic |-> c.automatic,
                                left |-> MaxRetries, read |-> NotRead]}
     ELSE UNCHANGED polls
  /\ status' = IF c.result = "done" THEN status ELSE "KO"
  /\ UNCHANGED <<vitamVars, isAutomaticIngest, confirming, pending, trackers, sent, uploads,
                 watched, raced>>
\* The answers.  A validation is then polled; any error shows KO.
CommandAnswered(c) ==
  /\ c.result # "sent"
  /\ commands' = commands \ {c}
  /\ IF c.result = "done" /\ c.kind = "validate"
     THEN /\ polls' = polls \cup {[id |-> c.id, automatic |-> c.automatic,
                                   left |-> MaxRetries, read |-> NotRead]}
          /\ UNCHANGED status
     ELSE /\ status' = IF c.result = "done" THEN After(c.kind) ELSE "KO"
          /\ UNCHANGED polls
  /\ UNCHANGED <<vitamVars, isAutomaticIngest, confirming, pending, trackers, sent, uploads,
                 watched, raced>>

\* pollUntil on the status: isNotSending or isValidated ends it.
IsFinalState(p) == IF p.automatic THEN p.read # "SENDING" ELSE p.read = "VALIDATED"

\* Mutants: the polling has no time limit; it has one, but goes beyond it.
PollTick_NoLimit(p) ==
  /\ polls' = (polls \ {p}) \cup {[p EXCEPT !.read = server]}
  /\ UNCHANGED <<vitamVars, rowVars, commands, pending, trackers, sent, uploads, watched, raced>>
PollTick_Beyond(p) ==
  /\ polls' = (polls \ {p}) \cup {[p EXCEPT !.left = @ - 1, !.read = server]}
  /\ UNCHANGED <<vitamVars, rowVars, commands, pending, trackers, sent, uploads, watched, raced>>
PollTick(p) ==
  /\ p.left > 0
  /\ polls' = (polls \ {p}) \cup {[p EXCEPT !.left = @ - 1, !.read = server]}
  /\ UNCHANGED <<vitamVars, rowVars, commands, pending, trackers, sent, uploads, watched, raced>>

PollAnswered(p) ==
  /\ p.read # NotRead
  /\ status' = p.read
  /\ polls' = (polls \ {p}) \cup (IF IsFinalState(p) THEN {} ELSE {[p EXCEPT !.read = NotRead]})
  /\ UNCHANGED <<vitamVars, isAutomaticIngest, confirming, commands, pending, trackers, sent, uploads, watched, raced>>

PollFailed(p) ==
  /\ p.read # NotRead
  /\ status' = "KO"
  /\ polls' = polls \ {p}
  /\ UNCHANGED <<vitamVars, isAutomaticIngest, confirming, commands, pending, trackers, sent, uploads, watched, raced>>

PollTimeout(p) ==
  /\ p.left = 0
  /\ polls' = polls \ {p}
  /\ UNCHANGED <<vitamVars, rowVars, commands, pending, trackers, sent, uploads, watched, raced>>

-----------------------------------------------------------------------------
Tracking == \E t \in trackers :
  TrackerTick(t) \/ TrackerAnswered(t) \/ TrackerTimeout(t) \/ TrackerFailed(t)

Polling == \E p \in polls :
  PollTick(p) \/ PollAnswered(p) \/ PollFailed(p) \/ PollTimeout(p)

Next ==
  \/ \E c \in commands : Process(c) \/ CommandAnswered(c)
  \/ Progress
  \/ \E i \in Import : ImportEnds(i) \/ Upload(i) \/ UploadAnswered(i) \/ UploadFailed(i)
  \/ Tracking
  \/ ProjectLoaded \/ ClickValidate \/ Confirm \/ Cancel \/ ClickOther
  \/ Polling

Spec == Init /\ [][Next]_vars

\* The timers of the browser fire; nothing is asked of VITAM nor of the user.
FairSpec ==
  /\ Spec
  /\ WF_vars(Tracking)
  /\ WF_vars(Polling)

-----------------------------------------------------------------------------
(* Properties.                                                             *)

\* The validation is blocked exactly while one polling is alive to unblock it:
\* neither a polling that ended badly nor a second import leaves it blocked
\* for ever or unblocks it twice.
BlockedWhilePolled ==
  /\ pending <=> trackers # {}
  /\ \A t, u \in trackers : t = u

\* The row offers to validate only when the imports it tracked are over, but
\* those whose polling failed or timed out: the answers to the GETs, the end of
\* the polling and the uploads answered meanwhile come in any order.  An import
\* whose upload is answered while another is tracked is never tracked.
OfferedAfterImport == Validatable => watched = {}

\* "As long as the import operation of a transaction is not COMPLETED, the
\* transaction must not be validated" (sip-import-tracking.service.ts:47-48), of
\* the imports that are tracked: the code breaks it, because the dialog that
\* confirms a validation is opened from a row without import, and confirmed
\* after an upload was answered under it.
ValidationWaitsForImport ==
  [][\A c \in commands' : c.kind = "validate" /\ c.id > sent => watched = {}]_vars

\* A row that shows VALIDATED offers what VITAM will accept, in a manual
\* project, when no command of the session was accepted behind a status under
\* way or another command.
ValidatedIsTrue ==
  status = "VALIDATED" /\ ~ automaticIngest /\ ~ raced =>
    server = "VALIDATED" \/ commands # {}

\* What is uploaded or polled was sent in, and a polling that has read an end
\* has read the truth.
StartedInv ==
  /\ \A i \in uploads : imports[i] # "absent"
  /\ \A t \in trackers : imports[t.import] # "absent"
  /\ \A t \in trackers : t.read = "COMPLETED" => imports[t.import] = "COMPLETED"

Watching == {t.import : t \in trackers}

\* The imports watched are not over, and polled.
WaitInv == watched \subseteq Unfinished \cap Watching

\* A status under way that says VALIDATED is still true, and a row that shows it
\* is right or about to change.
ShownInv ==
  ~ automaticIngest /\ ~ raced =>
    /\ \A p \in polls : p.read = "VALIDATED" => server = "VALIDATED"
    /\ status = "VALIDATED" =>
         server = "VALIDATED" \/ \E c \in commands : c.kind # "validate" /\ c.result # "sent"

\* The inductive invariant behind BlockedWhilePolled, OfferedAfterImport and
\* ValidatedIsTrue: the imports, their pollings and the row agree.
SessionInv == TypeOK /\ StartedInv /\ BlockedWhilePolled /\ WaitInv /\ ShownInv

\* The polling of the status always ends, whatever VITAM answers.
PollingEnds == polls # {} ~> polls = {}

\* The validation of a transaction is never blocked for ever.
BlockingEnds == pending ~> ~ pending
=============================================================================
