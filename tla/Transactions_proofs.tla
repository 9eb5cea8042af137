------------------------- MODULE Transactions_proofs -------------------------
(***************************************************************************)
(* What is proved about Transactions, for any number of imports, polls and *)
(* commands: the types, the blocking of the validation, what it waits for, *)
(* and that a row that shows VALIDATED is right.                           *)
(***************************************************************************)
EXTENDS Transactions, TLAPS

\* A command leads to a status.
LEMMA AfterStatus ==
  ASSUME NEW kind \in Kind
  PROVE  /\ After(kind) \in Status /\ After(kind) # "VALIDATED"
         /\ kind # "validate" => After(kind) # "READY"
BY DEF After, Kind, Status

-----------------------------------------------------------------------------
(* Types *)

CommandRecord == [id : CommandIds, kind : Kind, result : {"sent", "done", "refused"}, automatic : BOOLEAN]
PollRecord == [id : CommandIds, automatic : BOOLEAN, left : 0..MaxRetries, read : Status \cup {NotRead}]
TrackerRecord == [import : Import, left : 0..MaxRetries, read : OperationState \cup {NotRead}]

\* The fields of TypeOK but the three sets of records.
TypeFields ==
  /\ server \in Status /\ status \in Status
  /\ imports \in [Import -> OperationState \cup {"absent"}]
  /\ automaticIngest \in BOOLEAN /\ isAutomaticIngest \in BOOLEAN /\ confirming \in BOOLEAN
  /\ pending \in BOOLEAN /\ raced \in BOOLEAN
  /\ sent \in 0..MaxCommands
  /\ uploads \subseteq Import /\ watched \subseteq Import

\* TypeOK is its fields and its records, in both states of a step.
LEMMA TypeParts ==
  /\ TypeOK <=> /\ TypeFields /\ commands \subseteq CommandRecord /\ polls \subseteq PollRecord
                /\ trackers \subseteq TrackerRecord
  /\ TypeOK' <=> /\ TypeFields' /\ commands' \subseteq CommandRecord /\ polls' \subseteq PollRecord
                 /\ trackers' \subseteq TrackerRecord
BY Zenon DEF TypeOK, TypeFields, CommandRecord, PollRecord, TrackerRecord

\* The initial row is well typed.
LEMMA InitTypeOK == Init => TypeOK
<1> SUFFICES ASSUME Init PROVE TypeOK
  OBVIOUS
<1>1. commands \subseteq CommandRecord /\ polls \subseteq PollRecord /\ trackers \subseteq TrackerRecord
  BY DEF Init
<1>2. imports \in [Import -> OperationState \cup {"absent"}] /\ sent \in 0..MaxCommands
  BY BoundsAssumption DEF Init
<1>3. server \in Status /\ status \in Status
  BY DEF Init, Status
<1>4. TypeFields
  BY <1>2, <1>3, Zenon DEF Init, TypeFields
<1> QED BY <1>1, <1>4, TypeParts

\* VITAM keeps the types.
LEMMA VitamTypeOK ==
  ASSUME TypeOK, Progress \/ (\E i \in Import : ImportEnds(i)) \/ (\E c \in commands : Process(c))
  PROVE  TypeOK'
<1>1. CASE Progress
  BY <1>1 DEF Progress, TypeOK, rowVars, Status
<1>2. ASSUME NEW i \in Import, ImportEnds(i) PROVE TypeOK'
  <2>1. imports' \in [Import -> OperationState \cup {"absent"}]
    BY <1>2 DEF ImportEnds, TypeOK, OperationState
  <2> QED BY <1>2, <2>1, TypeParts, Zenon DEF ImportEnds, TypeFields, rowVars
<1>3. ASSUME NEW c \in commands, Process(c) PROVE TypeOK'
  <2>1. c \in CommandRecord
    BY TypeParts
  <2>2. \A answer \in {"done", "refused"} : [c EXCEPT !.result = answer] \in CommandRecord
    BY <2>1 DEF CommandRecord
  <2>3. commands' \subseteq CommandRecord
    <3>1. \E answer \in {"done", "refused"} : commands' = (commands \ {c}) \cup {[c EXCEPT !.result = answer]}
      BY <1>3 DEF Process
    <3> QED BY <2>2, <3>1, TypeParts
  <2>4. server' \in Status /\ raced' \in BOOLEAN
    <3>1. CASE server' = After(c.kind) /\ raced' = (raced \/ StatusUnderWay \/ \E d \in commands : d # c)
      BY <2>1, <3>1, AfterStatus DEF CommandRecord, TypeOK
    <3>2. CASE UNCHANGED <<server, raced>>
      BY <3>2 DEF TypeOK
    <3> QED BY <1>3, <3>1, <3>2 DEF Process
  <2>5. UNCHANGED <<imports, automaticIngest, rowVars, polls, pending, trackers, sent, uploads, watched>>
    BY <1>3, Zenon DEF Process
  <2> QED BY <2>3, <2>4, <2>5, TypeParts, Zenon DEF TypeFields, rowVars
<1> QED BY <1>1, <1>2, <1>3

\* The uploads and the pollings of imports keep the types.
LEMMA TrackingTypeOK ==
  ASSUME TypeOK, StartedInv, Tracking \/ (\E i \in Import : Upload(i) \/ UploadAnswered(i) \/ UploadFailed(i))
  PROVE  TypeOK'
<1>1. ASSUME NEW i \in Import, Upload(i) PROVE TypeOK'
  <2>1. imports' \in [Import -> OperationState \cup {"absent"}] /\ uploads' \subseteq Import
    BY <1>1 DEF Upload, TypeOK, OperationState
  <2> QED BY <1>1, <2>1, TypeParts, Zenon DEF Upload, TypeFields, rowVars
<1>2. ASSUME NEW i \in Import, UploadAnswered(i) \/ UploadFailed(i) PROVE TypeOK'
  <2>1. [import |-> i, left |-> MaxRetries, read |-> NotRead] \in TrackerRecord
    BY BoundsAssumption DEF TrackerRecord
  <2>2. trackers' \subseteq TrackerRecord
    BY <1>2, <2>1, TypeParts DEF UploadAnswered, UploadFailed
  <2>3. watched' \subseteq Import /\ uploads' \subseteq Import
    BY <1>2 DEF UploadAnswered, UploadFailed, TypeOK
  <2>4. pending' \in BOOLEAN
    BY <1>2, Zenon DEF UploadAnswered, UploadFailed, TypeOK
  <2>5. UNCHANGED <<vitamVars, rowVars, commands, polls, sent, raced>>
    BY <1>2, Zenon DEF UploadAnswered, UploadFailed
  <2> QED BY <2>2, <2>3, <2>4, <2>5, TypeParts, Zenon DEF TypeFields, rowVars, vitamVars
<1>3. ASSUME NEW t \in trackers, TrackerTick(t) \/ TrackerAnswered(t) \/ TrackerTimeout(t) \/ TrackerFailed(t)
      PROVE TypeOK'
  <2>1. t \in TrackerRecord
    BY TypeParts
  <2>2. trackers' \subseteq TrackerRecord
    <3>1. CASE TrackerTick(t)
      <4>1. imports[t.import] \in OperationState
        BY <2>1 DEF StartedInv, TypeOK, TrackerRecord
      <4>2. t.left > 0 /\ t.left - 1 \in 0..MaxRetries
        BY <2>1, <3>1, BoundsAssumption DEF TrackerTick, TrackerRecord
      <4>3. [t EXCEPT !.left = @ - 1, !.read = imports[t.import]] \in TrackerRecord
        BY <2>1, <4>1, <4>2 DEF TrackerRecord
      <4> QED BY <3>1, <4>3, TypeParts DEF TrackerTick
    <3>2. CASE TrackerAnswered(t) \/ TrackerTimeout(t) \/ TrackerFailed(t)
      <4>1. [t EXCEPT !.read = NotRead] \in TrackerRecord
        BY <2>1 DEF TrackerRecord
      <4> QED BY <3>2, <4>1, TypeParts DEF TrackerAnswered, TrackerTimeout, TrackerFailed, BreakOff, EndTracker
    <3> QED BY <1>3, <3>1, <3>2
  <2>3. pending' \in BOOLEAN /\ watched' \subseteq Import
    BY <1>3 DEF TrackerTick, TrackerAnswered, TrackerTimeout, TrackerFailed, BreakOff, EndTracker, TypeOK
  <2>4. UNCHANGED <<vitamVars, rowVars, commands, polls, sent, uploads, raced>>
    BY <1>3, Zenon DEF TrackerTick, TrackerAnswered, TrackerTimeout, TrackerFailed, BreakOff, EndTracker
  <2> QED BY <2>2, <2>3, <2>4, TypeParts, Zenon DEF TypeFields, rowVars, vitamVars
<1> QED BY <1>1, <1>2, <1>3 DEF Tracking

\* The commands of the row keep the types.
LEMMA CommandTypeOK ==
  ASSUME TypeOK,
         ProjectLoaded \/ ClickValidate \/ Confirm \/ Cancel \/ ClickOther
         \/ (\E c \in commands : CommandAnswered(c))
  PROVE  TypeOK'
<1>1. ASSUME NEW kind \in Kind, Send(kind) PROVE commands' \subseteq CommandRecord /\ sent' \in 0..MaxCommands
  <2>1. sent' \in 0..MaxCommands /\ sent + 1 \in CommandIds
    BY <1>1, BoundsAssumption DEF Send, TypeOK, CommandIds
  <2>2. [id |-> sent + 1, kind |-> kind, result |-> "sent", automatic |-> isAutomaticIngest] \in CommandRecord
    BY <2>1 DEF CommandRecord, TypeOK
  <2> QED BY <1>1, <2>1, <2>2, TypeParts DEF Send
<1>3. CASE ProjectLoaded
  BY <1>3, TypeParts, Zenon DEF ProjectLoaded, TypeFields, vitamVars
<1>4. CASE Cancel \/ (ClickValidate /\ UNCHANGED sent)
  <2>1. UNCHANGED <<vitamVars, status, isAutomaticIngest, polls, pending, trackers, uploads, raced>>
    BY <1>4, Zenon DEF Cancel, ClickValidate, Send
  <2>2. confirming' \in BOOLEAN /\ watched' \subseteq Import
    BY <1>4, Zenon DEF Cancel, ClickValidate, TypeOK
  <2>3. UNCHANGED <<sent, commands>>
    <3>1. \A kind : ~ (Send(kind) /\ UNCHANGED sent)
      BY DEF Send, TypeOK
    <3> QED BY <1>4, <3>1, Zenon DEF Cancel, ClickValidate
  <2> QED BY <2>1, <2>2, <2>3, TypeParts, Zenon DEF TypeFields, vitamVars
<1>5. CASE \E kind \in Kind : Send(kind) /\ confirming' \in BOOLEAN /\ watched' \subseteq Import
  <2>1. commands' \subseteq CommandRecord /\ sent' \in 0..MaxCommands /\ confirming' \in BOOLEAN /\ watched' \subseteq Import
    BY <1>1, <1>5
  <2>2. UNCHANGED <<vitamVars, status, isAutomaticIngest, polls, pending, trackers, uploads, raced>>
    BY <1>5, Zenon DEF Send
  <2> QED BY <2>1, <2>2, TypeParts, Zenon DEF TypeFields, vitamVars
<1>6. ASSUME NEW c \in commands, CommandAnswered(c) PROVE TypeOK'
  <2>1. c \in CommandRecord
    BY TypeParts
  <2>2. [id |-> c.id, automatic |-> c.automatic, left |-> MaxRetries, read |-> NotRead] \in PollRecord
    BY <2>1, BoundsAssumption DEF CommandRecord, PollRecord
  <2>3. polls' \subseteq PollRecord /\ commands' \subseteq CommandRecord
    BY <1>6, <2>2, TypeParts DEF CommandAnswered
  <2>4. status' \in Status
    <3>1. status' \in {status, After(c.kind), "KO"}
      BY <1>6 DEF CommandAnswered
    <3> QED BY <2>1, <3>1, AfterStatus DEF CommandRecord, TypeOK, Status
  <2>5. UNCHANGED <<vitamVars, isAutomaticIngest, confirming, pending, trackers, sent, uploads, watched, raced>>
    BY <1>6, Zenon DEF CommandAnswered
  <2> QED BY <2>3, <2>4, <2>5, TypeParts, Zenon DEF TypeFields, vitamVars
<1>7. CASE ClickValidate
  <2>1. CASE Send("validate") /\ UNCHANGED confirming /\ UNCHANGED watched
    <3>1. "validate" \in Kind /\ confirming' \in BOOLEAN /\ watched' \subseteq Import
      BY <2>1 DEF Kind, TypeOK
    <3> QED BY <1>5, <2>1, <3>1
  <2>2. CASE UNCHANGED <<sent>>
    BY <1>4, <1>7, <2>2
  <2> QED BY <1>7, <2>1, <2>2, Zenon DEF ClickValidate
<1>8. CASE Confirm \/ ClickOther
  <2>1. confirming' \in BOOLEAN /\ watched' \subseteq Import
    BY <1>8, Zenon DEF Confirm, ClickOther, TypeOK
  <2>2. {"validate", "send", "edit", "abort"} \subseteq Kind
    BY DEF Kind
  <2> QED BY <1>5, <1>8, <2>1, <2>2 DEF Confirm, ClickOther
<1> QED BY <1>3, <1>4, <1>6, <1>7, <1>8

\* The polling of the status keeps the types.
LEMMA PollingTypeOK ==
  ASSUME TypeOK, Polling
  PROVE  TypeOK'
<1>1. PICK p \in polls : PollTick(p) \/ PollAnswered(p) \/ PollFailed(p) \/ PollTimeout(p)
  BY DEF Polling
<1>2. p \in PollRecord
  BY TypeParts
<1>3. [p EXCEPT !.read = NotRead] \in PollRecord
  BY <1>2 DEF PollRecord
<1>4. CASE PollTick(p)
  <2>1. p.left - 1 \in 0..MaxRetries /\ server \in Status
    BY <1>2, <1>4, BoundsAssumption DEF PollTick, PollRecord, TypeOK
  <2>2. [p EXCEPT !.left = @ - 1, !.read = server] \in PollRecord
    BY <1>2, <2>1 DEF PollRecord
  <2>3. polls' \subseteq PollRecord
    BY <1>4, <2>2, TypeParts DEF PollTick
  <2> QED BY <1>4, <2>3, TypeParts, Zenon DEF PollTick, TypeFields, rowVars, vitamVars
<1>5. CASE PollAnswered(p) \/ PollFailed(p) \/ PollTimeout(p)
  <2>1. polls' \subseteq PollRecord
    BY <1>3, <1>5, TypeParts DEF PollAnswered, PollFailed, PollTimeout
  <2>2. status' \in Status
    BY <1>2, <1>5 DEF PollAnswered, PollFailed, PollTimeout, PollRecord, TypeOK, Status, rowVars, NotRead
  <2>3. UNCHANGED <<vitamVars, isAutomaticIngest, confirming, commands, pending, trackers, sent, uploads, watched, raced>>
    BY <1>5, Zenon DEF PollAnswered, PollFailed, PollTimeout, rowVars
  <2> QED BY <2>1, <2>2, <2>3, TypeParts, Zenon DEF TypeFields, vitamVars
<1> QED BY <1>1, <1>4, <1>5

\* Every step keeps the types.
LEMMA NextTypeOK == TypeOK /\ StartedInv /\ [Next]_vars => TypeOK'
<1>1. ASSUME TypeOK, UNCHANGED vars PROVE TypeOK'
  BY <1>1, TypeParts, Zenon DEF vars, vitamVars, rowVars, TypeFields
<1> QED BY <1>1, VitamTypeOK, TrackingTypeOK, CommandTypeOK, PollingTypeOK DEF Next

-----------------------------------------------------------------------------
(* The imports and their pollings *)

\* An import that was sent in stays sent in, and one that is over stays over.
LEMMA ImportsGoForward ==
  ASSUME TypeOK, [Next]_vars, NEW i \in Import
  PROVE  /\ imports[i] # "absent" => imports'[i] # "absent"
         /\ imports[i] = "COMPLETED" => imports'[i] = "COMPLETED"
<1>1. CASE UNCHANGED imports
  BY <1>1
<1>2. CASE \E j \in Import : ImportEnds(j) \/ Upload(j)
  BY <1>2 DEF ImportEnds, Upload, Unfinished, TypeOK
<1>3. UNCHANGED imports \/ (\E j \in Import : ImportEnds(j) \/ Upload(j))
  BY Zenon DEF Next, Process, CommandAnswered, Progress, UploadAnswered, UploadFailed, Tracking, TrackerTick,
               TrackerAnswered, TrackerTimeout, TrackerFailed, BreakOff, EndTracker, ProjectLoaded, ClickValidate, Send,
               Confirm, Cancel, ClickOther, Polling, PollTick, PollAnswered, PollFailed, PollTimeout, vars,
               vitamVars, rowVars
<1> QED BY <1>1, <1>2, <1>3

\* The steps that leave the imports and their pollings alone.
Elsewhere == UNCHANGED <<uploads, trackers, pending>>

\* The steps about the imports.
LEMMA ImportSteps ==
  ASSUME [Next]_vars
  PROVE  \/ Elsewhere
         \/ Tracking
         \/ \E i \in Import : Upload(i) \/ UploadAnswered(i) \/ UploadFailed(i)
BY Zenon DEF Next, Process, CommandAnswered, Progress, ImportEnds, ProjectLoaded, ClickValidate, Send, Confirm,
             Cancel, ClickOther, Polling, PollTick, PollAnswered, PollFailed, PollTimeout, vars, Elsewhere

\* Every step keeps StartedInv.
LEMMA NextStartedInv == TypeOK /\ StartedInv /\ [Next]_vars => StartedInv'
<1> SUFFICES ASSUME TypeOK, StartedInv, [Next]_vars PROVE StartedInv'
  OBVIOUS
<1>1. \A i \in Import : /\ imports[i] # "absent" => imports'[i] # "absent"
                        /\ imports[i] = "COMPLETED" => imports'[i] = "COMPLETED"
  BY ImportsGoForward
<1>2. uploads \subseteq Import /\ \A t \in trackers : t.import \in Import
  BY DEF TypeOK
<1>3. \A i \in uploads' : imports'[i] # "absent"
  <2>1. CASE uploads' \subseteq uploads
    BY <1>1, <1>2, <2>1 DEF StartedInv
  <2>2. ASSUME NEW i \in Import, Upload(i) PROVE \A j \in uploads' : imports'[j] # "absent"
    <3>1. uploads' = uploads \cup {i} /\ imports'[i] = "RUNNING"
      BY <2>2 DEF Upload, TypeOK
    <3> QED BY <1>1, <1>2, <3>1 DEF StartedInv
  <2>3. uploads' \subseteq uploads \/ \E i \in Import : Upload(i)
    BY ImportSteps DEF Elsewhere, Tracking, TrackerTick, TrackerAnswered, TrackerTimeout, TrackerFailed,
                       BreakOff, EndTracker, UploadAnswered, UploadFailed
  <2> QED BY <2>1, <2>2, <2>3
<1>5. \A t \in trackers' : /\ imports'[t.import] # "absent"
                           /\ t.read = "COMPLETED" => imports'[t.import] = "COMPLETED"
  <2>1. CASE trackers' \subseteq trackers
    BY <1>1, <1>2, <2>1 DEF StartedInv
  <2>2. ASSUME NEW i \in Import, UploadAnswered(i)
        PROVE  \A t \in trackers' : /\ imports'[t.import] # "absent"
                                    /\ t.read = "COMPLETED" => imports'[t.import] = "COMPLETED"
    <3> DEFINE new == [import |-> i, left |-> MaxRetries, read |-> NotRead]
    <3>1. new.import = i /\ new.read # "COMPLETED" /\ trackers' \subseteq trackers \cup {new} /\ i \in uploads
      BY <2>2 DEF UploadAnswered, NotRead
    <3> HIDE DEF new
    <3> QED BY <1>1, <1>2, <3>1 DEF StartedInv
  <2>3. ASSUME NEW t \in trackers, TrackerTick(t) \/ TrackerAnswered(t)
        PROVE  \A u \in trackers' : /\ imports'[u.import] # "absent"
                                    /\ u.read = "COMPLETED" => imports'[u.import] = "COMPLETED"
    <3>1. t \in TrackerRecord
      BY TypeParts
    <3>2. \A n, r : [t EXCEPT !.left = n, !.read = r].import = t.import /\ [t EXCEPT !.left = n, !.read = r].read = r
                    /\ [t EXCEPT !.read = r].import = t.import /\ [t EXCEPT !.read = r].read = r
      BY <3>1 DEF TrackerRecord
    <3>3. \E u : /\ trackers' \subseteq trackers \cup {u} /\ u.import = t.import
                 /\ u.read \in {imports[t.import], NotRead}
      <4>1. CASE TrackerTick(t)
        <5> DEFINE u == [t EXCEPT !.left = t.left - 1, !.read = imports[t.import]]
        <5>1. trackers' \subseteq trackers \cup {u}
          BY <4>1 DEF TrackerTick
        <5>2. u.import = t.import /\ u.read = imports[t.import]
          BY <3>2
        <5> QED BY <5>1, <5>2
      <4>2. CASE TrackerAnswered(t)
        <5> DEFINE u == [t EXCEPT !.read = NotRead]
        <5>1. trackers' \subseteq trackers \cup {u}
          BY <4>2 DEF TrackerAnswered, EndTracker
        <5>2. u.import = t.import /\ u.read = NotRead
          BY <3>2
        <5> QED BY <5>1, <5>2
      <4> QED BY <2>3, <4>1, <4>2
    <3> QED BY <1>1, <1>2, <3>3 DEF StartedInv, NotRead
  <2>4. \/ trackers' \subseteq trackers
        \/ \E i \in Import : UploadAnswered(i)
        \/ \E t \in trackers : TrackerTick(t) \/ TrackerAnswered(t)
    BY ImportSteps DEF Elsewhere, Tracking, TrackerTimeout, TrackerFailed, BreakOff, EndTracker, Upload, UploadFailed
  <2> QED BY <2>1, <2>2, <2>3, <2>4
<1> QED BY <1>3, <1>5 DEF StartedInv

\* Every step keeps the validation blocked by one polling.
LEMMA NextBlocked == TypeOK /\ BlockedWhilePolled /\ [Next]_vars => BlockedWhilePolled'
<1> SUFFICES ASSUME TypeOK, BlockedWhilePolled, [Next]_vars PROVE BlockedWhilePolled'
  OBVIOUS
<1>1. CASE UNCHANGED <<trackers, pending>>
  BY <1>1, Zenon DEF BlockedWhilePolled
<1>2. ASSUME NEW i \in Import, UploadAnswered(i) PROVE BlockedWhilePolled'
  BY <1>2 DEF UploadAnswered, BlockedWhilePolled
<1>3. ASSUME NEW t \in trackers, EndTracker(t) PROVE BlockedWhilePolled'
  BY <1>3 DEF EndTracker, BlockedWhilePolled
<1>4. ASSUME NEW t \in trackers, UNCHANGED pending, NEW u, trackers' = (trackers \ {t}) \cup {u}
      PROVE BlockedWhilePolled'
  <2>1. trackers' = {u} /\ pending'
    BY <1>4 DEF BlockedWhilePolled
  <2> QED BY <2>1 DEF BlockedWhilePolled
<1>5. ASSUME NEW t \in trackers, TrackerTick(t) \/ TrackerAnswered(t) \/ TrackerTimeout(t) \/ TrackerFailed(t)
      PROVE BlockedWhilePolled'
  BY <1>3, <1>4, <1>5, Zenon DEF TrackerTick, TrackerAnswered, TrackerTimeout, TrackerFailed, BreakOff
<1>6. \/ UNCHANGED <<trackers, pending>>
      \/ \E i \in Import : UploadAnswered(i)
      \/ Tracking
  BY ImportSteps, Zenon DEF Elsewhere, Upload, UploadFailed
<1> QED BY <1>1, <1>2, <1>5, <1>6 DEF Tracking

-----------------------------------------------------------------------------
(* What the validation waits for *)

\* A polling taken for the end of its import leaves that import finished.
LEMMA EndedImport ==
  ASSUME TypeOK, StartedInv, BlockedWhilePolled, NEW t \in trackers, t.read = "COMPLETED"
  PROVE  Unfinished \cap Watching = {}
<1>1. Watching = {t.import}
  BY DEF BlockedWhilePolled, Watching
<1>2. imports[t.import] = "COMPLETED"
  BY DEF StartedInv
<1> QED BY <1>1, <1>2 DEF Unfinished

\* A polling keeps its import while it lasts.
LEMMA TickKeepsImport ==
  ASSUME TypeOK, NEW t \in trackers, TrackerTick(t) \/ (TrackerAnswered(t) /\ t.read # "COMPLETED")
  PROVE  Watching' = Watching
<1>1. t \in TrackerRecord
  BY TypeParts
<1>2. PICK u : trackers' = (trackers \ {t}) \cup {u} /\ u.import = t.import
  <2>1. CASE TrackerTick(t)
    <3> DEFINE u == [t EXCEPT !.left = t.left - 1, !.read = imports[t.import]]
    <3>1. trackers' = (trackers \ {t}) \cup {u} /\ u.import = t.import
      BY <1>1, <2>1 DEF TrackerTick, TrackerRecord
    <3> QED BY <3>1
  <2>2. CASE TrackerAnswered(t) /\ t.read # "COMPLETED"
    <3> DEFINE u == [t EXCEPT !.read = NotRead]
    <3>1. trackers' = (trackers \ {t}) \cup {u} /\ u.import = t.import
      BY <1>1, <2>2 DEF TrackerAnswered, TrackerRecord
    <3> QED BY <3>1
  <2> QED BY <2>1, <2>2
<1> QED BY <1>2 DEF Watching

\* Every step keeps WaitInv.
LEMMA NextWaitInv == TypeOK /\ StartedInv /\ BlockedWhilePolled /\ WaitInv /\ [Next]_vars => WaitInv'
<1> SUFFICES ASSUME TypeOK, StartedInv, BlockedWhilePolled, WaitInv, [Next]_vars PROVE WaitInv'
  OBVIOUS
<1>1. watched \subseteq Unfinished /\ watched \subseteq Watching
  BY DEF WaitInv
<1>2. CASE UNCHANGED <<watched, imports>> /\ Watching' = Watching
  BY <1>1, <1>2 DEF WaitInv, Unfinished
<1>3. CASE UNCHANGED <<watched, imports, trackers>>
  BY <1>2, <1>3 DEF Watching
<1>4. ASSUME NEW i \in Import, ImportEnds(i) PROVE WaitInv'
  <2>1. /\ watched' = watched \ {i} /\ trackers' = trackers
        /\ \A j \in Import : j # i => imports'[j] = imports[j]
    BY <1>4 DEF ImportEnds, TypeOK
  <2> QED BY <1>1, <2>1 DEF WaitInv, Unfinished, Watching
<1>5. ASSUME NEW i \in Import, Upload(i) PROVE WaitInv'
  <2>1. /\ UNCHANGED <<watched, trackers>> /\ imports[i] = "absent"
        /\ \A j \in Import : j # i => imports'[j] = imports[j]
    BY <1>5, Zenon DEF Upload, TypeOK
  <2> QED BY <1>1, <2>1 DEF WaitInv, Unfinished, Watching
<1>6. ASSUME NEW i \in Import, UploadAnswered(i), ~ pending PROVE WaitInv'
  <2> DEFINE new == [import |-> i, left |-> MaxRetries, read |-> NotRead]
  <2>1. new.import = i
    OBVIOUS
  <2>2. trackers' = trackers \cup {new} /\ watched' = watched \cup ({i} \cap Unfinished)
        /\ UNCHANGED imports
    BY <1>6 DEF UploadAnswered, vitamVars
  <2> HIDE DEF new
  <2> QED BY <1>1, <2>1, <2>2 DEF WaitInv, Unfinished, Watching
<1>7. ASSUME NEW t \in trackers, TrackerTick(t) \/ TrackerAnswered(t) \/ TrackerTimeout(t) \/ TrackerFailed(t)
      PROVE  WaitInv'
  <2>1. UNCHANGED imports /\ Watching = {t.import}
    BY <1>7 DEF TrackerTick, TrackerAnswered, TrackerTimeout, TrackerFailed, BreakOff, EndTracker, vitamVars,
                BlockedWhilePolled, Watching
  <2>2. CASE TrackerTimeout(t) \/ TrackerFailed(t)
    <3>1. watched' = watched \ {t.import}
      BY <2>2 DEF TrackerTimeout, TrackerFailed, BreakOff
    <3> QED BY <1>1, <2>1, <3>1 DEF WaitInv
  <2>3. CASE TrackerAnswered(t) /\ t.read = "COMPLETED"
    <3>1. watched' = watched
      BY <2>3 DEF TrackerAnswered
    <3>2. Unfinished \cap Watching = {}
      BY <2>3, EndedImport
    <3> QED BY <1>1, <3>1, <3>2 DEF WaitInv
  <2>4. CASE TrackerTick(t) \/ (TrackerAnswered(t) /\ t.read # "COMPLETED")
    <3>1. watched' = watched
      BY <2>4 DEF TrackerTick, TrackerAnswered
    <3> QED BY <1>2, <2>1, <2>4, <3>1, TickKeepsImport
  <2> QED BY <1>7, <2>2, <2>3, <2>4
<1>8. CASE \/ ProjectLoaded \/ ClickValidate \/ Confirm \/ Cancel \/ ClickOther \/ Progress \/ Polling \/ UNCHANGED vars
           \/ \E c \in commands : Process(c) \/ CommandAnswered(c)
           \/ \E i \in Import : UploadFailed(i) \/ (UploadAnswered(i) /\ pending)
  <2>1. UNCHANGED <<watched, imports, trackers>>
    BY <1>8, Zenon DEF ProjectLoaded, ClickValidate, Confirm, Cancel, ClickOther, Send, Progress, Polling, PollTick,
         PollAnswered, PollFailed, PollTimeout, Process, CommandAnswered, UploadFailed, UploadAnswered, vars,
         vitamVars, rowVars
  <2> QED BY <1>3, <2>1
<1> QED BY <1>4, <1>5, <1>6, <1>7, <1>8 DEF Next, Tracking

-----------------------------------------------------------------------------
(* What the row shows *)

\* What was read remains read as long as no poll asks again.
LEMMA NextShownInv == TypeOK /\ ShownInv /\ [Next]_vars => ShownInv'
<1> SUFFICES ASSUME TypeOK, ShownInv, [Next]_vars PROVE ShownInv'
  OBVIOUS
<1> USE DEF NotRead
<1>1. UNCHANGED automaticIngest /\ (~ raced' => ~ raced)
  <2>1. UNCHANGED automaticIngest /\ (UNCHANGED raced \/ \E c \in commands : Process(c))
    BY Zenon
       DEF Next, Process, CommandAnswered, Progress, ImportEnds, Upload, UploadAnswered, UploadFailed, Tracking,
         TrackerTick, TrackerAnswered, TrackerTimeout, TrackerFailed, BreakOff, EndTracker, ProjectLoaded, ClickValidate, Send,
         Confirm, Cancel, ClickOther, Polling, PollTick, PollAnswered, PollFailed, PollTimeout, vars, vitamVars, rowVars
  <2>2. ASSUME NEW c \in commands, Process(c) PROVE ~ raced' => ~ raced
    BY <2>2 DEF Process
  <2>3. CASE \E c \in commands : Process(c)
    BY <2>1, <2>2, <2>3
  <2>4. CASE raced' = raced
    BY <2>1, <2>4
  <2> QED BY <2>1, <2>3, <2>4
<1> SUFFICES ASSUME ~ automaticIngest, ~ raced'
             PROVE  /\ \A p \in polls' : p.read = "VALIDATED" => server' = "VALIDATED"
                    /\ status' = "VALIDATED" =>
                         server' = "VALIDATED" \/ \E c \in commands' : c.kind # "validate" /\ c.result # "sent"
  BY <1>1 DEF ShownInv
<1>2. /\ \A p \in polls : p.read = "VALIDATED" => server = "VALIDATED"
      /\ status = "VALIDATED" =>
           server = "VALIDATED" \/ \E c \in commands : c.kind # "validate" /\ c.result # "sent"
  BY <1>1 DEF ShownInv
<1>3. \A c \in commands : c \in CommandRecord /\ \A p \in polls : p \in PollRecord
  BY TypeParts
<1>4. ASSUME NEW c \in commands, Process(c)
      PROVE  /\ \A p \in polls' : p.read = "VALIDATED" => server' = "VALIDATED"
             /\ status' = "VALIDATED" =>
                  server' = "VALIDATED" \/ \E d \in commands' : d.kind # "validate" /\ d.result # "sent"
  <2>1. UNCHANGED <<polls, status>> /\ c.result = "sent"
    BY <1>4 DEF Process, rowVars
  <2>2. PICK answer \in {"done", "refused"} : commands' = (commands \ {c}) \cup {[c EXCEPT !.result = answer]}
    BY <1>4 DEF Process
  <2> DEFINE new == [c EXCEPT !.result = answer]
  <2>3. new.kind = c.kind /\ new.result # "sent" /\ commands' = (commands \ {c}) \cup {new}
    BY <1>3, <2>2 DEF CommandRecord
  <2> HIDE DEF new
  <2>4. CASE UNCHANGED server
    BY <1>2, <2>1, <2>3, <2>4
  <2>5. CASE Accepts(c.kind) /\ raced' = (raced \/ StatusUnderWay \/ \E d \in commands : d # c)
    <3>1. ~ StatusUnderWay /\ commands = {c}
      BY <2>5
    <3>2. \A p \in polls' : p.read # "VALIDATED"
      BY <2>1, <3>1 DEF StatusUnderWay
    <3>3. status' = "VALIDATED" => server = "VALIDATED"
      BY <1>2, <2>1, <3>1
    <3>4. server = "VALIDATED" => c.kind # "validate"
      BY <2>5 DEF Accepts
    <3> QED BY <2>3, <3>2, <3>3, <3>4
  <2> QED BY <1>4, <2>4, <2>5 DEF Process
<1>5. ASSUME NEW c \in commands, CommandAnswered(c)
      PROVE  /\ \A p \in polls' : p.read = "VALIDATED" => server' = "VALIDATED"
             /\ status' = "VALIDATED" =>
                  server' = "VALIDATED" \/ \E d \in commands' : d.kind # "validate" /\ d.result # "sent"
  <2>1. UNCHANGED server /\ commands' = commands \ {c}
    BY <1>5, Zenon DEF CommandAnswered, vitamVars
  <2>2. CASE c.result = "done" /\ c.kind = "validate"
    <3> DEFINE new == [id |-> c.id, automatic |-> c.automatic, left |-> MaxRetries, read |-> NotRead]
    <3>1. new.read # "VALIDATED" /\ polls' = polls \cup {new} /\ status' = status
      BY <1>5, <2>2 DEF CommandAnswered
    <3> HIDE DEF new
    <3> QED BY <1>2, <2>1, <2>2, <3>1
  <2>3. CASE ~ (c.result = "done" /\ c.kind = "validate")
    <3>1. polls' = polls /\ status' \in {After(c.kind), "KO"}
      BY <1>5, <2>3 DEF CommandAnswered
    <3>2. status' # "VALIDATED"
      BY <1>3, <3>1, AfterStatus DEF CommandRecord
    <3> QED BY <1>2, <2>1, <3>1, <3>2
  <2> QED BY <2>2, <2>3
<1>6. ASSUME NEW p \in polls, PollTick(p)
      PROVE  /\ \A q \in polls' : q.read = "VALIDATED" => server' = "VALIDATED"
             /\ status' = "VALIDATED" =>
                  server' = "VALIDATED" \/ \E d \in commands' : d.kind # "validate" /\ d.result # "sent"
  <2>1. p \in PollRecord
    BY TypeParts
  <2> DEFINE new == [p EXCEPT !.left = p.left - 1, !.read = server]
  <2>2. new.read = server /\ polls' = (polls \ {p}) \cup {new}
    BY <1>6, <2>1 DEF PollTick, PollRecord
  <2>3. UNCHANGED <<server, status, commands>>
    BY <1>6, Zenon DEF PollTick, vitamVars, rowVars
  <2> HIDE DEF new
  <2> QED BY <1>2, <2>2, <2>3
<1>7. ASSUME NEW p \in polls, PollAnswered(p) \/ PollFailed(p) \/ PollTimeout(p)
      PROVE  /\ \A q \in polls' : q.read = "VALIDATED" => server' = "VALIDATED"
             /\ status' = "VALIDATED" =>
                  server' = "VALIDATED" \/ \E d \in commands' : d.kind # "validate" /\ d.result # "sent"
  <2>1. p \in PollRecord
    BY TypeParts
  <2>2. [p EXCEPT !.read = NotRead].read = NotRead
    BY <2>1 DEF PollRecord
  <2>3. UNCHANGED <<server, commands>> /\ polls' \subseteq polls \cup {[p EXCEPT !.read = NotRead]}
    BY <1>7 DEF PollAnswered, PollFailed, PollTimeout, vitamVars, rowVars
  <2>4. status' \in {p.read, "KO", status}
    BY <1>7 DEF PollAnswered, PollFailed, PollTimeout, rowVars
  <2> QED BY <1>2, <2>2, <2>3, <2>4
<1>8. CASE Progress
  <2>1. UNCHANGED <<polls, status, commands>> /\ (server = "VALIDATED" => server' = "VALIDATED")
    BY <1>8 DEF Progress, rowVars
  <2> QED BY <1>2, <2>1
<1>9. CASE UNCHANGED <<server, status, polls>> /\ commands \subseteq commands'
  BY <1>2, <1>9
<1>10. \/ \E c \in commands : Process(c) \/ CommandAnswered(c)
       \/ Polling \/ Progress
       \/ UNCHANGED <<server, status, polls>> /\ commands \subseteq commands'
  BY DEF Next, ImportEnds, Upload, UploadAnswered, UploadFailed, Tracking, TrackerTick, TrackerAnswered,
         TrackerTimeout, TrackerFailed, BreakOff, EndTracker, ProjectLoaded, ClickValidate, Send, Confirm, Cancel, ClickOther,
         vars, vitamVars, rowVars
<1> QED BY <1>4, <1>5, <1>6, <1>7, <1>8, <1>9, <1>10 DEF Polling

-----------------------------------------------------------------------------
(* The invariant and what follows from it *)

\* The initial row satisfies SessionInv.
LEMMA InitSessionInv == Init => SessionInv
<1>1. Init => StartedInv /\ BlockedWhilePolled
  BY DEF Init, StartedInv, BlockedWhilePolled
<1>2. Init => WaitInv /\ ShownInv
  BY DEF Init, WaitInv, ShownInv, Unfinished, Watching
<1> QED BY <1>1, <1>2, InitTypeOK DEF SessionInv

\* SessionInv is inductive.
LEMMA NextSessionInv == SessionInv /\ [Next]_vars => SessionInv'
BY NextTypeOK, NextStartedInv, NextBlocked, NextWaitInv, NextShownInv DEF SessionInv

\* The imports, their pollings, the dialog and the row agree in every reachable
\* state, for any number of imports, polls and commands.
THEOREM SessionInvariant == Spec => []SessionInv
<1> QED BY InitSessionInv, NextSessionInv, PTL DEF Spec

\* The fields of the session hold what they are declared to hold: no polling
\* counts below zero, and none reads the state of an import that was never sent.
THEOREM TypeCorrect == Spec => []TypeOK
<1>1. SessionInv => TypeOK
  BY DEF SessionInv
<1> QED BY <1>1, SessionInvariant, PTL

\* The validation is blocked exactly while one polling can unblock it.
THEOREM ValidationIsUnblockedOnce == Spec => []BlockedWhilePolled
<1>1. SessionInv => BlockedWhilePolled
  BY DEF SessionInv
<1> QED BY <1>1, SessionInvariant, PTL

\* The row never offers to validate while an import it tracks is under way,
\* unless the polling of that import broke off.
THEOREM ValidationIsOfferedAfterImport == Spec => []OfferedAfterImport
<1>1. SessionInv => OfferedAfterImport
  BY DEF SessionInv, WaitInv, BlockedWhilePolled, OfferedAfterImport, Validatable, Watching
<1> QED BY <1>1, SessionInvariant, PTL

\* A row that shows VALIDATED is right, or about to change.
THEOREM RowIsTrue == Spec => []ValidatedIsTrue
<1>1. SessionInv => ValidatedIsTrue
  BY DEF SessionInv, ShownInv, ValidatedIsTrue
<1> QED BY <1>1, SessionInvariant, PTL
=============================================================================
