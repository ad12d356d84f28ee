-------------------------- MODULE PrintCompletions --------------------------
(***************************************************************************)
(* The history of prints: print-completion.socketio.task.ts writes it from *)
(* the events of OctoPrint, print-completion.service.ts (of either         *)
(* database) stores it and counts it for the user. The task is not among   *)
(* those of tasks.ts: it is created, and listens, from the first request   *)
(* about print completions on. Handlers of one printer's events overlap.   *)
(***************************************************************************)
EXTENDS Naturals, Sequences, FiniteSets

CONSTANTS Instances,  \* [db, printers, jobs: how many of each printer, notes: see Notes,
              \* budget: how often events are missed, commands fail and the server restarts]
          PageSize,   \* DEFAULT_PAGE of the lists of SQLite
          None

ASSUME PageIsNotEmpty == PageSize \in Nat \ {0}
ASSUME InstancesAreValid ==
  \A i \in Instances : i.db \in {"mongo", "sqlite"} /\ i.jobs \in Nat /\ i.budget \in Nat

VARIABLES
  mode,          \* the instance
  printer,       \* the printers themselves: jobs begun, whether one is printing, its notes
  listening,     \* the task exists
  contextCache,  \* of each printer: what is known of its job, None when undefined
  closed,        \* printers that the events cache shows as disconnected
  rows,          \* the stored completions in the order of their insertion
  calls,         \* MongoDB: the commands awaited
  past,          \* of each job of each printer, see Unheard
  left           \* disturbances left

vars == <<mode, printer, listening, contextCache, closed, rows, calls, past, left>>

\* The types of event a context collects: two for all of them.
Notes == {"Error", "Disconnected"}
Ends == {"PrintDone", "PrintFailed"}

ASSUME NoneIsNoEnd == None \notin Ends

\* What may be known of a job; a token stands for the job it was made for.
Contexts(i) == [id : {None} \cup (i.printers \X (1..i.jobs)), notes : SUBSET Notes]

ASSUME NoneIsNoContext ==
  \A i \in Instances : None \notin Contexts(i) /\ None \notin i.printers \X (1..i.jobs)

\* heard: the events of a job that were handled while it lasted; status: how it ended; notes:
\* those sent from its start to the next; spoilt: whether it may be recorded wrongly.
Unheard == [heard |-> {}, status |-> None, notes |-> {}, spoilt |-> FALSE]

EmptyContext == [id |-> None, notes |-> {}]

\* A job's start and end are the times of its completions.
Row(p, j, status, context) ==
  [printerId |-> p, status |-> status, context |-> context, job |-> j,
   createdAt |-> 2 * j + (IF status = "PrintStarted" THEN 0 ELSE 1)]

Init ==
  /\ mode \in Instances
  /\ printer = [p \in mode.printers |-> [job |-> 0, printing |-> FALSE, notes |-> {}]]
  /\ listening = FALSE
  /\ contextCache = [p \in mode.printers |-> None]
  /\ closed = {}
  /\ rows = <<>> /\ calls = {}
  /\ past = [p \in mode.printers |-> [j \in 1..mode.jobs |-> Unheard]]
  /\ left = mode.budget

Spend == left > 0 /\ left' = left - 1

\* Commands awaited for printer p.
Creating(p, statuses) ==
  {call \in calls : call.printerId = p /\ call.at = "create" /\ call.row.status \in statuses}
Updating(p) == {call \in calls : call.printerId = p /\ call.at # "create"}

(***************************************************************************)
(* handleMessage                                                           *)
(***************************************************************************)
Create(row) == [printerId |-> row.printerId, at |-> "create", row |-> row, job |-> row.job]

\* MongoDB: a document is inserted later, SQLite: a row now.
Creates(row) ==
  IF mode.db = "mongo" THEN calls' = calls \cup {Create(row)} /\ rows' = rows
  ELSE rows' = Append(rows, row) /\ calls' = calls

\* The correlation token is new: printer and number of the job stand for it.
StartedContext(p, j) == [id |-> <<p, j>>, notes |-> {}]

PrintStarted(p, j) ==
  /\ contextCache' = [contextCache EXCEPT ![p] = StartedContext(p, j)]
  /\ Creates(Row(p, j, "PrintStarted", StartedContext(p, j)))
  /\ closed' = closed

\* createPrintCompletionRules of MongoDB refuse an undefined context; whether they take one
\* without a field is left open.
Accepted(context) == mode.db = "sqlite" \/ context # None
Rejected(context) == mode.db = "mongo" /\ context \in {None, EmptyContext}

\* PrintFailed and PrintDone: the context is cleared after the insertion.
PrintEnded(p, j, status) ==
  /\ closed' = closed
  /\ \/ /\ Accepted(contextCache[p])
        /\ Creates(Row(p, j, status, contextCache[p]))
        /\ contextCache' = IF mode.db = "mongo" THEN contextCache
                           ELSE [contextCache EXCEPT ![p] = EmptyContext]
     \/ /\ Rejected(contextCache[p])
        /\ UNCHANGED <<rows, calls, contextCache>>

\* Mutant: only the last note is kept.
WithLastNote(context, note) == [id |-> IF context = None THEN None ELSE context.id, notes |-> {note}]

WithNote(context, note) ==
  LET known == IF context = None THEN EmptyContext ELSE context
  IN  [known EXCEPT !.notes = @ \cup {note}]

Started(id) == {i \in DOMAIN rows :
  rows[i].status = "PrintStarted" /\ rows[i].context.id = id}

Updated(id, context) ==
  [i \in DOMAIN rows |-> IF i \in Started(id) THEN [rows[i] EXCEPT !.context = context] ELSE rows[i]]

\* updateContext. SQLite compares an object with a JSON column: at best it finds the row that
\* has nothing but the id.
UpdateContext(p, j, context) ==
  CASE context.id = None -> UNCHANGED <<rows, calls>>
    [] context.id # None /\ mode.db = "mongo" ->
         /\ calls' = calls \cup {[printerId |-> p, at |-> "find", context |-> context, job |-> j]}
         /\ rows' = rows
    [] OTHER ->
         /\ calls' = calls
         /\ \/ rows' = rows
            \/ /\ \A i \in Started(context.id) : rows[i].context.notes = {}
               /\ rows' = Updated(context.id, context)

\* The state that the events cache shows of a printer.
SetDisconnected(p) == closed \cup {p}

\* An event that the context collects; a disconnection is shown at once.
NoteEvent(p, note) ==
  LET context == WithNote(contextCache[p], note)
  IN  /\ contextCache' = [contextCache EXCEPT ![p] = context]
      /\ closed' = IF note = "Disconnected" THEN SetDisconnected(p) ELSE closed
      /\ UpdateContext(p, printer[p].job, context)

(***************************************************************************)
(* Events of the printers                                                  *)
(***************************************************************************)
\* The event is handled, or it is not: nobody listens yet, or the websocket is closed.
Delivered(handler) == listening /\ handler /\ left' = left
Missed ==
  /\ IF listening THEN Spend ELSE left' = left
  /\ UNCHANGED <<contextCache, closed, rows, calls>>

\* The context of a start is cleared by the end before it, and an end takes the context that
\* is about to be; an update does not find its row yet, or overlaps another one.
SpoilsStart(p) == Creating(p, Ends) # {}
SpoilsNote(p, j) ==
  \/ Creating(p, {"PrintStarted"}) # {}
  \/ \E call \in Updating(p) : call.job = j

\* What becomes of the jobs of p when event e of job j is handled, or missed: the jobs whose
\* ends are not stored yet may be taken for j.
Recorded(p, j, e, heard, spoils) ==
  [k \in 1..mode.jobs |->
    IF k # j THEN [past[p][k] EXCEPT !.spoilt = @ \/ \E call \in Creating(p, Ends) : call.job = k]
    ELSE [past[p][k] EXCEPT !.heard = IF heard THEN @ \cup {e} ELSE @,
                            !.spoilt = @ \/ ~heard \/ spoils]]

Start(p) ==
  LET j == printer[p].job + 1
  IN  /\ ~printer[p].printing /\ j \in 1..mode.jobs
      /\ printer' = [printer EXCEPT ![p] = [job |-> j, printing |-> TRUE, notes |-> {}]]
      /\ \E heard \in BOOLEAN :
           /\ IF heard THEN Delivered(PrintStarted(p, j)) ELSE Missed
           /\ past' = [past EXCEPT ![p][j] = Recorded(p, j, "start", heard, SpoilsStart(p))[j]]
      /\ UNCHANGED <<mode, listening>>

End(p, status) ==
  LET j == printer[p].job
  IN  /\ printer[p].printing
      /\ printer' = [printer EXCEPT ![p].printing = FALSE]
      /\ \E heard \in BOOLEAN :
           /\ IF heard THEN Delivered(PrintEnded(p, j, status)) ELSE Missed
           /\ past' = [past EXCEPT ![p] =
                [Recorded(p, j, "end", heard, FALSE) EXCEPT ![j].status = status]]
      /\ UNCHANGED <<mode, listening>>

\* While it prints, or after that, when it goes unnoticed if it is missed; each note once for
\* a job: a bound.
Note(p, note) ==
  LET j == printer[p].job
  IN  /\ j > 0 /\ note \in mode.notes \ printer[p].notes
      /\ printer' = [printer EXCEPT ![p].notes = @ \cup {note}]
      /\ \E heard \in BOOLEAN :
           /\ heard \/ printer[p].printing
           /\ IF heard THEN Delivered(NoteEvent(p, note)) ELSE Missed
           /\ past' = [past EXCEPT ![p] =
                [Recorded(p, j, IF printer[p].printing THEN note ELSE "later", heard, SpoilsNote(p, j))
                   EXCEPT ![j].notes = @ \cup {note}]]
      /\ UNCHANGED <<mode, listening>>

\* The next message with the printer's state.
Current(p) ==
  /\ p \in closed /\ closed' = closed \ {p}
  /\ UNCHANGED <<mode, printer, listening, contextCache, rows, calls, past, left>>

(***************************************************************************)
(* MongoDB: a command is executed and the code behind it runs              *)
(***************************************************************************)
\* Mutant: the context is kept after the end of a print.
InsertedOnly(call) ==
  /\ call.at = "create" /\ calls' = calls \ {call}
  /\ rows' = Append(rows, call.row) /\ contextCache' = contextCache
  /\ UNCHANGED <<mode, printer, listening, closed, past, left>>

Inserted(call) ==
  /\ call.at = "create" /\ calls' = calls \ {call}
  /\ rows' = Append(rows, call.row)
  /\ contextCache' = IF call.row.status \in Ends
                     THEN [contextCache EXCEPT ![call.printerId] = EmptyContext] ELSE contextCache
  /\ UNCHANGED <<mode, printer, listening, closed, past, left>>

Found(call) ==
  /\ call.at = "find"
  /\ calls' = (calls \ {call}) \cup
       IF Started(call.context.id) = {} THEN {} ELSE {[call EXCEPT !.at = "save"]}
  /\ UNCHANGED <<mode, printer, listening, contextCache, closed, rows, past, left>>

Saved(call) ==
  /\ call.at = "save" /\ calls' = calls \ {call}
  /\ rows' = Updated(call.context.id, call.context)
  /\ UNCHANGED <<mode, printer, listening, contextCache, closed, past, left>>

Failed(call) ==
  /\ Spend
  /\ calls' = calls \ {call}
  /\ past' = [past EXCEPT ![call.printerId][call.job].spoilt = TRUE]
  /\ UNCHANGED <<mode, printer, listening, contextCache, closed, rows>>

(***************************************************************************)
(* The server                                                              *)
(***************************************************************************)
\* A request to print-completion.controller.ts creates the task.
Listen ==
  /\ ~listening /\ listening' = TRUE
  /\ UNCHANGED <<mode, printer, contextCache, closed, rows, calls, past, left>>

Restart ==
  /\ listening /\ Spend
  /\ listening' = FALSE /\ calls' = {}
  /\ contextCache' = [p \in mode.printers |-> None]
  /\ closed' = {}
  /\ past' = [p \in mode.printers |-> [j \in 1..mode.jobs |->
       [past[p][j] EXCEPT !.spoilt = @ \/ (printer[p].printing /\ printer[p].job = j)
                                      \/ \E call \in calls : call.printerId = p /\ call.job = j]]]
  /\ UNCHANGED <<mode, printer, rows>>

Next ==
  \/ \E p \in mode.printers :
       \/ Start(p) \/ Current(p)
       \/ \E status \in Ends : End(p, status)
       \/ \E note \in Notes : Note(p, note)
  \/ \E call \in calls : Inserted(call) \/ Found(call) \/ Saved(call) \/ Failed(call)
  \/ Listen \/ Restart

Spec == Init /\ [][Next]_vars

(***************************************************************************)
(* What the user is shown: listGroupByPrinterStatus                        *)
(***************************************************************************)
\* MongoDB groups all completions, SQLite a first page of them.
Listed == IF mode.db = "mongo" THEN {rows[i] : i \in DOMAIN rows}
          ELSE {rows[i] : i \in {k \in DOMAIN rows : k <= PageSize}}

\* Mutant: the first event of a job is its last.
EarliestOf(events) ==
  IF events = {} THEN None ELSE CHOOSE e \in events : \A f \in events : e.createdAt <= f.createdAt

LatestOf(events) ==
  IF events = {} THEN None ELSE CHOOSE e \in events : \A f \in events : f.createdAt <= e.createdAt

CorrelationId(event) == IF event.context = None THEN None ELSE event.context.id

\* Of one printer; the counts of the last week and days are left out.
ProcessCompletions(printEvents) ==
  LET ids == {CorrelationId(e) : e \in printEvents}
      failures == {e \in printEvents : e.status = "PrintFailed"}
      successes == {e \in printEvents : e.status = "PrintDone"}
  IN  [printJobs |-> [id \in ids |-> LatestOf({e \in printEvents : CorrelationId(e) = id})],
       printCount |-> Cardinality(ids), eventCount |-> Cardinality(printEvents),
       failureCount |-> Cardinality(failures), lastFailure |-> LatestOf(failures),
       successCount |-> Cardinality(successes), lastSuccess |-> LatestOf(successes)]

Shown(p) == ProcessCompletions({e \in Listed : e.printerId = p})

(***************************************************************************)
(* Properties                                                              *)
(***************************************************************************)
\* A job whose start was heard is never filed under another job, whatever else is missed,
\* fails or overlaps (handleMessage gives each start a new token). One whose start was missed
\* may be, but only if the end of the other was never recorded when this one ended.
NoMixedJobs ==
  \A i \in DOMAIN rows :
    LET r == rows[i]
        id == CorrelationId(r)
    IN  id \notin {None, <<r.printerId, r.job>>} =>
          /\ "start" \notin past[r.printerId][r.job].heard
          /\ past[r.printerId][id[2]].spoilt

\* MongoDB: when its commands are done, the row of a job that was not spoilt has every note
\* handled while it lasted, and none of another job (updateContext). With SQLite the rows
\* keep the context of the start.
NotesStored ==
  mode.db = "mongo" => \A p \in mode.printers, j \in 1..mode.jobs :
    LET job == past[p][j]
    IN  "start" \in job.heard /\ ~job.spoilt /\ (\A call \in calls : call.printerId = p => call.job # j) =>
          \E i \in Started(<<p, j>>) :
            /\ job.heard \cap Notes \subseteq rows[i].context.notes
            /\ rows[i].context.notes \subseteq job.notes

\* A user who looks when no command is awaited sees each job of a printer that was heard from
\* start to end, with how it ended, and counted once, if no job of the printer was heard in
\* part only or spoilt; with SQLite, while the completions of all printers fit on a page.
StatsAgree ==
  calls = {} /\ (mode.db = "sqlite" => Len(rows) <= PageSize) => \A p \in mode.printers :
    LET heard == {j \in 1..mode.jobs : past[p][j].heard \ {"later"} # {}}
        ended(s) == {j \in heard : past[p][j].status = s}
        shown == Shown(p)
    IN  (\A j \in heard : ~past[p][j].spoilt) =>
          /\ shown.printCount = Cardinality(heard)
          /\ shown.successCount = Cardinality(ended("PrintDone"))
          /\ shown.failureCount = Cardinality(ended("PrintFailed"))
          /\ \A s \in Ends : \A j \in ended(s) : shown.printJobs[<<p, j>>].status = s
=============================================================================
