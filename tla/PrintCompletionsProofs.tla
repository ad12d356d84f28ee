----------------------- MODULE PrintCompletionsProofs -----------------------
(***************************************************************************)
(* Proofs about PrintCompletions, for any printers, numbers of jobs and    *)
(* disturbances: no job is filed under another one, with MongoDB the notes *)
(* of a job are stored with it, and the statistics agree with the jobs.    *)
(*                                                                         *)
(* The first follows from what the contexts of the printers may hold: the  *)
(* token of the job that is printing, or of an earlier one whose end was   *)
(* missed or is being stored. The second follows from that and from the    *)
(* commands of a job that is not spoilt: its start is inserted before      *)
(* anything is noted, and then there is one update at a time. The third    *)
(* follows from Counted: what was heard of a job that is not spoilt is     *)
(* stored, or about to be, the end of a job never twice. So the rows that  *)
(* are counted correspond one to one to the jobs.                          *)
(***************************************************************************)
EXTENDS PrintCompletions, FiniteSetTheorems, FunctionTheorems, TLAPS

(***************************************************************************)
(* The values of the state                                                 *)
(***************************************************************************)
Statuses == {"PrintStarted"} \cup Ends

Events == {"start", "end", "later"} \cup Notes

\* For the instance i.
Rows(i) ==
  {r \in [printerId : i.printers, status : Statuses, context : Contexts(i) \cup {None},
          job : 1..i.jobs, createdAt : Nat] :
     /\ r.status = "PrintStarted" => r.context # None
     /\ r.createdAt = 2 * r.job + (IF r.status = "PrintStarted" THEN 0 ELSE 1)}

PastOK(job) ==
  /\ job = [heard |-> job.heard, status |-> job.status, notes |-> job.notes, spoilt |-> job.spoilt]
  /\ job.heard \subseteq Events /\ job.notes \subseteq Notes

PrinterOK(i, q) ==
  /\ q = [job |-> q.job, printing |-> q.printing, notes |-> q.notes]
  /\ q.job \in 0..i.jobs /\ (q.printing => q.job > 0)

CreateOK(i, c) == c.row \in Rows(i) /\ c = Create(c.row)

UpdateOK(i, c) ==
  /\ c.printerId \in i.printers /\ c.job \in 1..i.jobs
  /\ c.at \in {"find", "save"} /\ c.context \in Contexts(i) /\ c.context.id # None
  /\ c = [printerId |-> c.printerId, at |-> c.at, context |-> c.context, job |-> c.job]

CallOK(i, c) == CreateOK(i, c) \/ UpdateOK(i, c)

Shaped ==
  /\ mode \in Instances
  /\ DOMAIN printer = mode.printers /\ \A p \in mode.printers : PrinterOK(mode, printer[p])
  /\ DOMAIN contextCache = mode.printers
  /\ \A p \in mode.printers : contextCache[p] \in Contexts(mode) \cup {None}
  /\ rows \in Seq(Rows(mode))
  /\ \A c \in calls : CallOK(mode, c)
  /\ DOMAIN past = mode.printers
  /\ \A p \in mode.printers :
       DOMAIN past[p] = 1..mode.jobs /\ \A j \in 1..mode.jobs : PastOK(past[p][j])

\* The bounds of an instance.
LEMMA InstanceFacts ==
  ASSUME NEW i \in Instances
  PROVE  /\ i.db \in {"mongo", "sqlite"} /\ i.jobs \in Nat
         /\ None \notin Contexts(i) /\ None \notin i.printers \X (1..i.jobs)
  BY InstancesAreValid, NoneIsNoContext

\* A note is added to what is known of a job.
LEMMA ContextWithNote ==
  ASSUME NEW i \in Instances, NEW context \in Contexts(i) \cup {None}, NEW note \in Notes
  PROVE  /\ WithNote(context, note) \in Contexts(i)
         /\ WithNote(context, note).id = IF context = None THEN None ELSE context.id
         /\ WithNote(context, note).notes = (IF context = None THEN {} ELSE context.notes) \cup {note}
  BY InstanceFacts DEF WithNote, EmptyContext, Contexts

\* The contexts of a start and of an end.
LEMMA FreshContexts ==
  ASSUME NEW i \in Instances, NEW p \in i.printers, NEW j \in 1..i.jobs
  PROVE  /\ StartedContext(p, j) \in Contexts(i) /\ EmptyContext \in Contexts(i)
         /\ StartedContext(p, j) # None /\ EmptyContext # None
         /\ StartedContext(p, j).id = <<p, j>> /\ StartedContext(p, j).notes = {}
         /\ EmptyContext.id = None
         /\ <<p, j>> # None
  BY InstanceFacts DEF StartedContext, EmptyContext, Contexts

\* A completion and the command that inserts it.
LEMMA RowFields ==
  ASSUME NEW i \in Instances, NEW p \in i.printers, NEW j \in 1..i.jobs, NEW s \in Statuses,
         NEW context \in Contexts(i) \cup {None}, s = "PrintStarted" => context # None
  PROVE  LET r == Row(p, j, s, context)
         IN  /\ r \in Rows(i) /\ r.printerId = p /\ r.job = j /\ r.status = s /\ r.context = context
             /\ Create(r).printerId = p /\ Create(r).job = j /\ Create(r).at = "create"
             /\ Create(r).row = r /\ CreateOK(i, Create(r))
<1> DEFINE r == Row(p, j, s, context)
<1>1. r.createdAt \in Nat BY InstanceFacts DEF Row
<1>2. r \in Rows(i) /\ r.printerId = p /\ r.job = j /\ r.status = s /\ r.context = context
  BY <1>1 DEF Row, Rows
<1>3. QED BY <1>2 DEF Create, CreateOK

\* What is known of a command.
LEMMA CallFacts ==
  ASSUME NEW i \in Instances, NEW c, CallOK(i, c)
  PROVE  /\ c.printerId \in i.printers /\ c.job \in 1..i.jobs
         /\ c.at \in {"create", "find", "save"}
         /\ c.at = "create" => CreateOK(i, c) /\ c.row \in Rows(i) /\ c.printerId = c.row.printerId
                               /\ c.job = c.row.job
         /\ c.at # "create" => UpdateOK(i, c)
  BY DEF CallOK, CreateOK, UpdateOK, Create, Rows

\* A command that found its row saves the context it has.
LEMMA SavingFields ==
  ASSUME NEW i \in Instances, NEW c, UpdateOK(i, c)
  PROVE  LET d == [c EXCEPT !.at = "save"]
         IN  /\ UpdateOK(i, d) /\ d.at = "save" /\ d.printerId = c.printerId /\ d.job = c.job
             /\ d.context = c.context
  BY DEF UpdateOK

(***************************************************************************)
(* Stored completions                                                      *)
(***************************************************************************)
\* The completions of starts with the token id, among rs.
StartedIn(rs, id) == {i \in DOMAIN rs : rs[i].status = "PrintStarted" /\ rs[i].context.id = id}

\* An update changes the contexts of the rows with its token, and nothing else of them.
LEMMA UpdatedRows ==
  ASSUME mode \in Instances, rows \in Seq(Rows(mode)), NEW context \in Contexts(mode),
         NEW rs, rs = Updated(context.id, context)
  PROVE  /\ rs \in Seq(Rows(mode)) /\ DOMAIN rs = DOMAIN rows
         /\ \A n \in DOMAIN rows :
              /\ n \notin Started(context.id) => rs[n] = rows[n]
              /\ rs[n].printerId = rows[n].printerId /\ rs[n].job = rows[n].job
              /\ rs[n].status = rows[n].status /\ CorrelationId(rs[n]) = CorrelationId(rows[n])
              /\ n \in Started(context.id) => rs[n].context = context
<1>1. DOMAIN rs = DOMAIN rows BY DEF Updated
<1>2. \A n \in DOMAIN rows :
        /\ n \in Started(context.id) => rs[n] = [rows[n] EXCEPT !.context = context]
        /\ n \notin Started(context.id) => rs[n] = rows[n]
  BY DEF Updated
<1>3. \A n \in DOMAIN rows : rows[n] \in Rows(mode) OBVIOUS
<1>4. context # None BY InstanceFacts
<1>5. ASSUME NEW n \in DOMAIN rows, n \in Started(context.id)
      PROVE  /\ rs[n] \in Rows(mode) /\ rs[n].context = context
             /\ rs[n].printerId = rows[n].printerId /\ rs[n].job = rows[n].job
             /\ rs[n].status = rows[n].status /\ CorrelationId(rs[n]) = CorrelationId(rows[n])
  <2>1. rows[n] \in Rows(mode) /\ rows[n].status = "PrintStarted" /\ rows[n].context.id = context.id
    BY <1>3, <1>5 DEF Started
  <2>2. rs[n] = [rows[n] EXCEPT !.context = context] BY <1>2, <1>5
  <2>3. /\ rs[n] \in Rows(mode) /\ rs[n].context = context
        /\ rs[n].printerId = rows[n].printerId /\ rs[n].job = rows[n].job
        /\ rs[n].status = rows[n].status
    BY <2>1, <2>2, <1>4 DEF Rows
  <2>4. CorrelationId(rs[n]) = CorrelationId(rows[n])
    BY <2>1, <2>3, <1>4 DEF CorrelationId, Rows
  <2>5. QED BY <2>3, <2>4
<1>6. \A n \in DOMAIN rs : rs[n] \in Rows(mode) BY <1>1, <1>2, <1>3, <1>5
<1>7. rs \in Seq(Rows(mode))
  <2>1. rs = [n \in DOMAIN rows |-> rs[n]] BY <1>1 DEF Updated
  <2>2. DOMAIN rows = 1..Len(rows) /\ Len(rows) \in Nat OBVIOUS
  <2>3. rs \in [1..Len(rows) -> Rows(mode)] BY <1>1, <1>6, <2>1, <2>2
  <2>4. QED BY <2>2, <2>3
<1>8. QED BY <1>1, <1>2, <1>5, <1>7

\* A new completion comes last.
LEMMA AppendedRows ==
  ASSUME mode \in Instances, rows \in Seq(Rows(mode)), NEW r \in Rows(mode),
         NEW rs, rs = Append(rows, r)
  PROVE  /\ rs \in Seq(Rows(mode)) /\ DOMAIN rs = DOMAIN rows \cup {Len(rows) + 1}
         /\ rs[Len(rows) + 1] = r /\ \A n \in DOMAIN rows : rs[n] = rows[n]
         /\ \A n \in DOMAIN rs : n \in DOMAIN rows \/ rs[n] = r
  OBVIOUS

(***************************************************************************)
(* What a step does                                                        *)
(***************************************************************************)
\* The end of job k of printer p is being stored.
Ending(p, k) == \E call \in Creating(p, Ends) : call.job = k

\* The instance stays, and so does everything about the printers but p.
Others(p) ==
  /\ mode' = mode /\ p \in mode.printers
  /\ DOMAIN printer' = mode.printers /\ DOMAIN contextCache' = mode.printers
  /\ DOMAIN past' = mode.printers
  /\ \A q \in mode.printers \ {p} :
       printer'[q] = printer[q] /\ contextCache'[q] = contextCache[q] /\ past'[q] = past[q]

\* Job k of printer p after an event of another one; it is spoilt if its end was being stored.
Passed(p, k) ==
  /\ past'[p][k].heard = past[p][k].heard /\ past'[p][k].notes = past[p][k].notes
  /\ past'[p][k].spoilt <=> past[p][k].spoilt \/ Ending(p, k)

\* Job j of printer p after its event e was handled, or missed.
Handled(p, j, e, spoils) ==
  /\ past'[p][j].heard = past[p][j].heard \cup {e}
  /\ past'[p][j].spoilt <=> past[p][j].spoilt \/ spoils
Lost(p, j) == past'[p][j].heard = past[p][j].heard /\ past'[p][j].spoilt

Unchanged(p) == contextCache'[p] = contextCache[p] /\ rows' = rows /\ calls' = calls

StartStep(p, j) ==
  /\ Others(p) /\ j = printer[p].job + 1 /\ j \in 1..mode.jobs /\ ~printer[p].printing
  /\ printer'[p].job = j /\ printer'[p].printing /\ PrinterOK(mode, printer'[p])
  /\ DOMAIN past'[p] = 1..mode.jobs /\ \A k \in 1..mode.jobs : PastOK(past'[p][k])
  /\ \A k \in 1..mode.jobs \ {j} : past'[p][k] = past[p][k]
  /\ past'[p][j].notes = past[p][j].notes
  /\ \/ /\ Handled(p, j, "start", SpoilsStart(p))
        /\ contextCache'[p] = StartedContext(p, j)
        /\ Creates(Row(p, j, "PrintStarted", StartedContext(p, j)))
     \/ Lost(p, j) /\ Unchanged(p)

EndStep(p, j, status) ==
  /\ Others(p) /\ j = printer[p].job /\ j \in 1..mode.jobs /\ printer[p].printing
  /\ status \in Ends
  /\ printer'[p].job = j /\ ~printer'[p].printing /\ PrinterOK(mode, printer'[p])
  /\ DOMAIN past'[p] = 1..mode.jobs /\ \A k \in 1..mode.jobs : PastOK(past'[p][k])
  /\ \A k \in 1..mode.jobs \ {j} : Passed(p, k)
  /\ past'[p][j].notes = past[p][j].notes
  /\ \/ /\ Handled(p, j, "end", FALSE)
        /\ \/ /\ Creates(Row(p, j, status, contextCache[p]))
              /\ \/ contextCache'[p] = contextCache[p] /\ mode.db = "mongo"
                 \/ contextCache'[p] = EmptyContext /\ mode.db = "sqlite"
           \/ Unchanged(p) /\ contextCache[p] \in {None, EmptyContext}
     \/ Lost(p, j) /\ Unchanged(p)

NoteStep(p, j, note) ==
  /\ Others(p) /\ j = printer[p].job /\ j \in 1..mode.jobs /\ note \in Notes
  /\ printer'[p].job = j /\ printer'[p].printing = printer[p].printing
  /\ PrinterOK(mode, printer'[p])
  /\ DOMAIN past'[p] = 1..mode.jobs /\ \A k \in 1..mode.jobs : PastOK(past'[p][k])
  /\ \A k \in 1..mode.jobs \ {j} : Passed(p, k)
  /\ past'[p][j].notes = past[p][j].notes \cup {note}
  /\ \/ /\ Handled(p, j, IF printer[p].printing THEN note ELSE "later", SpoilsNote(p, j))
        /\ contextCache'[p] = WithNote(contextCache[p], note)
        /\ UpdateContext(p, j, WithNote(contextCache[p], note))
     \/ Lost(p, j) /\ Unchanged(p)

\* A job may be marked as spoilt.
LEMMA SpoiltField ==
  ASSUME NEW job, PastOK(job), NEW spoilt
  PROVE  LET fresh == [job EXCEPT !.spoilt = spoilt]
         IN  /\ PastOK(fresh) /\ fresh.notes = job.notes /\ fresh.heard = job.heard
             /\ fresh.spoilt = spoilt
  BY DEF PastOK

\* The record fresh of a job, made from job.
Renewed(fresh, job, heard, spoilt) ==
  /\ PastOK(fresh) /\ fresh.notes = job.notes /\ fresh.heard = heard /\ fresh.spoilt = spoilt

\* An event of a job is heard.
LEMMA HeardField ==
  ASSUME NEW job, PastOK(job), NEW heard, heard \subseteq Events, NEW spoilt
  PROVE  Renewed([job EXCEPT !.heard = heard, !.spoilt = spoilt], job, heard, spoilt)
<1> DEFINE fresh == [job EXCEPT !.heard = heard, !.spoilt = spoilt]
<1> DEFINE listened == [heard |-> heard, status |-> job.status, notes |-> job.notes,
                        spoilt |-> job.spoilt]
<1>1. [job EXCEPT !.heard = heard] = listened BY DEF PastOK
<1>2. fresh = [listened EXCEPT !.spoilt = spoilt] BY <1>1, Zenon
<1>3. fresh = [heard |-> heard, status |-> job.status, notes |-> job.notes, spoilt |-> spoilt]
  BY <1>2
<1> HIDE DEF fresh
<1>4. Renewed(fresh, job, heard, spoilt) BY <1>3 DEF PastOK, Renewed
<1>5. QED BY <1>4 DEF fresh

\* fresh is the record of job k of printer p after an event e of job j.
RecordedAs(fresh, p, j, e, heard, spoils, k) ==
  /\ PastOK(fresh) /\ fresh.notes = past[p][k].notes
  /\ k # j => /\ fresh.heard = past[p][k].heard
              /\ fresh.spoilt <=> past[p][k].spoilt \/ Ending(p, k)
  /\ k = j => /\ heard => fresh.heard = past[p][k].heard \cup {e}
              /\ ~heard => fresh.heard = past[p][k].heard
              /\ fresh.spoilt <=> past[p][k].spoilt \/ ~heard \/ spoils

\* A record of the past after an event, for the job itself and for the others.
LEMMA RecordedFields ==
  ASSUME NEW p \in mode.printers, NEW j, NEW e \in Events, NEW spoils, NEW k \in 1..mode.jobs,
         PastOK(past[p][k]), NEW heard
  PROVE  RecordedAs(Recorded(p, j, e, heard, spoils)[k], p, j, e, heard, spoils, k)
<1> DEFINE fresh == Recorded(p, j, e, heard, spoils)[k]
           old == past[p][k]
           other == [old EXCEPT !.spoilt = @ \/ \E call \in Creating(p, Ends) : call.job = k]
           events == IF heard THEN old.heard \cup {e} ELSE old.heard
           spoilt == old.spoilt \/ ~heard \/ spoils
           own == [old EXCEPT !.heard = events, !.spoilt = spoilt]
<1>1. fresh = IF k # j THEN other ELSE own BY DEF Recorded
<1>2. /\ PastOK(other) /\ other.notes = old.notes /\ other.heard = old.heard
      /\ other.spoilt <=> old.spoilt \/ Ending(p, k)
  BY SpoiltField, Zenon DEF Ending
<1>3. /\ PastOK(own) /\ own.notes = old.notes
      /\ own.heard = events /\ own.spoilt = spoilt
  <2>1. events \subseteq Events /\ PastOK(old) BY DEF PastOK
  <2> HIDE DEF events, spoilt, old
  <2>2. Renewed(own, old, events, spoilt) BY <2>1, HeardField, Zenon
  <2> HIDE DEF own
  <2>3. QED BY <2>2 DEF Renewed
<1>4. fresh.spoilt <=> IF k # j THEN old.spoilt \/ Ending(p, k) ELSE spoilt
  BY <1>1, <1>2, <1>3, Zenon
<1> HIDE DEF other, own, fresh
<1>5. RecordedAs(fresh, p, j, e, heard, spoils, k) BY <1>1, <1>2, <1>3, <1>4 DEF RecordedAs
<1>6. QED BY <1>5 DEF fresh

\* A print starts.
LEMMA Starts ==
  ASSUME Shaped, NEW p \in mode.printers, Start(p)
  PROVE  StartStep(p, printer[p].job + 1)
<1> DEFINE j == printer[p].job + 1
<1>1. j \in 1..mode.jobs /\ ~printer[p].printing BY DEF Start
<1>2. /\ printer' = [printer EXCEPT ![p] = [job |-> j, printing |-> TRUE, notes |-> {}]]
      /\ mode' = mode
  BY DEF Start
<1>3. PICK heard \in BOOLEAN :
        /\ IF heard THEN Delivered(PrintStarted(p, j)) ELSE Missed
        /\ past' = [past EXCEPT ![p][j] = Recorded(p, j, "start", heard, SpoilsStart(p))[j]]
  BY DEF Start
<1>4. /\ DOMAIN printer = mode.printers /\ DOMAIN contextCache = mode.printers
      /\ DOMAIN past = mode.printers /\ DOMAIN past[p] = 1..mode.jobs
      /\ \A k \in 1..mode.jobs : PastOK(past[p][k])
  BY DEF Shaped
<1>5. DOMAIN past' = mode.printers /\ \A q \in mode.printers \ {p} : past'[q] = past[q]
  BY <1>3, <1>4
<1>6. /\ DOMAIN past'[p] = 1..mode.jobs
      /\ \A k \in 1..mode.jobs \ {j} : past'[p][k] = past[p][k]
      /\ past'[p][j] = Recorded(p, j, "start", heard, SpoilsStart(p))[j]
  BY <1>1, <1>3, <1>4
<1>7. /\ PastOK(past'[p][j]) /\ past'[p][j].notes = past[p][j].notes
      /\ heard => past'[p][j].heard = past[p][j].heard \cup {"start"}
      /\ ~heard => past'[p][j].heard = past[p][j].heard
      /\ past'[p][j].spoilt <=> past[p][j].spoilt \/ ~heard \/ SpoilsStart(p)
  <2>1. "start" \in Events BY DEF Events
  <2>2. RecordedAs(past'[p][j], p, j, "start", heard, SpoilsStart(p), j)
    BY <1>1, <1>4, <1>6, <2>1, RecordedFields, Zenon
  <2>3. QED BY <2>2 DEF RecordedAs
<1>8. /\ DOMAIN printer' = mode.printers /\ printer'[p].job = j /\ printer'[p].printing
      /\ PrinterOK(mode, printer'[p])
      /\ \A q \in mode.printers \ {p} : printer'[q] = printer[q]
  <2>1. DOMAIN printer' = mode.printers /\ \A q \in mode.printers \ {p} : printer'[q] = printer[q]
    BY <1>2, <1>4
  <2>2. printer'[p] = [job |-> j, printing |-> TRUE, notes |-> {}] BY <1>2, <1>4
  <2>3. j \in 0..mode.jobs BY <1>1
  <2>4. QED BY <1>1, <2>1, <2>2, <2>3, InstanceFacts DEF PrinterOK, Shaped
<1>9. CASE heard
  <2>1. /\ contextCache' = [contextCache EXCEPT ![p] = StartedContext(p, j)]
        /\ Creates(Row(p, j, "PrintStarted", StartedContext(p, j)))
    BY <1>3, <1>9 DEF Delivered, PrintStarted
  <2>2. /\ DOMAIN contextCache' = mode.printers /\ contextCache'[p] = StartedContext(p, j)
        /\ \A q \in mode.printers \ {p} : contextCache'[q] = contextCache[q]
    BY <1>4, <2>1
  <2>3. Others(p) BY <1>2, <1>5, <1>8, <2>2 DEF Others
  <2>4. Handled(p, j, "start", SpoilsStart(p)) BY <1>7, <1>9 DEF Handled
  <2>5. QED BY <1>1, <1>4, <1>6, <1>7, <1>8, <2>1, <2>2, <2>3, <2>4 DEF StartStep
<1>10. CASE ~heard
  <2>1. Unchanged(p) /\ contextCache' = contextCache BY <1>3, <1>10 DEF Missed, Unchanged
  <2>2. Others(p) BY <1>2, <1>4, <1>5, <1>8, <2>1 DEF Others
  <2>3. Lost(p, j) BY <1>7, <1>10 DEF Lost
  <2>4. QED BY <1>1, <1>4, <1>6, <1>7, <1>8, <2>1, <2>2, <2>3 DEF StartStep
<1>11. QED BY <1>9, <1>10

\* The records of printer p after the event e of its job j.
EventOf(p, j, e, spoils, heard) ==
  /\ DOMAIN past' = mode.printers
  /\ \A q \in mode.printers \ {p} : past'[q] = past[q]
  /\ \A k \in 1..mode.jobs \ {j} :
       /\ past'[p][k].heard = past[p][k].heard
       /\ past'[p][k].spoilt <=> past[p][k].spoilt \/ Ending(p, k)
  /\ j \in 1..mode.jobs /\ heard => Handled(p, j, e, spoils)
  /\ j \in 1..mode.jobs /\ ~heard => Lost(p, j)

\* What an event of a print that has begun does to the record of it, and to the others.
LEMMA EventRecorded ==
  ASSUME Shaped, NEW p \in mode.printers, NEW j, NEW e \in Events, NEW spoils, NEW heard,
         NEW fresh, DOMAIN fresh = 1..mode.jobs,
         \A k \in 1..mode.jobs : /\ fresh[k].heard = Recorded(p, j, e, heard, spoils)[k].heard
                                 /\ fresh[k].spoilt = Recorded(p, j, e, heard, spoils)[k].spoilt,
         past' = [past EXCEPT ![p] = fresh]
  PROVE  EventOf(p, j, e, spoils, heard)
<1>1. DOMAIN past = mode.printers /\ \A k \in 1..mode.jobs : PastOK(past[p][k])
  BY DEF Shaped
<1>2. /\ DOMAIN past' = mode.printers /\ past'[p] = fresh
      /\ \A q \in mode.printers \ {p} : past'[q] = past[q]
  BY <1>1
<1>3. \A k \in 1..mode.jobs :
        RecordedAs(Recorded(p, j, e, heard, spoils)[k], p, j, e, heard, spoils, k)
  BY <1>1, RecordedFields, Zenon
<1>4. ASSUME NEW k \in 1..mode.jobs, k # j
      PROVE  /\ past'[p][k].heard = past[p][k].heard
             /\ past'[p][k].spoilt <=> past[p][k].spoilt \/ Ending(p, k)
  BY <1>2, <1>3, <1>4, Zenon DEF RecordedAs
<1>5. ASSUME j \in 1..mode.jobs, heard
      PROVE  Handled(p, j, e, spoils)
  <2>1. RecordedAs(Recorded(p, j, e, heard, spoils)[j], p, j, e, heard, spoils, j)
    BY <1>3, <1>5
  <2>2. /\ past'[p][j].heard = Recorded(p, j, e, heard, spoils)[j].heard
        /\ past'[p][j].spoilt = Recorded(p, j, e, heard, spoils)[j].spoilt
    BY <1>2, <1>5
  <2>3. past'[p][j].heard = past[p][j].heard \cup {e} BY <1>5, <2>1, <2>2 DEF RecordedAs
  <2>4. past'[p][j].spoilt <=> past[p][j].spoilt \/ spoils
    BY <1>5, <2>1, <2>2, Zenon DEF RecordedAs
  <2>5. QED BY <2>3, <2>4 DEF Handled
<1>6. ASSUME j \in 1..mode.jobs, ~heard
      PROVE  Lost(p, j)
  BY <1>2, <1>3, <1>6, Zenon DEF RecordedAs, Lost
<1>7. QED BY <1>2, <1>4, <1>5, <1>6, Zenon DEF EventOf

\* A print ends.
LEMMA Finishes ==
  ASSUME Shaped, NEW p \in mode.printers, NEW status \in Ends, End(p, status)
  PROVE  EndStep(p, printer[p].job, status)
<1> DEFINE j == printer[p].job
<1>1. /\ printer[p].printing /\ printer' = [printer EXCEPT ![p].printing = FALSE] /\ mode' = mode
  BY DEF End
<1>0. j \in 1..mode.jobs
  <2>1. mode.jobs \in Nat BY InstanceFacts DEF Shaped
  <2>2. PrinterOK(mode, printer[p]) BY DEF Shaped
  <2>3. j \in 0..mode.jobs /\ j > 0 BY <1>1, <2>2, Zenon DEF PrinterOK
  <2>4. QED BY <2>1, <2>3
<1>2. PICK heard \in BOOLEAN :
        /\ IF heard THEN Delivered(PrintEnded(p, j, status)) ELSE Missed
        /\ past' = [past EXCEPT ![p] =
             [Recorded(p, j, "end", heard, FALSE) EXCEPT ![j].status = status]]
  BY DEF End
<1>3. /\ DOMAIN printer = mode.printers /\ DOMAIN contextCache = mode.printers
      /\ DOMAIN past[p] = 1..mode.jobs /\ PrinterOK(mode, printer[p])
      /\ \A k \in 1..mode.jobs : PastOK(past[p][k])
  BY DEF Shaped
<1> DEFINE told == Recorded(p, j, "end", heard, FALSE)
           fresh == [told EXCEPT ![j].status = status]
<1>4. DOMAIN told = 1..mode.jobs /\ "end" \in Events BY DEF Recorded, Events
<1>5. \A k \in 1..mode.jobs : RecordedAs(told[k], p, j, "end", heard, FALSE, k)
  BY <1>3, <1>4, RecordedFields, Zenon
<1>6. \A k \in 1..mode.jobs : PastOK(told[k]) /\ told[k].notes = past[p][k].notes
  BY <1>5 DEF RecordedAs
<1> HIDE DEF told
<1>7. /\ DOMAIN fresh = 1..mode.jobs
      /\ \A k \in 1..mode.jobs : /\ PastOK(fresh[k]) /\ fresh[k].notes = past[p][k].notes
                                 /\ fresh[k].heard = told[k].heard /\ fresh[k].spoilt = told[k].spoilt
  <2>1. /\ DOMAIN fresh = 1..mode.jobs
        /\ \A k \in 1..mode.jobs : fresh[k] = IF k = j THEN [told[k] EXCEPT !.status = status] ELSE told[k]
    BY <1>4
  <2> HIDE DEF fresh
  <2>2. ASSUME NEW k \in 1..mode.jobs
        PROVE  /\ PastOK(fresh[k]) /\ fresh[k].notes = told[k].notes
               /\ fresh[k].heard = told[k].heard /\ fresh[k].spoilt = told[k].spoilt
    <3>1. PastOK(told[k]) BY <1>6
    <3>2. CASE k = j
      <4>1. fresh[k] = [told[k] EXCEPT !.status = status] BY <2>1, <3>2
      <4>2. QED BY <3>1, <4>1 DEF PastOK
    <3>3. CASE k # j BY <2>1, <3>1, <3>3
    <3>4. QED BY <3>2, <3>3
  <2>3. QED BY <1>6, <2>1, <2>2
<1> HIDE DEF fresh
<1>8. past' = [past EXCEPT ![p] = fresh] BY <1>2 DEF fresh, told
<1>9. \A k \in 1..mode.jobs : /\ fresh[k].heard = Recorded(p, j, "end", heard, FALSE)[k].heard
                              /\ fresh[k].spoilt = Recorded(p, j, "end", heard, FALSE)[k].spoilt
  BY <1>7 DEF told
<1>10. EventOf(p, j, "end", FALSE, heard) BY <1>4, <1>7, <1>8, <1>9, EventRecorded, Zenon
<1>11. /\ DOMAIN printer' = mode.printers /\ printer'[p].job = j /\ ~printer'[p].printing
       /\ PrinterOK(mode, printer'[p])
       /\ \A q \in mode.printers \ {p} : printer'[q] = printer[q]
  <2>1. DOMAIN printer' = mode.printers /\ \A q \in mode.printers \ {p} : printer'[q] = printer[q]
    BY <1>1, <1>3
  <2>2. printer'[p] = [printer[p] EXCEPT !.printing = FALSE] BY <1>1, <1>3
  <2>3. QED BY <1>3, <2>1, <2>2 DEF PrinterOK
<1>12. /\ \A k \in 1..mode.jobs : PastOK(past'[p][k]) /\ past'[p][k].notes = past[p][k].notes
       /\ DOMAIN past'[p] = 1..mode.jobs
  <2>1. DOMAIN past = mode.printers BY DEF Shaped
  <2>2. past'[p] = fresh BY <1>8, <2>1
  <2>3. QED BY <1>7, <2>2
<1>13. \A k \in 1..mode.jobs \ {j} : Passed(p, k) BY <1>10, <1>12, Zenon DEF Passed, EventOf
<1>14. CASE heard /\ ~Unchanged(p)
  <2>1. /\ Accepted(contextCache[p]) /\ Creates(Row(p, j, status, contextCache[p]))
        /\ contextCache' = IF mode.db = "mongo" THEN contextCache
                           ELSE [contextCache EXCEPT ![p] = EmptyContext]
    BY <1>2, <1>14 DEF Delivered, PrintEnded, Unchanged
  <2>2. mode.db \in {"mongo", "sqlite"} BY InstanceFacts DEF Shaped
  <2>3. /\ DOMAIN contextCache' = mode.printers
        /\ \/ contextCache'[p] = contextCache[p] /\ mode.db = "mongo"
           \/ contextCache'[p] = EmptyContext /\ mode.db = "sqlite"
        /\ \A q \in mode.printers \ {p} : contextCache'[q] = contextCache[q]
    BY <1>3, <2>1, <2>2
  <2>4. Others(p) BY <1>1, <1>10, <1>11, <2>3 DEF Others, EventOf
  <2>5. QED
    BY <1>0, <1>1, <1>10, <1>11, <1>12, <1>13, <1>14, <2>1, <2>3, <2>4 DEF EndStep, EventOf
<1>15. CASE heard /\ Unchanged(p)
  <2>1. \/ /\ Creates(Row(p, j, status, contextCache[p]))
           /\ contextCache' = IF mode.db = "mongo" THEN contextCache
                              ELSE [contextCache EXCEPT ![p] = EmptyContext]
        \/ contextCache[p] \in {None, EmptyContext} /\ contextCache' = contextCache
    BY <1>2, <1>15 DEF Delivered, PrintEnded, Rejected
  <2>2. mode.db \in {"mongo", "sqlite"} BY InstanceFacts DEF Shaped
  <2>3. /\ DOMAIN contextCache' = mode.printers
        /\ \/ /\ Creates(Row(p, j, status, contextCache[p]))
              /\ \/ contextCache'[p] = contextCache[p] /\ mode.db = "mongo"
                 \/ contextCache'[p] = EmptyContext /\ mode.db = "sqlite"
           \/ contextCache[p] \in {None, EmptyContext}
        /\ \A q \in mode.printers \ {p} : contextCache'[q] = contextCache[q]
    BY <1>3, <2>1, <2>2
  <2>4. Others(p) BY <1>1, <1>10, <1>11, <2>3 DEF Others, EventOf
  <2>5. QED
    BY <1>0, <1>1, <1>10, <1>11, <1>12, <1>13, <1>15, <2>3, <2>4 DEF EndStep, EventOf
<1>16. CASE ~heard
  <2>1. Unchanged(p) /\ contextCache' = contextCache BY <1>2, <1>16 DEF Missed, Unchanged
  <2>2. Others(p) BY <1>1, <1>3, <1>10, <1>11, <2>1 DEF Others, EventOf
  <2>3. QED
    BY <1>0, <1>1, <1>10, <1>11, <1>12, <1>13, <1>16, <2>1, <2>2 DEF EndStep, EventOf
<1>17. QED BY <1>14, <1>15, <1>16

\* Another event of a printer.
LEMMA Notices ==
  ASSUME Shaped, NEW p \in mode.printers, NEW note \in Notes, Note(p, note)
  PROVE  NoteStep(p, printer[p].job, note)
<1> DEFINE j == printer[p].job
           e == IF printer[p].printing THEN note ELSE "later"
<1>1. j > 0 /\ printer' = [printer EXCEPT ![p].notes = @ \cup {note}] /\ mode' = mode
  BY DEF Note
<1>2. PICK heard \in BOOLEAN :
        /\ IF heard THEN Delivered(NoteEvent(p, note)) ELSE Missed
        /\ past' = [past EXCEPT ![p] =
             [Recorded(p, j, e, heard, SpoilsNote(p, j)) EXCEPT ![j].notes = @ \cup {note}]]
  BY DEF Note
<1>3. /\ DOMAIN printer = mode.printers /\ DOMAIN contextCache = mode.printers
      /\ DOMAIN past[p] = 1..mode.jobs /\ PrinterOK(mode, printer[p])
      /\ \A k \in 1..mode.jobs : PastOK(past[p][k])
  BY DEF Shaped
<1>4. j \in 1..mode.jobs BY <1>1, <1>3 DEF PrinterOK
<1> DEFINE told == Recorded(p, j, e, heard, SpoilsNote(p, j))
           fresh == [told EXCEPT ![j].notes = @ \cup {note}]
<1>5. DOMAIN told = 1..mode.jobs /\ e \in Events BY DEF Recorded, Events
<1>6. \A k \in 1..mode.jobs : RecordedAs(told[k], p, j, e, heard, SpoilsNote(p, j), k)
  <2> HIDE DEF e
  <2>1. QED BY <1>3, <1>5, RecordedFields, Zenon
<1>7. \A k \in 1..mode.jobs : PastOK(told[k]) /\ told[k].notes = past[p][k].notes
  BY <1>6 DEF RecordedAs
<1> HIDE DEF told
<1>8. /\ DOMAIN fresh = 1..mode.jobs /\ fresh[j].notes = past[p][j].notes \cup {note}
      /\ \A k \in 1..mode.jobs :
           /\ PastOK(fresh[k])
           /\ k # j => fresh[k].notes = past[p][k].notes
           /\ fresh[k].heard = told[k].heard /\ fresh[k].spoilt = told[k].spoilt
  <2>1. /\ DOMAIN fresh = 1..mode.jobs
        /\ \A k \in 1..mode.jobs :
             fresh[k] = IF k = j THEN [told[k] EXCEPT !.notes = @ \cup {note}] ELSE told[k]
    BY <1>5
  <2> HIDE DEF fresh
  <2>2. ASSUME NEW k \in 1..mode.jobs
        PROVE  /\ PastOK(fresh[k])
               /\ fresh[k].notes = IF k = j THEN told[k].notes \cup {note} ELSE told[k].notes
               /\ fresh[k].heard = told[k].heard /\ fresh[k].spoilt = told[k].spoilt
    <3>1. PastOK(told[k]) BY <1>7
    <3>2. CASE k = j
      <4>1. fresh[k] = [told[k] EXCEPT !.notes = @ \cup {note}] BY <2>1, <3>2
      <4>2. QED BY <3>1, <3>2, <4>1 DEF PastOK
    <3>3. CASE k # j BY <2>1, <3>1, <3>3
    <3>4. QED BY <3>2, <3>3
  <2>3. QED BY <1>4, <1>7, <2>1, <2>2
<1> HIDE DEF fresh
<1>9. past' = [past EXCEPT ![p] = fresh] BY <1>2 DEF fresh, told
<1>10. \A k \in 1..mode.jobs :
         /\ fresh[k].heard = Recorded(p, j, e, heard, SpoilsNote(p, j))[k].heard
         /\ fresh[k].spoilt = Recorded(p, j, e, heard, SpoilsNote(p, j))[k].spoilt
  BY <1>8 DEF told
<1>11. EventOf(p, j, e, SpoilsNote(p, j), heard)
  <2> HIDE DEF e
  <2>1. QED BY <1>5, <1>8, <1>9, <1>10, EventRecorded, Zenon
<1>12. /\ DOMAIN printer' = mode.printers /\ printer'[p].job = j
       /\ printer'[p].printing = printer[p].printing /\ PrinterOK(mode, printer'[p])
       /\ \A q \in mode.printers \ {p} : printer'[q] = printer[q]
  <2>1. DOMAIN printer' = mode.printers /\ \A q \in mode.printers \ {p} : printer'[q] = printer[q]
    BY <1>1, <1>3
  <2>2. printer'[p] = [printer[p] EXCEPT !.notes = @ \cup {note}] BY <1>1, <1>3
  <2>3. QED BY <1>3, <2>1, <2>2 DEF PrinterOK
<1>13. /\ \A k \in 1..mode.jobs : /\ PastOK(past'[p][k])
                                  /\ k # j => past'[p][k].notes = past[p][k].notes
       /\ DOMAIN past'[p] = 1..mode.jobs /\ past'[p][j].notes = past[p][j].notes \cup {note}
  <2>1. DOMAIN past = mode.printers BY DEF Shaped
  <2>2. past'[p] = fresh BY <1>9, <2>1
  <2>3. QED BY <1>8, <2>2
<1>14. \A k \in 1..mode.jobs \ {j} : Passed(p, k) BY <1>11, <1>13, Zenon DEF Passed, EventOf
<1>15. CASE heard
  <2>1. /\ contextCache' = [contextCache EXCEPT ![p] = WithNote(contextCache[p], note)]
        /\ UpdateContext(p, j, WithNote(contextCache[p], note))
    BY <1>2, <1>15 DEF Delivered, NoteEvent
  <2>2. /\ DOMAIN contextCache' = mode.printers
        /\ contextCache'[p] = WithNote(contextCache[p], note)
        /\ \A q \in mode.printers \ {p} : contextCache'[q] = contextCache[q]
    BY <1>3, <2>1
  <2>3. Others(p) BY <1>1, <1>11, <1>12, <2>2 DEF Others, EventOf
  <2>4. Handled(p, j, e, SpoilsNote(p, j))
    <3> HIDE DEF e
    <3>1. QED BY <1>4, <1>11, <1>15, Zenon DEF EventOf
  <2>5. QED BY <1>4, <1>12, <1>13, <1>14, <2>1, <2>2, <2>3, <2>4 DEF NoteStep
<1>16. CASE ~heard
  <2>1. Unchanged(p) /\ contextCache' = contextCache BY <1>2, <1>16 DEF Missed, Unchanged
  <2>2. Others(p) BY <1>1, <1>3, <1>11, <1>12, <2>1 DEF Others, EventOf
  <2>3. Lost(p, j)
    <3> HIDE DEF e
    <3>1. QED BY <1>4, <1>11, <1>16, Zenon DEF EventOf
  <2>4. QED BY <1>4, <1>12, <1>13, <1>14, <2>1, <2>2, <2>3 DEF NoteStep
<1>17. QED BY <1>15, <1>16

\* The record of a job, but for its being spoilt, is kept.
SameJob(q, k) ==
  /\ PastOK(past'[q][k]) /\ past'[q][k].heard = past[q][k].heard
  /\ past'[q][k].notes = past[q][k].notes

FailStep(call) ==
  /\ mode' = mode /\ printer' = printer /\ contextCache' = contextCache /\ rows' = rows
  /\ calls' = calls \ {call}
  /\ DOMAIN past' = mode.printers
  /\ \A q \in mode.printers : DOMAIN past'[q] = 1..mode.jobs
  /\ \A q \in mode.printers, k \in 1..mode.jobs :
       /\ SameJob(q, k)
       /\ past'[q][k].spoilt <=> past[q][k].spoilt \/ (q = call.printerId /\ k = call.job)

RestartStep ==
  /\ mode' = mode /\ printer' = printer /\ rows' = rows /\ calls' = {}
  /\ contextCache' = [q \in mode.printers |-> None]
  /\ DOMAIN past' = mode.printers
  /\ \A q \in mode.printers : DOMAIN past'[q] = 1..mode.jobs
  /\ \A q \in mode.printers, k \in 1..mode.jobs :
       /\ SameJob(q, k)
       /\ past'[q][k].spoilt <=> \/ past[q][k].spoilt
                                 \/ printer[q].printing /\ printer[q].job = k
                                 \/ \E call \in calls : call.printerId = q /\ call.job = k

\* A command fails.
LEMMA Fails ==
  ASSUME Shaped, NEW call \in calls, Failed(call)
  PROVE  FailStep(call)
<1>1. /\ mode' = mode /\ printer' = printer /\ contextCache' = contextCache /\ rows' = rows
      /\ calls' = calls \ {call}
      /\ past' = [past EXCEPT ![call.printerId][call.job].spoilt = TRUE]
  BY DEF Failed
<1>2. /\ DOMAIN past = mode.printers
      /\ \A q \in mode.printers : DOMAIN past[q] = 1..mode.jobs
      /\ \A q \in mode.printers, k \in 1..mode.jobs : PastOK(past[q][k])
  BY DEF Shaped
<1>3. call.printerId \in mode.printers /\ call.job \in 1..mode.jobs BY CallFacts DEF Shaped
<1>4. /\ DOMAIN past' = mode.printers
      /\ \A q \in mode.printers : DOMAIN past'[q] = 1..mode.jobs
      /\ \A q \in mode.printers, k \in 1..mode.jobs :
           q # call.printerId \/ k # call.job => past'[q][k] = past[q][k]
      /\ past'[call.printerId][call.job] = [past[call.printerId][call.job] EXCEPT !.spoilt = TRUE]
  BY <1>1, <1>2, <1>3
<1>5. /\ SameJob(call.printerId, call.job) /\ past'[call.printerId][call.job].spoilt
  <2> DEFINE old == past[call.printerId][call.job]
             fresh == past'[call.printerId][call.job]
  <2>1. PastOK(old) /\ fresh = [old EXCEPT !.spoilt = TRUE] BY <1>2, <1>3, <1>4
  <2> HIDE DEF old, fresh
  <2>2. PastOK(fresh) /\ fresh.heard = old.heard /\ fresh.notes = old.notes /\ fresh.spoilt
    BY <2>1, SpoiltField DEF PastOK
  <2>3. QED BY <2>2 DEF SameJob, old, fresh
<1>6. ASSUME NEW q \in mode.printers, NEW k \in 1..mode.jobs, q # call.printerId \/ k # call.job
      PROVE  SameJob(q, k) /\ past'[q][k].spoilt = past[q][k].spoilt
  BY <1>2, <1>4, <1>6 DEF SameJob
<1>7. ASSUME NEW q \in mode.printers, NEW k \in 1..mode.jobs
      PROVE  /\ SameJob(q, k)
             /\ past'[q][k].spoilt <=> past[q][k].spoilt \/ (q = call.printerId /\ k = call.job)
  <2>1. CASE q = call.printerId /\ k = call.job BY <1>5, <2>1
  <2>2. CASE ~(q = call.printerId /\ k = call.job) BY <1>6, <2>2, Zenon
  <2>3. QED BY <2>1, <2>2
<1>8. QED BY <1>1, <1>4, <1>7, Zenon DEF FailStep

\* The server restarts.
LEMMA Restarts ==
  ASSUME Shaped, Restart
  PROVE  RestartStep
<1> DEFINE hit(q, k) == \/ printer[q].printing /\ printer[q].job = k
                        \/ \E call \in calls : call.printerId = q /\ call.job = k
<1>1. /\ mode' = mode /\ printer' = printer /\ rows' = rows /\ calls' = {}
      /\ contextCache' = [q \in mode.printers |-> None]
      /\ past' = [q \in mode.printers |-> [k \in 1..mode.jobs |->
           [past[q][k] EXCEPT !.spoilt = @ \/ (printer[q].printing /\ printer[q].job = k)
                                           \/ \E call \in calls : call.printerId = q /\ call.job = k]]]
  BY DEF Restart
<1>2. \A q \in mode.printers, k \in 1..mode.jobs : PastOK(past[q][k]) BY DEF Shaped
<1>3. /\ DOMAIN past' = mode.printers
      /\ \A q \in mode.printers : DOMAIN past'[q] = 1..mode.jobs
  BY <1>1
<1>4. ASSUME NEW q \in mode.printers, NEW k \in 1..mode.jobs
      PROVE  SameJob(q, k) /\ (past'[q][k].spoilt <=> past[q][k].spoilt \/ hit(q, k))
  <2> DEFINE spoilt == past[q][k].spoilt \/ (printer[q].printing /\ printer[q].job = k)
                         \/ \E call \in calls : call.printerId = q /\ call.job = k
  <2>1. past'[q][k] = [past[q][k] EXCEPT !.spoilt = spoilt] BY <1>1, Zenon
  <2>2. PastOK(past[q][k]) BY <1>2
  <2>3. spoilt <=> past[q][k].spoilt \/ hit(q, k) OBVIOUS
  <2> HIDE DEF spoilt
  <2>4. /\ PastOK(past'[q][k]) /\ past'[q][k].notes = past[q][k].notes
        /\ past'[q][k].heard = past[q][k].heard /\ past'[q][k].spoilt = spoilt
    BY <2>1, <2>2 DEF PastOK
  <2>5. SameJob(q, k) BY <2>4 DEF SameJob
  <2>6. QED BY <2>3, <2>4, <2>5, Zenon
<1>5. QED BY <1>1, <1>3, <1>4, Zenon DEF RestartStep

(***************************************************************************)
(* The values of the state, at every step                                  *)
(***************************************************************************)
LEMMA ShapedInit == Init => Shaped
<1> SUFFICES ASSUME Init PROVE Shaped OBVIOUS
<1>1. mode \in Instances /\ mode.jobs \in Nat BY InstanceFacts DEF Init
<1>2. /\ printer = [p \in mode.printers |-> [job |-> 0, printing |-> FALSE, notes |-> {}]]
      /\ contextCache = [p \in mode.printers |-> None] /\ rows = <<>> /\ calls = {}
      /\ past = [p \in mode.printers |-> [j \in 1..mode.jobs |-> Unheard]]
  BY DEF Init
<1>3. DOMAIN printer = mode.printers /\ \A p \in mode.printers : PrinterOK(mode, printer[p])
  <2>1. ASSUME NEW p \in mode.printers
        PROVE  PrinterOK(mode, printer[p])
    <3>1. printer[p] = [job |-> 0, printing |-> FALSE, notes |-> {}] BY <1>2
    <3>2. 0 \in 0..mode.jobs BY <1>1
    <3>3. QED BY <3>1, <3>2 DEF PrinterOK
  <2>2. QED BY <1>2, <2>1
<1>4. PastOK(Unheard) BY DEF PastOK, Unheard
<1>5. /\ DOMAIN past = mode.printers
      /\ \A p \in mode.printers :
           DOMAIN past[p] = 1..mode.jobs /\ \A j \in 1..mode.jobs : PastOK(past[p][j])
  BY <1>2, <1>4
<1>6. QED BY <1>1, <1>2, <1>3, <1>5 DEF Shaped

\* Of one printer.
PrinterShaped(p) ==
  /\ PrinterOK(mode, printer'[p]) /\ contextCache'[p] \in Contexts(mode) \cup {None}
  /\ DOMAIN past'[p] = 1..mode.jobs
  /\ \A j \in 1..mode.jobs : PastOK(past'[p][j])

StoreShaped ==
  /\ rows' \in Seq(Rows(mode))
  /\ \A c \in calls' : CallOK(mode, c)

\* A step that concerns one printer, and the store.
LEMMA ShapedOthers ==
  ASSUME Shaped, NEW p \in mode.printers, Others(p), PrinterShaped(p), StoreShaped
  PROVE  Shaped'
<1>1. \A q \in mode.printers : PrinterShaped(q) BY DEF Shaped, Others, PrinterShaped
<1>2. QED BY <1>1 DEF Shaped, Others, PrinterShaped, StoreShaped

\* A completion is stored.
LEMMA ShapedCreates ==
  ASSUME Shaped, NEW r \in Rows(mode), CreateOK(mode, Create(r)), Creates(r)
  PROVE  StoreShaped
<1>1. CASE mode.db = "mongo" BY <1>1 DEF Creates, Shaped, StoreShaped, CallOK
<1>2. CASE mode.db # "mongo"
  <2>1. rows' = Append(rows, r) /\ calls' = calls BY <1>2 DEF Creates
  <2>2. rows' \in Seq(Rows(mode)) BY <2>1 DEF Shaped
  <2>3. QED BY <2>1, <2>2 DEF Shaped, StoreShaped
<1>3. QED BY <1>1, <1>2

\* A context is updated.
LEMMA ShapedUpdate ==
  ASSUME Shaped, NEW p \in mode.printers, NEW j \in 1..mode.jobs,
         NEW context \in Contexts(mode), UpdateContext(p, j, context)
  PROVE  StoreShaped
<1>1. rows \in Seq(Rows(mode)) /\ \A c \in calls : CallOK(mode, c) BY DEF Shaped
<1>2. CASE rows' = rows /\ calls' = calls BY <1>1, <1>2 DEF StoreShaped
<1>3. CASE rows' = Updated(context.id, context) /\ calls' = calls
  BY <1>1, <1>3, UpdatedRows DEF StoreShaped, Shaped
<1>4. CASE /\ context.id # None /\ rows' = rows
           /\ calls' = calls \cup {[printerId |-> p, at |-> "find", context |-> context, job |-> j]}
  <2> DEFINE c == [printerId |-> p, at |-> "find", context |-> context, job |-> j]
  <2>1. UpdateOK(mode, c) BY <1>4 DEF UpdateOK
  <2>2. QED BY <1>1, <1>4, <2>1 DEF StoreShaped, CallOK
<1>5. QED BY <1>2, <1>3, <1>4 DEF UpdateContext

\* The values of the state stay in shape.
LEMMA ShapedNext == Shaped /\ [Next]_vars => Shaped'
<1> SUFFICES ASSUME Shaped, [Next]_vars PROVE Shaped' OBVIOUS
<1>1. /\ mode \in Instances /\ rows \in Seq(Rows(mode)) /\ \A c \in calls : CallOK(mode, c)
      /\ DOMAIN contextCache = mode.printers
      /\ \A p \in mode.printers : contextCache[p] \in Contexts(mode) \cup {None}
      /\ \A p \in mode.printers : PrinterOK(mode, printer[p])
  BY DEF Shaped
<1>2. StoreShaped \/ ~(rows' = rows /\ calls' = calls) BY <1>1 DEF StoreShaped
<1>3. ASSUME NEW p \in mode.printers, Start(p)
      PROVE  Shaped'
  <2> DEFINE j == printer[p].job + 1
  <2>1. StartStep(p, j) BY <1>3, Starts
  <2>2. j \in 1..mode.jobs /\ Others(p) BY <2>1 DEF StartStep
  <2>3. PrinterShaped(p)
    BY <1>1, <2>1, <2>2, FreshContexts DEF StartStep, PrinterShaped, Unchanged
  <2>4. StoreShaped
    <3>1. CASE Creates(Row(p, j, "PrintStarted", StartedContext(p, j)))
      <4>1. StartedContext(p, j) \in Contexts(mode) /\ StartedContext(p, j) # None
        BY <1>1, <2>2, FreshContexts
      <4>2. /\ Row(p, j, "PrintStarted", StartedContext(p, j)) \in Rows(mode)
            /\ CreateOK(mode, Create(Row(p, j, "PrintStarted", StartedContext(p, j))))
        BY <1>1, <2>2, <4>1, RowFields DEF Statuses
      <4>3. QED BY <3>1, <4>2, ShapedCreates
    <3>2. QED BY <1>2, <2>1, <3>1 DEF StartStep, Unchanged
  <2>5. QED BY <2>2, <2>3, <2>4, ShapedOthers
<1>4. ASSUME NEW p \in mode.printers, NEW status \in Ends, End(p, status)
      PROVE  Shaped'
  <2> DEFINE j == printer[p].job
  <2>1. EndStep(p, j, status) BY <1>4, Finishes
  <2>2. Others(p) BY <2>1 DEF EndStep
  <2>3. PrinterShaped(p)
    <3>1. EmptyContext \in Contexts(mode) BY DEF EmptyContext, Contexts
    <3>2. QED BY <1>1, <2>1, <3>1 DEF EndStep, PrinterShaped, Unchanged
  <2>4. StoreShaped
    <3>1. CASE Creates(Row(p, j, status, contextCache[p]))
      <4>1. /\ contextCache[p] \in Contexts(mode) \cup {None} /\ j \in 1..mode.jobs
            /\ status \in Statuses /\ status # "PrintStarted"
        BY <1>1, <2>1 DEF EndStep, Statuses, Ends
      <4>2. /\ Row(p, j, status, contextCache[p]) \in Rows(mode)
            /\ CreateOK(mode, Create(Row(p, j, status, contextCache[p])))
        BY <1>1, <3>1, <4>1, RowFields
      <4>3. QED BY <3>1, <4>2, ShapedCreates
    <3>2. QED BY <1>2, <2>1, <3>1 DEF EndStep, Unchanged
  <2>5. QED BY <2>2, <2>3, <2>4, ShapedOthers
<1>5. ASSUME NEW p \in mode.printers, NEW note \in Notes, Note(p, note)
      PROVE  Shaped'
  <2> DEFINE j == printer[p].job
  <2>1. NoteStep(p, j, note) BY <1>5, Notices
  <2>2. Others(p) /\ j \in 1..mode.jobs BY <2>1 DEF NoteStep
  <2>3. WithNote(contextCache[p], note) \in Contexts(mode) BY <1>1, ContextWithNote
  <2>4. PrinterShaped(p) BY <1>1, <2>1, <2>3 DEF NoteStep, PrinterShaped, Unchanged
  <2>5. StoreShaped BY <1>2, <2>1, <2>2, <2>3, ShapedUpdate DEF NoteStep, Unchanged
  <2>6. QED BY <2>2, <2>4, <2>5, ShapedOthers
<1>6. ASSUME NEW p \in mode.printers, Current(p)
      PROVE  Shaped'
  BY <1>6 DEF Shaped, Current
<1>7. ASSUME NEW call \in calls, Inserted(call)
      PROVE  Shaped'
  <2>1. call.row \in Rows(mode) BY <1>1, <1>7, CallFacts DEF Inserted
  <2>2. StoreShaped BY <1>1, <1>7, <2>1 DEF Inserted, StoreShaped
  <2>3. /\ DOMAIN contextCache' = mode.printers
        /\ \A p \in mode.printers : contextCache'[p] \in Contexts(mode) \cup {None}
    <3>1. EmptyContext \in Contexts(mode) BY DEF EmptyContext, Contexts
    <3>2. QED BY <1>1, <1>7, <3>1 DEF Inserted
  <2>4. mode' = mode /\ printer' = printer /\ past' = past BY <1>7 DEF Inserted
  <2>5. QED BY <2>2, <2>3, <2>4 DEF Shaped, StoreShaped
<1>8. ASSUME NEW call \in calls, Found(call)
      PROVE  Shaped'
  <2>1. UpdateOK(mode, [call EXCEPT !.at = "save"])
    BY <1>1, <1>8, CallFacts, SavingFields DEF Found
  <2>2. StoreShaped BY <1>1, <1>8, <2>1 DEF Found, StoreShaped, CallOK
  <2>3. QED BY <1>8, <2>2 DEF Found, Shaped, StoreShaped
<1>9. ASSUME NEW call \in calls, Saved(call)
      PROVE  Shaped'
  <2>1. call.context \in Contexts(mode) BY <1>1, <1>9, CallFacts DEF Saved, UpdateOK
  <2>2. rows' \in Seq(Rows(mode)) BY <1>1, <1>9, <2>1, UpdatedRows DEF Saved
  <2>3. QED BY <1>9, <2>2 DEF Saved, Shaped
<1>10. ASSUME NEW call \in calls, Failed(call)
       PROVE  Shaped'
  <2>1. FailStep(call) BY <1>10, Fails
  <2>2. QED BY <2>1 DEF FailStep, SameJob, Shaped
<1>11. CASE Restart
  <2>1. RestartStep BY <1>11, Restarts
  <2>2. QED BY <2>1 DEF RestartStep, SameJob, Shaped
<1>12. CASE Listen \/ UNCHANGED vars BY <1>12 DEF Listen, vars, Shaped
<1>13. QED BY <1>3, <1>4, <1>5, <1>6, <1>7, <1>8, <1>9, <1>10, <1>11, <1>12 DEF Next

(***************************************************************************)
(* Jobs begin one after the other                                          *)
(***************************************************************************)
NothingOf(job) == job.heard = {} /\ job.notes = {} /\ ~job.spoilt

\* Of a job that has not begun nothing was heard, stored or requested.
Begun ==
  /\ \A p \in mode.printers, j \in 1..mode.jobs : j > printer[p].job => NothingOf(past[p][j])
  /\ \A n \in DOMAIN rows : rows[n].job <= printer[rows[n].printerId].job
  /\ \A c \in calls : c.job <= printer[c.printerId].job

\* What was heard of the jobs that have begun, but for their starts, and that they are spoilt,
\* is never forgotten.
Grows ==
  /\ mode' = mode
  /\ \A p \in mode.printers : printer'[p].job \in Nat /\ printer'[p].job >= printer[p].job
  /\ \A p \in mode.printers, k \in 1..mode.jobs :
       /\ past[p][k].spoilt => past'[p][k].spoilt
       /\ k <= printer[p].job => ("start" \in past'[p][k].heard => "start" \in past[p][k].heard)

\* The jobs of printers are numbers.
LEMMA JobsAreNumbers ==
  ASSUME Shaped
  PROVE  mode.jobs \in Nat /\ \A p \in mode.printers : printer[p].job \in Nat
<1>1. mode.jobs \in Nat BY InstanceFacts DEF Shaped
<1>2. \A p \in mode.printers : printer[p].job \in 0..mode.jobs BY DEF Shaped, PrinterOK
<1>3. QED BY <1>1, <1>2

\* Every step lets the past grow.
LEMMA PastGrows ==
  ASSUME Shaped, [Next]_vars
  PROVE  Grows
<1>1. mode.jobs \in Nat /\ \A p \in mode.printers : printer[p].job \in Nat BY JobsAreNumbers
<1>2. ASSUME NEW p \in mode.printers, Start(p)
      PROVE  Grows
  <2> DEFINE j == printer[p].job + 1
  <2>1. StartStep(p, j) BY <1>2, Starts
  <2>2. /\ Others(p) /\ j \in 1..mode.jobs /\ printer'[p].job = j
        /\ \A k \in 1..mode.jobs \ {j} : past'[p][k] = past[p][k]
        /\ past[p][j].spoilt => past'[p][j].spoilt
    BY <2>1, Zenon DEF StartStep, Handled, Lost
  <2>3. ASSUME NEW k \in 1..mode.jobs
        PROVE  /\ past[p][k].spoilt => past'[p][k].spoilt
               /\ k <= printer[p].job => ("start" \in past'[p][k].heard => "start" \in past[p][k].heard)
    <3>1. CASE k = j BY <1>1, <2>2, <3>1
    <3>2. CASE k # j BY <2>2, <3>2
    <3>3. QED BY <3>1, <3>2
  <2>4. QED BY <1>1, <2>2, <2>3 DEF Others, Grows
<1>3. ASSUME NEW p \in mode.printers, NEW j, Others(p), printer'[p].job = printer[p].job,
             \A k \in 1..mode.jobs \ {j} : Passed(p, k),
             \/ \E e \in Events \ {"start"} : \E spoils : Handled(p, j, e, spoils)
             \/ Lost(p, j)
      PROVE  Grows
  <2>1. ASSUME NEW k \in 1..mode.jobs
        PROVE  /\ past[p][k].spoilt => past'[p][k].spoilt
               /\ "start" \in past'[p][k].heard => "start" \in past[p][k].heard
    BY <1>3, ZenonT(60) DEF Passed, Handled, Lost
  <2>2. QED BY <1>1, <1>3, <2>1 DEF Others, Grows
<1>4. ASSUME NEW p \in mode.printers, NEW status \in Ends, End(p, status)
      PROVE  Grows
  <2>1. EndStep(p, printer[p].job, status) BY <1>4, Finishes
  <2>2. QED BY <1>3, <2>1 DEF EndStep, Events
<1>5. ASSUME NEW p \in mode.printers, NEW note \in Notes, Note(p, note)
      PROVE  Grows
  <2>1. NoteStep(p, printer[p].job, note) BY <1>5, Notices
  <2>2. QED BY <1>3, <2>1 DEF NoteStep, Events, Notes
<1>6. ASSUME NEW call \in calls, Failed(call)
      PROVE  Grows
  <2>1. FailStep(call) BY <1>6, Fails
  <2>2. QED BY <1>1, <2>1 DEF FailStep, SameJob, Grows
<1>7. CASE Restart
  <2>1. RestartStep BY <1>7, Restarts
  <2>2. QED BY <1>1, <2>1 DEF RestartStep, SameJob, Grows
<1>8. CASE mode' = mode /\ printer' = printer /\ past' = past BY <1>1, <1>8 DEF Grows
<1>9. QED
  BY <1>2, <1>4, <1>5, <1>6, <1>7, <1>8
     DEF Next, Current, Inserted, Found, Saved, Listen, vars

\* What a step adds to the store: a completion, or the command for it, of a start or an end.
NewRow(r) ==
  \/ \E p \in mode.printers : \E j \in 1..mode.jobs :
       /\ StartStep(p, j) /\ Handled(p, j, "start", SpoilsStart(p))
       /\ r = Row(p, j, "PrintStarted", StartedContext(p, j))
  \/ \E p \in mode.printers : \E j \in 1..mode.jobs, status \in Ends :
       EndStep(p, j, status) /\ r = Row(p, j, status, contextCache[p])
  \/ \E c \in calls : c.at = "create" /\ r = c.row

SameRow(r, s) ==
  /\ r.printerId = s.printerId /\ r.job = s.job /\ r.status = s.status
  /\ CorrelationId(r) = CorrelationId(s)

NewCall(c) ==
  \/ c.at = "create" /\ c = Create(c.row) /\ NewRow(c.row)
  \/ \E p \in mode.printers : \E j \in 1..mode.jobs, note \in Notes :
       /\ NoteStep(p, j, note) /\ c.at = "find" /\ c.printerId = p /\ c.job = j
       /\ c.context = WithNote(contextCache[p], note) /\ c.context.id # None
  \/ \E d \in calls :
       /\ d.at = "find" /\ c.at = "save" /\ c.printerId = d.printerId /\ c.job = d.job
       /\ c.context = d.context

StoreStep ==
  /\ \A n \in DOMAIN rows' :
       (n \in DOMAIN rows /\ SameRow(rows'[n], rows[n])) \/ NewRow(rows'[n])
  /\ \A c \in calls' : c \in calls \/ NewCall(c)

\* What a step adds to the store, when it creates a completion.
LEMMA CreatesStored ==
  ASSUME Shaped, NEW r \in Rows(mode), Creates(r), NewRow(r)
  PROVE  StoreStep
<1>1. rows \in Seq(Rows(mode)) BY DEF Shaped
<1>2. CASE mode.db = "mongo"
  <2>1. rows' = rows /\ calls' = calls \cup {Create(r)} BY <1>2 DEF Creates
  <2>2. NewCall(Create(r)) BY DEF NewCall, Create
  <2>3. QED BY <2>1, <2>2 DEF StoreStep, SameRow
<1>3. CASE mode.db # "mongo"
  <2>1. rows' = Append(rows, r) /\ calls' = calls BY <1>3 DEF Creates
  <2>2. \A n \in DOMAIN rows' : (n \in DOMAIN rows /\ rows'[n] = rows[n]) \/ rows'[n] = r
    BY <1>1, <2>1
  <2>3. QED BY <2>1, <2>2 DEF StoreStep, SameRow
<1>4. QED BY <1>2, <1>3

\* What a step adds to the store, when contexts of rows change.
LEMMA UpdatesStored ==
  ASSUME Shaped, NEW context \in Contexts(mode), rows' = Updated(context.id, context),
         calls' \subseteq calls
  PROVE  StoreStep
<1>1. mode \in Instances /\ rows \in Seq(Rows(mode)) BY DEF Shaped
<1>2. /\ DOMAIN rows' = DOMAIN rows
      /\ \A n \in DOMAIN rows : SameRow(rows'[n], rows[n])
  BY <1>1, UpdatedRows DEF SameRow
<1>3. QED BY <1>2 DEF StoreStep

\* What any step adds to the store.
LEMMA StoreGrows ==
  ASSUME Shaped, [Next]_vars
  PROVE  StoreStep
<1>1. /\ mode \in Instances /\ rows \in Seq(Rows(mode)) /\ \A c \in calls : CallOK(mode, c)
      /\ \A p \in mode.printers : contextCache[p] \in Contexts(mode) \cup {None}
  BY DEF Shaped
<1>2. CASE rows' = rows /\ calls' \subseteq calls BY <1>2 DEF StoreStep, SameRow
<1>3. ASSUME NEW p \in mode.printers, Start(p)
      PROVE  StoreStep
  <2> DEFINE j == printer[p].job + 1
             r == Row(p, j, "PrintStarted", StartedContext(p, j))
  <2>1. StartStep(p, j) /\ j \in 1..mode.jobs BY <1>3, Starts DEF StartStep
  <2>2. CASE Handled(p, j, "start", SpoilsStart(p)) /\ Creates(r)
    <3>1. StartedContext(p, j) \in Contexts(mode) /\ StartedContext(p, j) # None
      BY <1>1, <2>1, FreshContexts
    <3>2. r \in Rows(mode) BY <1>1, <2>1, <3>1, RowFields DEF Statuses
    <3>3. NewRow(r) BY <2>1, <2>2 DEF NewRow
    <3>4. QED BY <2>2, <3>2, <3>3, CreatesStored
  <2>3. CASE Unchanged(p) BY <1>2, <2>3 DEF Unchanged
  <2>4. QED BY <2>1, <2>2, <2>3 DEF StartStep
<1>4. ASSUME NEW p \in mode.printers, NEW status \in Ends, End(p, status)
      PROVE  StoreStep
  <2> DEFINE j == printer[p].job
             r == Row(p, j, status, contextCache[p])
  <2>1. EndStep(p, j, status) /\ j \in 1..mode.jobs BY <1>4, Finishes DEF EndStep
  <2>2. CASE Creates(r)
    <3>1. status \in Statuses /\ status # "PrintStarted" BY DEF Statuses, Ends
    <3>2. r \in Rows(mode) BY <1>1, <2>1, <3>1, RowFields
    <3>3. NewRow(r) BY <2>1 DEF NewRow
    <3>4. QED BY <2>2, <3>2, <3>3, CreatesStored
  <2>3. CASE Unchanged(p) BY <1>2, <2>3 DEF Unchanged
  <2>4. QED BY <2>1, <2>2, <2>3 DEF EndStep
<1>5. ASSUME NEW p \in mode.printers, NEW note \in Notes, Note(p, note)
      PROVE  StoreStep
  <2> DEFINE j == printer[p].job
             context == WithNote(contextCache[p], note)
             c == [printerId |-> p, at |-> "find", context |-> context, job |-> j]
  <2>1. NoteStep(p, j, note) /\ j \in 1..mode.jobs /\ context \in Contexts(mode)
    BY <1>1, <1>5, Notices, ContextWithNote DEF NoteStep
  <2>2. CASE Unchanged(p) BY <1>2, <2>2 DEF Unchanged
  <2>3. CASE rows' = rows /\ calls' = calls \cup {c} /\ context.id # None
    <3>1. NewCall(c)
      <4>1. c.at = "find" /\ c.printerId = p /\ c.job = j /\ c.context = context OBVIOUS
      <4>2. QED BY <2>1, <2>3, <4>1, Zenon DEF NewCall
    <3>2. QED BY <2>3, <3>1 DEF StoreStep, SameRow
  <2>4. CASE rows' = Updated(context.id, context) /\ calls' = calls
    BY <2>1, <2>4, UpdatesStored
  <2>5. QED BY <1>2, <2>1, <2>2, <2>3, <2>4 DEF NoteStep, UpdateContext
<1>6. ASSUME NEW call \in calls, Inserted(call)
      PROVE  StoreStep
  <2>1. NewRow(call.row) BY <1>6 DEF NewRow, Inserted
  <2>2. rows' = Append(rows, call.row) /\ calls' \subseteq calls BY <1>6 DEF Inserted
  <2>3. \A n \in DOMAIN rows' : (n \in DOMAIN rows /\ rows'[n] = rows[n]) \/ rows'[n] = call.row
    BY <1>1, <2>2
  <2>4. QED BY <2>1, <2>2, <2>3 DEF StoreStep, SameRow
<1>7. ASSUME NEW call \in calls, Found(call)
      PROVE  StoreStep
  <2> DEFINE d == [call EXCEPT !.at = "save"]
  <2>1. /\ d.at = "save" /\ d.printerId = call.printerId /\ d.job = call.job
        /\ d.context = call.context
    BY <1>1, <1>7, CallFacts, SavingFields DEF Found
  <2>2. NewCall(d) /\ rows' = rows /\ calls' \subseteq calls \cup {d}
    BY <1>7, <2>1 DEF Found, NewCall
  <2>3. QED BY <2>2 DEF StoreStep, SameRow
<1>8. ASSUME NEW call \in calls, Saved(call)
      PROVE  StoreStep
  <2>1. call.context \in Contexts(mode) BY <1>1, <1>8, CallFacts DEF Saved, UpdateOK
  <2>2. QED BY <1>8, <2>1, UpdatesStored DEF Saved
<1>9. QED
  BY <1>2, <1>3, <1>4, <1>5, <1>6, <1>7, <1>8
     DEF Next, Current, Failed, Restart, Listen, vars

LEMMA BegunInit == Init => Begun
<1> SUFFICES ASSUME Init PROVE Begun OBVIOUS
<1>1. /\ rows = <<>> /\ calls = {}
      /\ past = [p \in mode.printers |-> [j \in 1..mode.jobs |-> Unheard]]
  BY DEF Init
<1>2. NothingOf(Unheard) BY DEF NothingOf, Unheard
<1>3. QED BY <1>1, <1>2 DEF Begun

\* A new completion is of a printer's current job.
LEMMA NewRowIsCurrent ==
  ASSUME Shaped, Begun, NEW r, NewRow(r)
  PROVE  /\ r.printerId \in mode.printers /\ r.job \in 1..mode.jobs
         /\ \/ r.job <= printer[r.printerId].job
            \/ StartStep(r.printerId, r.job)
<1>1. mode \in Instances /\ \A p \in mode.printers : contextCache[p] \in Contexts(mode) \cup {None}
  BY DEF Shaped
<1>2. ASSUME NEW p \in mode.printers, NEW j \in 1..mode.jobs, StartStep(p, j),
             r = Row(p, j, "PrintStarted", StartedContext(p, j))
      PROVE  r.printerId = p /\ r.job = j
  BY <1>2 DEF Row
<1>3. ASSUME NEW p \in mode.printers, NEW j \in 1..mode.jobs, NEW status \in Ends,
             EndStep(p, j, status), r = Row(p, j, status, contextCache[p])
      PROVE  r.printerId = p /\ r.job = j /\ j <= printer[p].job
  <2>1. j = printer[p].job /\ printer[p].job \in Nat BY <1>3, JobsAreNumbers DEF EndStep
  <2>2. QED BY <1>3, <2>1 DEF Row
<1>4. ASSUME NEW c \in calls, c.at = "create", r = c.row
      PROVE  /\ r.printerId \in mode.printers /\ r.job \in 1..mode.jobs
             /\ r.job <= printer[r.printerId].job
  <2>1. CallOK(mode, c) /\ c.job <= printer[c.printerId].job BY DEF Shaped, Begun
  <2>2. QED BY <1>1, <1>4, <2>1, CallFacts
<1>5. QED BY <1>2, <1>3, <1>4 DEF NewRow

\* The current job of a printer after a step.
LEMMA NewRowHasBegun ==
  ASSUME Shaped, Begun, Grows, NEW r, NewRow(r)
  PROVE  r.job <= printer'[r.printerId].job
<1>1. CASE r.job <= printer[r.printerId].job
  <2>1. r.printerId \in mode.printers /\ r.job \in 1..mode.jobs BY NewRowIsCurrent
  <2>2. printer'[r.printerId].job >= printer[r.printerId].job /\ printer[r.printerId].job \in Nat
    BY <2>1, JobsAreNumbers DEF Grows
  <2>3. printer'[r.printerId].job \in Nat BY <2>1 DEF Grows
  <2>4. QED BY <1>1, <2>1, <2>2, <2>3
<1>2. CASE StartStep(r.printerId, r.job) BY <1>2, JobsAreNumbers DEF StartStep
<1>3. QED BY <1>1, <1>2, NewRowIsCurrent

\* Nothing is known of jobs to come, after a step either.
LEMMA NothingOfJobsToCome ==
  ASSUME Shaped, Begun, [Next]_vars, NEW p \in mode.printers, NEW k \in 1..mode.jobs,
         k > printer'[p].job
  PROVE  NothingOf(past'[p][k])
<1>1. /\ mode.jobs \in Nat /\ printer[p].job \in Nat /\ printer'[p].job \in Nat
      /\ printer'[p].job >= printer[p].job
  BY JobsAreNumbers, PastGrows DEF Grows
<1>2. k > printer[p].job BY <1>1
<1>3. NothingOf(past[p][k]) BY <1>2 DEF Begun
<1>4. \A c \in calls : c.printerId = p => c.job # k BY <1>1, <1>2 DEF Begun
<1>5. ~Ending(p, k) BY <1>4 DEF Ending, Creating
<1>6. CASE past'[p][k] = past[p][k] BY <1>3, <1>6
<1>7. ASSUME NEW q \in mode.printers, Start(q)
      PROVE  NothingOf(past'[p][k])
  <2>1. StartStep(q, printer[q].job + 1) BY <1>7, Starts
  <2>2. QED BY <1>1, <1>6, <2>1, SMTT(30) DEF StartStep, Others
<1>8. ASSUME Passed(p, k)
      PROVE  NothingOf(past'[p][k])
  BY <1>3, <1>5, <1>8, Zenon DEF Passed, NothingOf
<1>9. ASSUME NEW q \in mode.printers, NEW status \in Ends, End(q, status)
      PROVE  NothingOf(past'[p][k])
  <2>1. EndStep(q, printer[q].job, status) BY <1>9, Finishes
  <2>2. p = q => k # printer[q].job BY <1>1, <1>2
  <2>3. QED BY <1>6, <1>8, <2>1, <2>2 DEF EndStep, Others
<1>10. ASSUME NEW q \in mode.printers, NEW note \in Notes, Note(q, note)
       PROVE  NothingOf(past'[p][k])
  <2>1. NoteStep(q, printer[q].job, note) BY <1>10, Notices
  <2>2. p = q => k # printer[q].job BY <1>1, <1>2
  <2>3. QED BY <1>6, <1>8, <2>1, <2>2 DEF NoteStep, Others
<1>11. ASSUME NEW call \in calls, Failed(call)
       PROVE  NothingOf(past'[p][k])
  <2>1. FailStep(call) BY <1>11, Fails
  <2>2. SameJob(p, k) /\ ~past'[p][k].spoilt
    BY <1>3, <1>4, <2>1, Zenon DEF FailStep, NothingOf
  <2>3. QED BY <1>3, <2>2 DEF NothingOf, SameJob
<1>12. CASE Restart
  <2>1. RestartStep BY <1>12, Restarts
  <2>2. printer[p].job # k BY <1>1, <1>2
  <2>3. /\ SameJob(p, k)
        /\ past'[p][k].spoilt <=> \/ past[p][k].spoilt
                                  \/ printer[p].printing /\ printer[p].job = k
                                  \/ \E call \in calls : call.printerId = p /\ call.job = k
    BY <2>1 DEF RestartStep
  <2>4. ~past'[p][k].spoilt BY <1>3, <1>4, <2>2, <2>3, Zenon DEF NothingOf
  <2>5. QED BY <1>3, <2>3, <2>4 DEF NothingOf, SameJob
<1>13. QED
  BY <1>6, <1>7, <1>9, <1>10, <1>11, <1>12
     DEF Next, Current, Inserted, Found, Saved, Listen, vars

LEMMA BegunNext == Shaped /\ Begun /\ [Next]_vars => Begun'
<1> SUFFICES ASSUME Shaped, Begun, [Next]_vars PROVE Begun' OBVIOUS
<1>1. Grows /\ StoreStep BY PastGrows, StoreGrows
<1>2. /\ mode' = mode /\ rows \in Seq(Rows(mode)) /\ mode \in Instances
      /\ \A c \in calls : CallOK(mode, c)
  BY <1>1 DEF Shaped, Grows
<1>3. \A p \in mode.printers, k \in 1..mode.jobs : k > printer'[p].job => NothingOf(past'[p][k])
  BY NothingOfJobsToCome
<1>4. ASSUME NEW p \in mode.printers, NEW k \in 1..mode.jobs, k <= printer[p].job
      PROVE  k <= printer'[p].job
  BY <1>1, <1>4, JobsAreNumbers DEF Grows
<1>5. ASSUME NEW n \in DOMAIN rows'
      PROVE  rows'[n].job <= printer'[rows'[n].printerId].job
  <2>1. CASE n \in DOMAIN rows /\ SameRow(rows'[n], rows[n])
    <3>1. rows[n] \in Rows(mode) /\ rows[n].job <= printer[rows[n].printerId].job
      BY <1>2, <2>1 DEF Begun
    <3>2. rows[n].printerId \in mode.printers /\ rows[n].job \in 1..mode.jobs
      BY <3>1 DEF Rows
    <3>3. QED BY <1>4, <2>1, <3>1, <3>2 DEF SameRow
  <2>2. CASE NewRow(rows'[n]) BY <1>1, <2>2, NewRowHasBegun
  <2>3. QED BY <1>1, <2>1, <2>2 DEF StoreStep
<1>6. ASSUME NEW c \in calls'
      PROVE  c.job <= printer'[c.printerId].job
  <2>1. ASSUME NEW d \in calls
        PROVE  d.job <= printer'[d.printerId].job
    <3>1. d.printerId \in mode.printers /\ d.job \in 1..mode.jobs BY <1>2, CallFacts
    <3>2. QED BY <1>4, <3>1 DEF Begun
  <2>2. CASE c.at = "create" /\ c = Create(c.row) /\ NewRow(c.row)
    <3>1. c.job = c.row.job /\ c.printerId = c.row.printerId BY <2>2 DEF Create
    <3>2. QED BY <1>1, <2>2, <3>1, NewRowHasBegun
  <2>3. ASSUME NEW p \in mode.printers, NEW j \in 1..mode.jobs, NEW note \in Notes,
               NoteStep(p, j, note), c.printerId = p, c.job = j
        PROVE  c.job <= printer'[c.printerId].job
    BY <2>3, JobsAreNumbers DEF NoteStep
  <2>4. QED BY <1>1, <2>1, <2>2, <2>3 DEF StoreStep, NewCall
<1>7. QED BY <1>2, <1>3, <1>5, <1>6 DEF Begun

(***************************************************************************)
(* Jobs are not mixed                                                      *)
(***************************************************************************)
\* Below, pa is past, cs are calls, pr is a printer: of this state or of the next.
EndingIn(cs, p, k) ==
  \E c \in cs : c.printerId = p /\ c.at = "create" /\ c.row.status \in Ends /\ c.job = k

\* What is stored for job j of printer p may have the token id.
NotMixed(pa, p, j, id) ==
  \/ id \in {None, <<p, j>>}
  \/ \E k \in 1..mode.jobs : id = <<p, k>> /\ "start" \notin pa[p][j].heard /\ pa[p][k].spoilt

RowFiled(pa, r) == NotMixed(pa, r.printerId, r.job, CorrelationId(r))

CallFiled(pa, c) ==
  IF c.at = "create"
  THEN /\ RowFiled(pa, c.row)
       /\ c.row.status = "PrintStarted" => c.row.context = StartedContext(c.printerId, c.job)
  ELSE \E k \in 1..mode.jobs :
         c.context.id = <<c.printerId, k>> /\ (k # c.job => pa[c.printerId][k].spoilt)

\* What is stored, and what is going to be.
Filed ==
  /\ \A n \in DOMAIN rows : RowFiled(past, rows[n])
  /\ \A c \in calls : CallFiled(past, c)

\* A context has the token of the current job, or that of an earlier one: then the start of
\* the current job was not heard, and the end of the other was not, or is being stored.
ContextOf(pr, pa, cs, context, p) ==
  context # None /\ context.id # None =>
    \E k \in 1..mode.jobs :
      /\ k <= pr.job /\ context.id = <<p, k>>
      /\ k < pr.job => "start" \notin pa[p][pr.job].heard
      /\ k < pr.job \/ ~pr.printing => pa[p][k].spoilt \/ EndingIn(cs, p, k)

ContextsKept == \A p \in mode.printers : ContextOf(printer[p], past, calls, contextCache[p], p)

LEMMA EndingAmongCalls ==
  ASSUME NEW p, NEW k
  PROVE  Ending(p, k) <=> EndingIn(calls, p, k)
  BY DEF Ending, EndingIn, Creating

LEMMA FiledInit == Init => Filed /\ ContextsKept
<1> SUFFICES ASSUME Init PROVE Filed /\ ContextsKept OBVIOUS
<1>1. rows = <<>> /\ calls = {} /\ \A p \in mode.printers : contextCache[p] = None
  BY DEF Init
<1>2. QED BY <1>1 DEF Filed, ContextsKept, ContextOf

\* The token of a job that has begun remains right.
LEMMA NotMixedGrows ==
  ASSUME Grows, NEW p \in mode.printers, NEW j \in 1..mode.jobs, j <= printer[p].job, NEW id,
         NotMixed(past, p, j, id)
  PROVE  NotMixed(past', p, j, id)
  BY DEF Grows, NotMixed

\* What is stored of a job stays filed.
LEMMA RowStaysFiled ==
  ASSUME Grows, NEW r, r.printerId \in mode.printers, r.job \in 1..mode.jobs,
         r.job <= printer[r.printerId].job, RowFiled(past, r), NEW s, SameRow(s, r)
  PROVE  RowFiled(past', s)
<1>1. NotMixed(past', r.printerId, r.job, CorrelationId(r)) BY NotMixedGrows DEF RowFiled
<1>2. QED BY <1>1 DEF RowFiled, SameRow

\* A command stays one for its job.
LEMMA CallStaysFiled ==
  ASSUME Shaped, Begun, Grows, NEW c \in calls, CallFiled(past, c)
  PROVE  CallFiled(past', c)
<1>1. CallOK(mode, c) /\ mode \in Instances /\ c.job <= printer[c.printerId].job
  BY DEF Shaped, Begun
<1>2. c.printerId \in mode.printers /\ c.job \in 1..mode.jobs BY <1>1, CallFacts
<1>3. CASE c.at = "create"
  <2>1. c.row.printerId = c.printerId /\ c.row.job = c.job BY <1>1, <1>3, CallFacts
  <2>2. RowFiled(past', c.row)
    BY <1>1, <1>2, <1>3, <2>1, RowStaysFiled DEF CallFiled, SameRow
  <2>3. QED BY <1>3, <2>2 DEF CallFiled
<1>4. CASE c.at # "create" BY <1>2, <1>4 DEF CallFiled, Grows
<1>5. QED BY <1>3, <1>4

\* A new completion is filed under its job, or under an earlier one that is spoilt.
LEMMA NewRowFiled ==
  ASSUME Shaped, Begun, Filed, ContextsKept, Grows, NEW r, NewRow(r)
  PROVE  RowFiled(past', r)
<1>1. /\ mode \in Instances /\ \A p \in mode.printers : contextCache[p] \in Contexts(mode) \cup {None}
      /\ \A c \in calls : CallOK(mode, c)
  BY DEF Shaped
<1>2. ASSUME NEW p \in mode.printers, NEW j \in 1..mode.jobs,
             r = Row(p, j, "PrintStarted", StartedContext(p, j))
      PROVE  RowFiled(past', r)
  <2>1. /\ StartedContext(p, j) # None /\ StartedContext(p, j) \in Contexts(mode)
        /\ StartedContext(p, j).id = <<p, j>>
    BY <1>1, FreshContexts
  <2>2. r.printerId = p /\ r.job = j /\ r.context = StartedContext(p, j) BY <1>2 DEF Row
  <2>3. CorrelationId(r) = <<p, j>> BY <2>1, <2>2 DEF CorrelationId
  <2>4. QED BY <2>2, <2>3 DEF RowFiled, NotMixed
<1>3. ASSUME NEW p \in mode.printers, NEW j \in 1..mode.jobs, NEW status \in Ends,
             EndStep(p, j, status), r = Row(p, j, status, contextCache[p])
      PROVE  RowFiled(past', r)
  <2> DEFINE context == contextCache[p]
  <2>1. r.printerId = p /\ r.job = j /\ r.context = context BY <1>3 DEF Row
  <2>2. /\ j = printer[p].job /\ printer[p].printing
        /\ \A k \in 1..mode.jobs \ {j} : Passed(p, k)
    BY <1>3 DEF EndStep
  <2>3. CASE context = None \/ context.id = None
    BY <2>1, <2>3 DEF RowFiled, NotMixed, CorrelationId
  <2>4. CASE context # None /\ context.id # None
    <3>1. ContextOf(printer[p], past, calls, context, p) BY DEF ContextsKept
    <3>2. PICK k \in 1..mode.jobs :
            /\ k <= j /\ context.id = <<p, k>>
            /\ k < j => "start" \notin past[p][j].heard
            /\ k < j => past[p][k].spoilt \/ EndingIn(calls, p, k)
      BY <2>2, <2>4, <3>1, Zenon DEF ContextOf
    <3>3. CorrelationId(r) = <<p, k>> BY <2>1, <2>4, <3>2 DEF CorrelationId
    <3>4. CASE k = j BY <2>1, <3>3, <3>4 DEF RowFiled, NotMixed
    <3>5. CASE k # j
      <4>1. k < j /\ j <= printer[p].job BY <2>2, <3>2, <3>5, JobsAreNumbers
      <4>2. past'[p][k].spoilt BY <2>2, <3>2, <3>5, <4>1, EndingAmongCalls, Zenon DEF Passed
      <4>3. "start" \notin past'[p][j].heard BY <3>2, <4>1 DEF Grows
      <4>4. QED BY <2>1, <3>3, <4>2, <4>3 DEF RowFiled, NotMixed
    <3>6. QED BY <3>4, <3>5
  <2>5. QED BY <2>3, <2>4
<1>4. ASSUME NEW c \in calls, c.at = "create", r = c.row
      PROVE  RowFiled(past', r)
  <2>1. CallFiled(past', c) BY CallStaysFiled DEF Filed
  <2>2. QED BY <1>4, <2>1 DEF CallFiled
<1>5. QED BY <1>2, <1>3, <1>4 DEF NewRow

\* A new command is one for its job.
LEMMA NewCallFiled ==
  ASSUME Shaped, Begun, Filed, ContextsKept, Grows, NEW c, NewCall(c)
  PROVE  CallFiled(past', c)
<1>1. /\ mode \in Instances /\ \A p \in mode.printers : contextCache[p] \in Contexts(mode) \cup {None}
      /\ \A d \in calls : CallOK(mode, d)
  BY DEF Shaped
<1>2. CASE c.at = "create" /\ c = Create(c.row) /\ NewRow(c.row)
  <2>1. RowFiled(past', c.row) /\ c.printerId = c.row.printerId /\ c.job = c.row.job
    BY <1>2, NewRowFiled DEF Create
  <2>2. c.row.status = "PrintStarted" => c.row.context = StartedContext(c.row.printerId, c.row.job)
    <3>1. ASSUME NEW p \in mode.printers, NEW j \in 1..mode.jobs,
                 c.row = Row(p, j, "PrintStarted", StartedContext(p, j))
          PROVE  c.row.context = StartedContext(c.row.printerId, c.row.job)
      BY <3>1 DEF Row
    <3>2. ASSUME NEW p \in mode.printers, NEW j \in 1..mode.jobs, NEW status \in Ends,
                 c.row = Row(p, j, status, contextCache[p])
          PROVE  c.row.status # "PrintStarted"
      BY <3>2 DEF Row, Ends
    <3>3. ASSUME NEW d \in calls, d.at = "create", c.row = d.row, d.row.status = "PrintStarted"
          PROVE  c.row.context = StartedContext(c.row.printerId, c.row.job)
      <4>1. d.printerId = d.row.printerId /\ d.job = d.row.job BY <1>1, <3>3, CallFacts
      <4>2. QED BY <3>3, <4>1 DEF Filed, CallFiled
    <3>4. QED BY <1>2, <3>1, <3>2, <3>3 DEF NewRow
  <2>3. QED BY <1>2, <2>1, <2>2 DEF CallFiled
<1>3. ASSUME NEW p \in mode.printers, NEW j \in 1..mode.jobs, NEW note \in Notes,
             NoteStep(p, j, note), c.at = "find", c.printerId = p, c.job = j,
             c.context = WithNote(contextCache[p], note), c.context.id # None
      PROVE  CallFiled(past', c)
  <2>1. contextCache[p] # None /\ c.context.id = contextCache[p].id
    BY <1>1, <1>3, ContextWithNote
  <2>2. j = printer[p].job /\ \A k \in 1..mode.jobs \ {j} : Passed(p, k)
    BY <1>3 DEF NoteStep
  <2>3. ContextOf(printer[p], past, calls, contextCache[p], p) BY DEF ContextsKept
  <2>4. PICK k \in 1..mode.jobs :
          /\ k <= j /\ c.context.id = <<p, k>>
          /\ k < j => past[p][k].spoilt \/ EndingIn(calls, p, k)
    BY <1>3, <2>1, <2>2, <2>3, Zenon DEF ContextOf
  <2>5. k # j => past'[p][k].spoilt
    <3>1. k # j => k < j BY <2>2, <2>4, JobsAreNumbers
    <3>2. QED BY <2>2, <2>4, <3>1, EndingAmongCalls, Zenon DEF Passed
  <2>6. QED BY <1>3, <2>4, <2>5 DEF CallFiled
<1>4. ASSUME NEW d \in calls, d.at = "find", c.at = "save", c.printerId = d.printerId,
             c.job = d.job, c.context = d.context
      PROVE  CallFiled(past', c)
  <2>1. CallFiled(past', d) BY CallStaysFiled DEF Filed
  <2>2. QED BY <1>4, <2>1 DEF CallFiled
<1>5. QED BY <1>2, <1>3, <1>4 DEF NewCall

LEMMA FiledNext == Shaped /\ Begun /\ Filed /\ ContextsKept /\ [Next]_vars => Filed'
<1> SUFFICES ASSUME Shaped, Begun, Filed, ContextsKept, [Next]_vars PROVE Filed' OBVIOUS
<1>1. Grows /\ StoreStep /\ rows \in Seq(Rows(mode)) BY PastGrows, StoreGrows DEF Shaped
<1>2. ASSUME NEW n \in DOMAIN rows'
      PROVE  RowFiled(past', rows'[n])
  <2>1. CASE n \in DOMAIN rows /\ SameRow(rows'[n], rows[n])
    <3>1. rows[n] \in Rows(mode) /\ rows[n].job <= printer[rows[n].printerId].job
      BY <1>1, <2>1 DEF Begun
    <3>2. rows[n].printerId \in mode.printers /\ rows[n].job \in 1..mode.jobs
      BY <3>1 DEF Rows
    <3>3. RowFiled(past, rows[n]) BY <2>1 DEF Filed
    <3>4. QED BY <1>1, <2>1, <3>1, <3>2, <3>3, RowStaysFiled
  <2>2. CASE NewRow(rows'[n]) BY <1>1, <2>2, NewRowFiled
  <2>3. QED BY <1>1, <2>1, <2>2 DEF StoreStep
<1>3. ASSUME NEW c \in calls'
      PROVE  CallFiled(past', c)
  <2>1. CASE c \in calls BY <1>1, <2>1, CallStaysFiled DEF Filed
  <2>2. CASE NewCall(c) BY <1>1, <2>2, NewCallFiled
  <2>3. QED BY <1>1, <2>1, <2>2 DEF StoreStep
<1>4. mode' = mode BY <1>1 DEF Grows
<1>5. QED BY <1>2, <1>3, <1>4 DEF Filed, RowFiled, CallFiled, NotMixed

\* A context that stays keeps its job, as long as the end of another one stays in store.
LEMMA ContextStays ==
  ASSUME Shaped, Grows, NEW p \in mode.printers, ContextOf(printer[p], past, calls, contextCache[p], p),
         NEW context, context = None \/ context.id = None \/
                      (contextCache[p] # None /\ context.id = contextCache[p].id),
         printer'[p].job = printer[p].job, printer'[p].printing = printer[p].printing,
         \A k \in 1..mode.jobs :
           EndingIn(calls, p, k) => past'[p][k].spoilt \/ EndingIn(calls', p, k)
  PROVE  ContextOf(printer'[p], past', calls', context, p)
<1>1. CASE context = None \/ context.id = None BY <1>1 DEF ContextOf
<1>2. CASE context # None /\ context.id # None
  <2>1. PICK k \in 1..mode.jobs :
          /\ k <= printer[p].job /\ contextCache[p].id = <<p, k>>
          /\ k < printer[p].job => "start" \notin past[p][printer[p].job].heard
          /\ k < printer[p].job \/ ~printer[p].printing => past[p][k].spoilt \/ EndingIn(calls, p, k)
    BY <1>2, Zenon DEF ContextOf
  <2>2. k < printer[p].job => "start" \notin past'[p][printer[p].job].heard
    <3>1. printer[p].job \in 1..mode.jobs \/ ~(k < printer[p].job)
      <4>1. printer[p].job \in 0..mode.jobs BY DEF Shaped, PrinterOK
      <4>2. QED BY <4>1, JobsAreNumbers
    <3>2. QED BY <2>1, <3>1, JobsAreNumbers DEF Grows
  <2>3. past[p][k].spoilt => past'[p][k].spoilt BY DEF Grows
  <2>4. k < printer[p].job \/ ~printer'[p].printing => past'[p][k].spoilt \/ EndingIn(calls', p, k)
    BY <2>1, <2>3, Zenon
  <2>5. QED BY <1>2, <2>1, <2>2, <2>4, Zenon DEF ContextOf
<1>3. QED BY <1>1, <1>2

\* After a start, the context has the new token, or the start was missed.
LEMMA ContextAtStart ==
  ASSUME Shaped, Begun, ContextsKept, Grows, NEW p \in mode.printers, NEW j, StartStep(p, j)
  PROVE  ContextOf(printer'[p], past', calls', contextCache'[p], p)
<1>1. /\ j = printer[p].job + 1 /\ j \in 1..mode.jobs /\ printer'[p].job = j /\ printer'[p].printing
      /\ \A k \in 1..mode.jobs \ {j} : past'[p][k] = past[p][k]
      /\ ~printer[p].printing
  BY DEF StartStep
<1>2. printer[p].job \in Nat /\ mode.jobs \in Nat /\ mode \in Instances
  BY JobsAreNumbers DEF Shaped
<1>3. CASE contextCache'[p] = StartedContext(p, j)
  <2>1. contextCache'[p].id = <<p, j>> BY <1>1, <1>2, <1>3, FreshContexts
  <2>2. ~(j < j) /\ j <= j BY <1>1, <1>2
  <2>3. QED BY <1>1, <2>1, <2>2, Zenon DEF ContextOf
<1>4. CASE Lost(p, j) /\ Unchanged(p)
  <2>1. SUFFICES ASSUME contextCache[p] # None, contextCache[p].id # None
                 PROVE  ContextOf(printer'[p], past', calls', contextCache'[p], p)
    BY <1>4 DEF Unchanged, ContextOf
  <2>2. PICK k \in 1..mode.jobs :
          /\ k <= printer[p].job /\ contextCache[p].id = <<p, k>>
          /\ past[p][k].spoilt \/ EndingIn(calls, p, k)
    BY <1>1, <2>1, Zenon DEF ContextsKept, ContextOf
  <2>3. k < j /\ k <= j /\ k # j BY <1>1, <1>2, <2>2
  <2>4. "start" \notin past'[p][j].heard
    <3>1. j > printer[p].job BY <1>1, <1>2
    <3>2. past[p][j].heard = {} BY <1>1, <3>1 DEF Begun, NothingOf
    <3>3. QED BY <1>4, <3>2 DEF Lost
  <2>5. past'[p][k].spoilt \/ EndingIn(calls', p, k) BY <1>1, <1>4, <2>2, <2>3 DEF Unchanged
  <2>6. contextCache'[p] = contextCache[p] BY <1>4 DEF Unchanged
  <2>7. QED BY <1>1, <2>1, <2>2, <2>3, <2>4, <2>5, <2>6, Zenon DEF ContextOf
<1>5. QED BY <1>3, <1>4 DEF StartStep

\* After an end, the context is empty, or its end is being stored, or was missed.
LEMMA ContextAtEnd ==
  ASSUME Shaped, Begun, ContextsKept, Grows, NEW p \in mode.printers, NEW j, NEW status,
         EndStep(p, j, status)
  PROVE  ContextOf(printer'[p], past', calls', contextCache'[p], p)
<1>1. /\ j = printer[p].job /\ j \in 1..mode.jobs /\ printer'[p].job = j /\ ~printer'[p].printing
      /\ \A k \in 1..mode.jobs \ {j} : Passed(p, k)
      /\ printer[p].printing /\ status \in Ends
  BY DEF EndStep
<1>2. printer[p].job \in Nat /\ mode.jobs \in Nat /\ mode \in Instances
  BY JobsAreNumbers DEF Shaped
<1>3. CASE contextCache'[p].id = None \/ contextCache'[p] = None BY <1>3 DEF ContextOf
<1>4. CASE /\ contextCache'[p] = contextCache[p] /\ contextCache[p] # None /\ contextCache[p].id # None
           /\ past'[p][j].spoilt \/ EndingIn(calls', p, j)
  <2>1. PICK k \in 1..mode.jobs :
          /\ k <= j /\ contextCache[p].id = <<p, k>>
          /\ k < j => "start" \notin past[p][j].heard
          /\ k < j => past[p][k].spoilt \/ EndingIn(calls, p, k)
    BY <1>1, <1>4, Zenon DEF ContextsKept, ContextOf
  <2>2. k < j => "start" \notin past'[p][j].heard BY <1>1, <1>2, <2>1 DEF Grows
  <2>3. past'[p][k].spoilt \/ EndingIn(calls', p, k)
    <3>1. CASE k = j BY <1>4, <3>1
    <3>2. CASE k # j
      <4>1. k < j BY <1>1, <1>2, <2>1, <3>2
      <4>2. QED BY <1>1, <2>1, <3>2, <4>1, EndingAmongCalls, Zenon DEF Passed
    <3>3. QED BY <3>1, <3>2
  <2>4. QED BY <1>1, <1>4, <2>1, <2>2, <2>3, Zenon DEF ContextOf
<1>5. ASSUME Creates(Row(p, j, status, contextCache[p])), mode.db = "mongo"
      PROVE  EndingIn(calls', p, j)
  <2> DEFINE r == Row(p, j, status, contextCache[p])
  <2>1. Create(r) \in calls' BY <1>5 DEF Creates
  <2>2. /\ Create(r).printerId = p /\ Create(r).at = "create" /\ Create(r).job = j
        /\ Create(r).row.status \in Ends
    BY <1>1 DEF Create, Row
  <2>3. QED BY <2>1, <2>2, Zenon DEF EndingIn
<1>6. EmptyContext.id = None BY DEF EmptyContext
<1>7. QED BY <1>3, <1>4, <1>5, <1>6 DEF EndStep, Lost, Unchanged

\* The events of printers only add commands.
LEMMA EventsAddCalls ==
  ASSUME NEW p, NEW j,
         StartStep(p, j) \/ (\E s \in Ends : EndStep(p, j, s)) \/ \E note \in Notes : NoteStep(p, j, note)
  PROVE  calls \subseteq calls'
<1>1. ASSUME NEW r, Creates(r)
      PROVE  calls \subseteq calls'
  BY <1>1 DEF Creates
<1>2. ASSUME NEW context, UpdateContext(p, j, context)
      PROVE  calls \subseteq calls'
  BY <1>2 DEF UpdateContext
<1>3. QED BY <1>1, <1>2 DEF StartStep, EndStep, NoteStep, Unchanged

\* The contexts of the printers that an event does not concern.
LEMMA OtherContextsStay ==
  ASSUME Shaped, Grows, ContextsKept, NEW p, Others(p), calls \subseteq calls',
         NEW q \in mode.printers \ {p}
  PROVE  ContextOf(printer'[q], past', calls', contextCache'[q], q)
<1>1. printer'[q] = printer[q] /\ contextCache'[q] = contextCache[q] BY DEF Others
<1>2. \A k \in 1..mode.jobs : EndingIn(calls, q, k) => EndingIn(calls', q, k)
  BY DEF EndingIn
<1>3. ContextOf(printer[q], past, calls, contextCache[q], q) BY DEF ContextsKept
<1>4. contextCache'[q] = None \/ contextCache'[q].id = None \/
        (contextCache[q] # None /\ contextCache'[q].id = contextCache[q].id)
  BY <1>1
<1>5. /\ printer'[q].job = printer[q].job /\ printer'[q].printing = printer[q].printing
      /\ \A k \in 1..mode.jobs :
           EndingIn(calls, q, k) => past'[q][k].spoilt \/ EndingIn(calls', q, k)
  BY <1>1, <1>2
<1>6. QED BY <1>3, <1>4, <1>5, ContextStays

LEMMA ContextsNext == Shaped /\ Begun /\ Filed /\ ContextsKept /\ [Next]_vars => ContextsKept'
<1> SUFFICES ASSUME Shaped, Begun, Filed, ContextsKept, [Next]_vars PROVE ContextsKept'
  OBVIOUS
<1>1. Grows /\ mode' = mode BY PastGrows DEF Grows
<1>2. SUFFICES \A p \in mode.printers : ContextOf(printer'[p], past', calls', contextCache'[p], p)
  BY <1>1 DEF ContextsKept, ContextOf, EndingIn
<1>3. /\ mode \in Instances /\ \A p \in mode.printers : contextCache[p] \in Contexts(mode) \cup {None}
      /\ \A c \in calls : CallOK(mode, c)
  BY DEF Shaped
<1>4. ASSUME NEW p \in mode.printers, Others(p), calls \subseteq calls',
             ContextOf(printer'[p], past', calls', contextCache'[p], p)
      PROVE  \A q \in mode.printers : ContextOf(printer'[q], past', calls', contextCache'[q], q)
  BY <1>1, <1>4, OtherContextsStay
<1>5. ASSUME NEW p \in mode.printers, Start(p)
      PROVE  \A q \in mode.printers : ContextOf(printer'[q], past', calls', contextCache'[q], q)
  <2>1. StartStep(p, printer[p].job + 1) BY <1>5, Starts
  <2>2. Others(p) /\ calls \subseteq calls' BY <2>1, EventsAddCalls DEF StartStep
  <2>3. ContextOf(printer'[p], past', calls', contextCache'[p], p)
    BY <1>1, <2>1, ContextAtStart
  <2>4. QED BY <1>4, <2>2, <2>3
<1>6. ASSUME NEW p \in mode.printers, NEW status \in Ends, End(p, status)
      PROVE  \A q \in mode.printers : ContextOf(printer'[q], past', calls', contextCache'[q], q)
  <2>1. EndStep(p, printer[p].job, status) BY <1>6, Finishes
  <2>2. Others(p) /\ calls \subseteq calls' BY <2>1, EventsAddCalls DEF EndStep
  <2>3. ContextOf(printer'[p], past', calls', contextCache'[p], p)
    BY <1>1, <2>1, ContextAtEnd
  <2>4. QED BY <1>4, <2>2, <2>3
<1>7. ASSUME NEW p \in mode.printers, NEW note \in Notes, Note(p, note)
      PROVE  \A q \in mode.printers : ContextOf(printer'[q], past', calls', contextCache'[q], q)
  <2>1. NoteStep(p, printer[p].job, note) BY <1>7, Notices
  <2>2. Others(p) /\ calls \subseteq calls' BY <2>1, EventsAddCalls DEF NoteStep
  <2>3. /\ printer'[p].job = printer[p].job /\ printer'[p].printing = printer[p].printing
    BY <2>1 DEF NoteStep
  <2>4. contextCache'[p] = None \/ contextCache'[p].id = None \/
          (contextCache[p] # None /\ contextCache'[p].id = contextCache[p].id)
    <3>1. WithNote(contextCache[p], note).id = IF contextCache[p] = None THEN None ELSE contextCache[p].id
      BY <1>3, ContextWithNote
    <3>2. QED BY <2>1, <3>1 DEF NoteStep, Unchanged
  <2>5. \A k \in 1..mode.jobs :
          EndingIn(calls, p, k) => past'[p][k].spoilt \/ EndingIn(calls', p, k)
    BY <2>2 DEF EndingIn
  <2>6. ContextOf(printer[p], past, calls, contextCache[p], p) BY DEF ContextsKept
  <2>7. ContextOf(printer'[p], past', calls', contextCache'[p], p)
    BY <1>1, <2>3, <2>4, <2>5, <2>6, ContextStays
  <2>8. QED BY <1>4, <2>2, <2>7
\* The steps that leave the printers alone.
<1>8. ASSUME printer' = printer,
             \A q \in mode.printers :
               contextCache'[q] = None \/ contextCache'[q].id = None \/
                 (/\ contextCache'[q] = contextCache[q]
                  /\ \A k \in 1..mode.jobs :
                       EndingIn(calls, q, k) => past'[q][k].spoilt \/ EndingIn(calls', q, k))
      PROVE  \A q \in mode.printers : ContextOf(printer'[q], past', calls', contextCache'[q], q)
  <2> TAKE q \in mode.printers
  <2>1. CASE contextCache'[q] = None \/ contextCache'[q].id = None BY <2>1 DEF ContextOf
  <2>2. CASE /\ contextCache'[q] = contextCache[q]
             /\ \A k \in 1..mode.jobs :
                  EndingIn(calls, q, k) => past'[q][k].spoilt \/ EndingIn(calls', q, k)
    <3>1. ContextOf(printer[q], past, calls, contextCache[q], q) BY DEF ContextsKept
    <3>2. contextCache'[q] = None \/ contextCache'[q].id = None \/
            (contextCache[q] # None /\ contextCache'[q].id = contextCache[q].id)
      BY <2>2
    <3>3. printer'[q].job = printer[q].job /\ printer'[q].printing = printer[q].printing
      BY <1>8
    <3>4. QED BY <1>1, <2>2, <3>1, <3>2, <3>3, ContextStays
  <2>3. QED BY <1>8, <2>1, <2>2
<1>9. ASSUME NEW call \in calls, Inserted(call)
      PROVE  \A q \in mode.printers : ContextOf(printer'[q], past', calls', contextCache'[q], q)
  <2>1. /\ printer' = printer /\ calls' = calls \ {call} /\ call.at = "create"
        /\ contextCache' = IF call.row.status \in Ends
                           THEN [contextCache EXCEPT ![call.printerId] = EmptyContext] ELSE contextCache
    BY <1>9 DEF Inserted
  <2>2. ASSUME NEW q \in mode.printers
        PROVE  contextCache'[q] = None \/ contextCache'[q].id = None \/
                 (/\ contextCache'[q] = contextCache[q]
                  /\ \A k \in 1..mode.jobs :
                       EndingIn(calls, q, k) => past'[q][k].spoilt \/ EndingIn(calls', q, k))
    <3>1. CASE call.row.status \in Ends /\ q = call.printerId
      <4>1. contextCache'[q] = EmptyContext BY <2>1, <3>1 DEF Shaped
      <4>2. QED BY <4>1 DEF EmptyContext
    <3>2. CASE ~(call.row.status \in Ends /\ q = call.printerId)
      BY <2>1, <3>2 DEF Shaped, EndingIn
    <3>3. QED BY <3>1, <3>2
  <2>3. QED BY <1>8, <2>1, <2>2
<1>10. ASSUME NEW call \in calls, Found(call) \/ Saved(call)
       PROVE  \A q \in mode.printers : ContextOf(printer'[q], past', calls', contextCache'[q], q)
  <2>1. /\ printer' = printer /\ contextCache' = contextCache /\ calls \ {call} \subseteq calls'
        /\ call.at # "create"
    BY <1>10 DEF Found, Saved
  <2>2. \A q \in mode.printers, k \in 1..mode.jobs : EndingIn(calls, q, k) => EndingIn(calls', q, k)
    BY <2>1 DEF EndingIn
  <2>3. QED BY <1>8, <2>1, <2>2
<1>11. ASSUME NEW call \in calls, Failed(call)
       PROVE  \A q \in mode.printers : ContextOf(printer'[q], past', calls', contextCache'[q], q)
  <2>1. FailStep(call) BY <1>11, Fails
  <2>2. printer' = printer /\ contextCache' = contextCache /\ calls' = calls \ {call}
    BY <2>1 DEF FailStep
  <2>3. ASSUME NEW q \in mode.printers, NEW k \in 1..mode.jobs, EndingIn(calls, q, k)
        PROVE  past'[q][k].spoilt \/ EndingIn(calls', q, k)
    <3>1. PICK c \in calls : c.printerId = q /\ c.at = "create" /\ c.row.status \in Ends /\ c.job = k
      BY <2>3 DEF EndingIn
    <3>2. CASE c = call BY <2>1, <3>1, <3>2, Zenon DEF FailStep
    <3>3. CASE c # call BY <2>2, <3>1, <3>3 DEF EndingIn
    <3>4. QED BY <3>2, <3>3
  <2>4. QED BY <1>8, <2>2, <2>3
<1>12. CASE Restart
  <2>1. RestartStep BY <1>12, Restarts
  <2>2. printer' = printer /\ \A q \in mode.printers : contextCache'[q] = None
    BY <2>1 DEF RestartStep
  <2>3. QED BY <1>8, <2>2
<1>13. CASE printer' = printer /\ contextCache' = contextCache /\ calls' = calls
  BY <1>8, <1>13
<1>14. QED
  BY <1>5, <1>6, <1>7, <1>9, <1>10, <1>11, <1>12, <1>13 DEF Next, Current, Listen, vars

Invariant == Shaped /\ Begun /\ Filed /\ ContextsKept

\* The contexts, the completions and the commands of any printers are as described above.
THEOREM CompletionsFiled == Spec => []Invariant
<1>1. Init => Invariant BY ShapedInit, BegunInit, FiledInit DEF Invariant
<1>2. Invariant /\ [Next]_vars => Invariant'
  BY ShapedNext, BegunNext, FiledNext, ContextsNext DEF Invariant
<1>3. QED BY <1>1, <1>2, PTL DEF Spec

\* A job whose start was heard is never filed under another one, whatever else is missed, fails
\* or overlaps; one whose start was missed only under a job whose end was not recorded
\* (handleMessage of print-completion.socketio.task.ts).
THEOREM JobsAreNotMixed == Spec => []NoMixedJobs
<1>1. Invariant => NoMixedJobs
  <2> SUFFICES ASSUME Invariant, NEW i \in DOMAIN rows,
                      CorrelationId(rows[i]) \notin {None, <<rows[i].printerId, rows[i].job>>}
               PROVE  /\ "start" \notin past[rows[i].printerId][rows[i].job].heard
                      /\ past[rows[i].printerId][CorrelationId(rows[i])[2]].spoilt
    BY DEF NoMixedJobs
  <2>1. NotMixed(past, rows[i].printerId, rows[i].job, CorrelationId(rows[i]))
    BY DEF Invariant, Filed, RowFiled
  <2>2. PICK k \in 1..mode.jobs :
          /\ CorrelationId(rows[i]) = <<rows[i].printerId, k>>
          /\ "start" \notin past[rows[i].printerId][rows[i].job].heard
          /\ past[rows[i].printerId][k].spoilt
    BY <2>1, Zenon DEF NotMixed
  <2>3. CorrelationId(rows[i])[2] = k BY <2>2
  <2>4. QED BY <2>2, <2>3
<1>2. QED BY <1>1, CompletionsFiled, PTL

(***************************************************************************)
(* Notes are stored                                                        *)
(***************************************************************************)
\* Below, cs are calls, rs are rows, pr is a printer and job one of its jobs: of this state or
\* of the next.
StartingIn(cs, p, j) ==
  \E c \in cs : c.printerId = p /\ c.at = "create" /\ c.row.status = "PrintStarted" /\ c.job = j

UpdatingIn(cs, p, j) == {c \in cs : c.printerId = p /\ c.at # "create" /\ c.job = j}

EndsIn(cs, p) == \E c \in cs : c.printerId = p /\ c.at = "create" /\ c.row.status \in Ends

Clean(job) == "start" \in job.heard /\ ~job.spoilt

\* A context has what was heard of a job, and no more than was sent.
Noted(job, context) ==
  job.heard \cap Notes \subseteq context.notes /\ context.notes \subseteq job.notes

\* Nothing was noted before the row of the start is there; from then on the row has all notes,
\* or an update with all of them is under way, the only one.
NotesSaved(job, cs, rs, p, j) ==
  LET updating == UpdatingIn(cs, p, j)
  IN  /\ StartingIn(cs, p, j) => job.heard \cap Notes = {}
      /\ \/ StartingIn(cs, p, j)
         \/ \E n \in StartedIn(rs, <<p, j>>) : updating # {} \/ Noted(job, rs[n].context)
      /\ \A c \in updating : /\ c.context.id = <<p, j>> /\ Noted(job, c.context)
                             /\ \A d \in updating : d = c

\* The context of a printer is that of its job while it prints, and has its notes.
ContextNoted(pr, job, context, cs, p, j) ==
  j = pr.job =>
    /\ pr.printing => context # None /\ context.id = <<p, j>> /\ ~EndsIn(cs, p)
    /\ context # None /\ context.id = <<p, j>> => Noted(job, context)

\* Of a job that was heard from its start on and is not spoilt.
NotesKept ==
  mode.db = "mongo" => \A p \in mode.printers, j \in 1..mode.jobs :
    Clean(past[p][j]) =>
      /\ NotesSaved(past[p][j], calls, rows, p, j)
      /\ ContextNoted(printer[p], past[p][j], contextCache[p], calls, p, j)

\* The same after a step.
KeptNext(p, j) ==
  Clean(past'[p][j]) =>
    /\ NotesSaved(past'[p][j], calls', rows', p, j)
    /\ ContextNoted(printer'[p], past'[p][j], contextCache'[p], calls', p, j)

\* A step does not touch what is stored of job j of printer p.
StoreKept(p, j) ==
  /\ StartingIn(calls', p, j) <=> StartingIn(calls, p, j)
  /\ UpdatingIn(calls', p, j) = UpdatingIn(calls, p, j)
  /\ \A n \in StartedIn(rows, <<p, j>>) :
       n \in StartedIn(rows', <<p, j>>) /\ rows'[n].context = rows[n].context

\* The record of a job may have more notes, none of which was heard.
LEMMA NotesStay ==
  ASSUME NEW p, NEW j, NEW job, NEW fresh, NotesSaved(job, calls, rows, p, j), StoreKept(p, j),
         fresh.heard \cap Notes = job.heard \cap Notes, job.notes \subseteq fresh.notes
  PROVE  NotesSaved(fresh, calls', rows', p, j)
<1>1. ASSUME NEW context, Noted(job, context)
      PROVE  Noted(fresh, context)
  BY <1>1 DEF Noted
<1>2. StartingIn(calls', p, j) => fresh.heard \cap Notes = {} BY DEF StoreKept, NotesSaved
<1>3. \/ StartingIn(calls', p, j)
      \/ \E n \in StartedIn(rows', <<p, j>>) :
           UpdatingIn(calls', p, j) # {} \/ Noted(fresh, rows'[n].context)
  <2>1. CASE StartingIn(calls, p, j) BY <2>1 DEF StoreKept
  <2>2. CASE ~StartingIn(calls, p, j)
    <3>1. PICK n \in StartedIn(rows, <<p, j>>) :
            UpdatingIn(calls, p, j) # {} \/ Noted(job, rows[n].context)
      BY <2>2 DEF NotesSaved
    <3>2. QED BY <1>1, <3>1 DEF StoreKept
  <2>3. QED BY <2>1, <2>2
<1>4. ASSUME NEW c \in UpdatingIn(calls', p, j)
      PROVE  /\ c.context.id = <<p, j>> /\ Noted(fresh, c.context)
             /\ \A d \in UpdatingIn(calls', p, j) : d = c
  <2>1. UpdatingIn(calls', p, j) = UpdatingIn(calls, p, j) BY DEF StoreKept
  <2>2. QED BY <1>1, <2>1 DEF NotesSaved
<1>5. QED BY <1>2, <1>3, <1>4, Zenon DEF NotesSaved

\* An event of job j of printer p leaves the other jobs as they are.
LEMMA EventElsewhere ==
  ASSUME NotesKept, mode.db = "mongo", NEW p, NEW j, Others(p), rows' = rows, calls \subseteq calls',
         \A c \in calls' : c \in calls \/ (c.printerId = p /\ c.job = j),
         printer'[p].job = j,
         \A k \in 1..mode.jobs \ {j} :
           /\ past'[p][k].heard = past[p][k].heard /\ past'[p][k].notes = past[p][k].notes
           /\ past[p][k].spoilt => past'[p][k].spoilt,
         NEW q \in mode.printers, NEW k \in 1..mode.jobs, q # p \/ k # j
  PROVE  KeptNext(q, k)
<1>1. StoreKept(q, k)
  <2>1. ASSUME NEW c \in calls', c.printerId = q /\ c.job = k
        PROVE  c \in calls
    BY <2>1
  <2>2. StartingIn(calls', q, k) <=> StartingIn(calls, q, k) BY <2>1 DEF StartingIn
  <2>3. UpdatingIn(calls', q, k) = UpdatingIn(calls, q, k) BY <2>1 DEF UpdatingIn
  <2>4. QED BY <2>2, <2>3 DEF StoreKept
<1>2. /\ past'[q][k].heard = past[q][k].heard /\ past'[q][k].notes = past[q][k].notes
      /\ Clean(past'[q][k]) => Clean(past[q][k])
  <2>1. CASE q # p BY <2>1 DEF Others
  <2>2. CASE q = p BY <2>2, Zenon DEF Clean
  <2>3. QED BY <2>1, <2>2
<1>3. SUFFICES ASSUME Clean(past'[q][k])
               PROVE  /\ NotesSaved(past'[q][k], calls', rows', q, k)
                      /\ ContextNoted(printer'[q], past'[q][k], contextCache'[q], calls', q, k)
  BY DEF KeptNext
<1>4. /\ NotesSaved(past[q][k], calls, rows, q, k)
      /\ ContextNoted(printer[q], past[q][k], contextCache[q], calls, q, k)
  BY <1>2, <1>3 DEF NotesKept
<1>5. NotesSaved(past'[q][k], calls', rows', q, k) BY <1>1, <1>2, <1>4, NotesStay
<1>6. ContextNoted(printer'[q], past'[q][k], contextCache'[q], calls', q, k)
  <2>1. CASE q # p
    <3>1. /\ printer'[q] = printer[q] /\ contextCache'[q] = contextCache[q]
          /\ past'[q] = past[q]
      BY <2>1 DEF Others
    <3>2. EndsIn(calls', q) => EndsIn(calls, q) BY <2>1 DEF EndsIn
    <3>3. QED BY <1>4, <3>1, <3>2 DEF ContextNoted
  <2>2. CASE q = p BY <2>2 DEF ContextNoted
  <2>3. QED BY <2>1, <2>2
<1>7. QED BY <1>5, <1>6

\* The start of a job: its row is on its way, and nothing was noted yet.
LEMMA NotesAtStart ==
  ASSUME Shaped, Begun, mode.db = "mongo", NEW p, NEW j, StartStep(p, j)
  PROVE  KeptNext(p, j)
<1>1. /\ p \in mode.printers /\ j \in 1..mode.jobs /\ j = printer[p].job + 1 /\ printer'[p].job = j
  BY DEF StartStep, Others
<1>2. /\ mode \in Instances /\ printer[p].job \in Nat /\ \A c \in calls : CallOK(mode, c)
  BY <1>1, JobsAreNumbers DEF Shaped
<1>3. past[p][j].heard = {} BY <1>1, <1>2 DEF Begun, NothingOf
<1>4. CASE Lost(p, j) BY <1>3, <1>4 DEF Lost, KeptNext, Clean
<1>5. CASE /\ Handled(p, j, "start", SpoilsStart(p)) /\ contextCache'[p] = StartedContext(p, j)
           /\ Creates(Row(p, j, "PrintStarted", StartedContext(p, j)))
  <2> DEFINE c == Create(Row(p, j, "PrintStarted", StartedContext(p, j)))
             job == past'[p][j]
  <2>1. /\ c.printerId = p /\ c.at = "create" /\ c.job = j /\ c.row.status = "PrintStarted"
    BY DEF Create, Row
  <2>2. rows' = rows /\ calls' = calls \cup {c} BY <1>5 DEF Creates
  <2> HIDE DEF c
  <2>3. SUFFICES ASSUME Clean(job)
                 PROVE  /\ NotesSaved(job, calls', rows', p, j)
                        /\ ContextNoted(printer'[p], job, contextCache'[p], calls', p, j)
    BY DEF KeptNext
  <2>4. ~SpoilsStart(p) BY <1>5, <2>3, Zenon DEF Clean, Handled
  <2>5. ~EndsIn(calls', p) BY <2>1, <2>2, <2>4 DEF EndsIn, SpoilsStart, Creating, Ends
  <2>6. job.heard \cap Notes = {} BY <1>3, <1>5 DEF Handled, Notes
  <2>7. UpdatingIn(calls', p, j) = {}
    <3>1. ASSUME NEW d \in calls, d.printerId = p, d.job = j
          PROVE  FALSE
      BY <1>1, <1>2, <3>1 DEF Begun
    <3>2. QED BY <2>1, <2>2, <3>1 DEF UpdatingIn
  <2>8. StartingIn(calls', p, j) BY <2>1, <2>2 DEF StartingIn
  <2>9. NotesSaved(job, calls', rows', p, j) BY <2>6, <2>7, <2>8 DEF NotesSaved
  <2>10. /\ contextCache'[p] # None /\ contextCache'[p].id = <<p, j>>
         /\ contextCache'[p].notes = {}
    BY <1>1, <1>2, <1>5, FreshContexts
  <2>11. ContextNoted(printer'[p], job, contextCache'[p], calls', p, j)
    BY <2>5, <2>6, <2>10 DEF ContextNoted, Noted
  <2>12. QED BY <2>9, <2>11
<1>6. QED BY <1>4, <1>5 DEF StartStep

\* The end of a job: what was noted of it stays.
LEMMA NotesAtEnd ==
  ASSUME Shaped, NotesKept, mode.db = "mongo", NEW p, NEW j, NEW status, EndStep(p, j, status)
  PROVE  KeptNext(p, j)
<1>1. /\ p \in mode.printers /\ j \in 1..mode.jobs /\ j = printer[p].job /\ printer'[p].job = j
      /\ ~printer'[p].printing /\ past'[p][j].notes = past[p][j].notes /\ status \in Ends
  BY DEF EndStep, Others
<1>2. CASE Lost(p, j) BY <1>2, Zenon DEF Lost, KeptNext, Clean
<1>3. CASE /\ Handled(p, j, "end", FALSE) /\ contextCache'[p] = contextCache[p]
           /\ rows' = rows /\ StoreKept(p, j)
  <2>1. SUFFICES ASSUME Clean(past'[p][j])
                 PROVE  /\ NotesSaved(past'[p][j], calls', rows', p, j)
                        /\ ContextNoted(printer'[p], past'[p][j], contextCache'[p], calls', p, j)
    BY DEF KeptNext
  <2>2. past'[p][j].heard = past[p][j].heard \cup {"end"} BY <1>3 DEF Handled
  <2>3. Clean(past[p][j])
    <3>1. "start" \in past[p][j].heard BY <2>1, <2>2 DEF Clean
    <3>2. ~past[p][j].spoilt BY <1>3, <2>1, Zenon DEF Clean, Handled
    <3>3. QED BY <3>1, <3>2 DEF Clean
  <2>4. past'[p][j].heard \cap Notes = past[p][j].heard \cap Notes BY <2>2 DEF Notes
  <2>5. /\ NotesSaved(past[p][j], calls, rows, p, j)
        /\ ContextNoted(printer[p], past[p][j], contextCache[p], calls, p, j)
    BY <1>1, <2>3 DEF NotesKept
  <2>6. NotesSaved(past'[p][j], calls', rows', p, j) BY <1>1, <1>3, <2>4, <2>5, NotesStay
  <2>7. ContextNoted(printer'[p], past'[p][j], contextCache'[p], calls', p, j)
    BY <1>1, <1>3, <2>4, <2>5 DEF ContextNoted, Noted
  <2>8. QED BY <2>6, <2>7
<1>4. ASSUME Creates(Row(p, j, status, contextCache[p]))
      PROVE  rows' = rows /\ StoreKept(p, j)
  <2> DEFINE c == Create(Row(p, j, status, contextCache[p]))
  <2>1. c.at = "create" /\ c.row.status # "PrintStarted" BY <1>1 DEF Create, Row, Ends
  <2>2. rows' = rows /\ calls' = calls \cup {c} BY <1>4 DEF Creates
  <2>3. QED BY <2>1, <2>2 DEF StoreKept, StartingIn, UpdatingIn
<1>5. Unchanged(p) => rows' = rows /\ StoreKept(p, j) /\ contextCache'[p] = contextCache[p]
  BY DEF Unchanged, StoreKept
<1>6. QED BY <1>2, <1>3, <1>4, <1>5 DEF EndStep

\* A note: an update with it is on its way, unless the context is of another job.
LEMMA NotesAtNote ==
  ASSUME Shaped, ContextsKept, NotesKept, mode.db = "mongo", NEW p, NEW j, NEW note, NoteStep(p, j, note)
  PROVE  KeptNext(p, j)
<1> DEFINE job == past[p][j]
           fresh == past'[p][j]
           context == WithNote(contextCache[p], note)
<1>1. /\ p \in mode.printers /\ j \in 1..mode.jobs /\ j = printer[p].job /\ printer'[p].job = j
      /\ printer'[p].printing = printer[p].printing /\ fresh.notes = job.notes \cup {note}
      /\ note \in Notes
  BY DEF NoteStep, Others
<1>2. CASE Lost(p, j) BY <1>2, Zenon DEF Lost, KeptNext, Clean
<1>3. CASE /\ Handled(p, j, IF printer[p].printing THEN note ELSE "later", SpoilsNote(p, j))
           /\ contextCache'[p] = context /\ UpdateContext(p, j, context)
  <2>1. SUFFICES ASSUME Clean(fresh)
                 PROVE  /\ NotesSaved(fresh, calls', rows', p, j)
                        /\ ContextNoted(printer'[p], fresh, contextCache'[p], calls', p, j)
    BY DEF KeptNext
  <2>2. fresh.heard = job.heard \cup {IF printer[p].printing THEN note ELSE "later"}
    BY <1>3 DEF Handled
  <2>3. ~job.spoilt /\ ~SpoilsNote(p, j) BY <1>3, <2>1, Zenon DEF Clean, Handled
  <2>4. "start" \in job.heard /\ fresh.heard \cap Notes \subseteq (job.heard \cap Notes) \cup {note}
    BY <1>1, <2>1, <2>2 DEF Clean, Notes
  <2>5. Clean(job) BY <2>3, <2>4 DEF Clean
  <2>6. /\ NotesSaved(job, calls, rows, p, j)
        /\ ContextNoted(printer[p], job, contextCache[p], calls, p, j)
    BY <1>1, <2>5 DEF NotesKept
  <2>7. ~StartingIn(calls, p, j) /\ UpdatingIn(calls, p, j) = {}
    BY <2>3 DEF SpoilsNote, Creating, Updating, StartingIn, UpdatingIn
  <2>8. PICK n \in StartedIn(rows, <<p, j>>) : Noted(job, rows[n].context)
    BY <2>6, <2>7 DEF NotesSaved
  <2>9. /\ mode \in Instances /\ contextCache[p] \in Contexts(mode) \cup {None}
    BY <1>1 DEF Shaped
  <2>10. /\ context \in Contexts(mode)
         /\ context.id = IF contextCache[p] = None THEN None ELSE contextCache[p].id
         /\ context.notes = (IF contextCache[p] = None THEN {} ELSE contextCache[p].notes) \cup {note}
    BY <1>1, <2>9, ContextWithNote
  <2>11. <<p, j>> # None /\ context # None
    BY <1>1, <2>9, <2>10, FreshContexts, InstanceFacts
  <2> HIDE DEF context
  <2>12. context.id = <<p, j>> => Noted(fresh, context)
    <3>1. context.id = <<p, j>> => contextCache[p] # None /\ contextCache[p].id = <<p, j>>
      BY <2>10, <2>11
    <3>2. context.id = <<p, j>> => Noted(job, contextCache[p])
      BY <1>1, <2>6, <3>1 DEF ContextNoted
    <3>3. QED BY <1>1, <2>4, <2>10, <3>1, <3>2 DEF Noted
  <2>13. CASE context.id = None
    <3>1. rows' = rows /\ calls' = calls BY <1>3, <2>13 DEF UpdateContext
    <3>2. ~printer[p].printing BY <1>1, <2>6, <2>10, <2>11, <2>13 DEF ContextNoted
    <3>3. fresh.heard \cap Notes = job.heard \cap Notes BY <2>2, <3>2 DEF Notes
    <3>4. StoreKept(p, j) BY <3>1 DEF StoreKept
    <3>5. job.notes \subseteq fresh.notes BY <1>1
    <3>6. NotesSaved(fresh, calls', rows', p, j) BY <2>6, <3>3, <3>4, <3>5, NotesStay
    <3>7. ContextNoted(printer'[p], fresh, contextCache'[p], calls', p, j)
      BY <1>1, <1>3, <2>11, <2>13, <3>2 DEF ContextNoted
    <3>8. QED BY <3>6, <3>7
  <2>14. CASE context.id # None
    <3> DEFINE c == [printerId |-> p, at |-> "find", context |-> context, job |-> j]
    <3>1. rows' = rows /\ calls' = calls \cup {c} BY <1>3, <2>14 DEF UpdateContext
    <3>2. c.printerId = p /\ c.at = "find" /\ c.context = context /\ c.job = j OBVIOUS
    <3> HIDE DEF c
    <3>3. UpdatingIn(calls', p, j) = {c} BY <2>7, <3>1, <3>2 DEF UpdatingIn
    <3>4. ~StartingIn(calls', p, j) BY <2>7, <3>1, <3>2 DEF StartingIn
    <3>5. context.id = <<p, j>>
      <4>1. contextCache[p] # None /\ contextCache[p].id = context.id BY <2>10, <2>14
      <4>2. ContextOf(printer[p], past, calls, contextCache[p], p) BY <1>1 DEF ContextsKept
      <4>3. PICK k \in 1..mode.jobs :
              /\ k < j => "start" \notin past[p][j].heard
              /\ k <= j /\ context.id = <<p, k>>
        BY <1>1, <2>14, <4>1, <4>2, Zenon DEF ContextOf
      <4>4. ~(k < j) BY <2>4, <4>3
      <4>5. k = j BY <1>1, <4>3, <4>4, JobsAreNumbers
      <4>6. QED BY <4>3, <4>5
    <3>6. NotesSaved(fresh, calls', rows', p, j)
      <4>1. n \in StartedIn(rows', <<p, j>>) BY <2>8, <3>1
      <4>2. QED BY <2>12, <3>2, <3>3, <3>4, <3>5, <4>1 DEF NotesSaved
    <3>7. EndsIn(calls', p) => EndsIn(calls, p) BY <3>1, <3>2 DEF EndsIn
    <3>8. ContextNoted(printer'[p], fresh, contextCache'[p], calls', p, j)
      BY <1>1, <1>3, <2>6, <2>11, <2>12, <3>5, <3>7 DEF ContextNoted
    <3>9. QED BY <3>6, <3>8
  <2>15. QED BY <2>13, <2>14
<1>4. QED BY <1>2, <1>3 DEF NoteStep

\* A job is not concerned by a command that is done.
LEMMA CommandElsewhere ==
  ASSUME NotesKept, mode.db = "mongo", NEW p \in mode.printers, NEW j \in 1..mode.jobs,
         printer' = printer, past' = past, contextCache'[p] = contextCache[p],
         EndsIn(calls', p) => EndsIn(calls, p), StoreKept(p, j)
  PROVE  KeptNext(p, j)
<1>1. SUFFICES ASSUME Clean(past[p][j])
               PROVE  /\ NotesSaved(past[p][j], calls', rows', p, j)
                      /\ ContextNoted(printer[p], past[p][j], contextCache[p], calls', p, j)
  BY DEF KeptNext
<1>2. /\ NotesSaved(past[p][j], calls, rows, p, j)
      /\ ContextNoted(printer[p], past[p][j], contextCache[p], calls, p, j)
  BY <1>1 DEF NotesKept
<1>3. NotesSaved(past[p][j], calls', rows', p, j) BY <1>2, NotesStay
<1>4. ContextNoted(printer[p], past[p][j], contextCache[p], calls', p, j)
  BY <1>2 DEF ContextNoted
<1>5. QED BY <1>3, <1>4

\* A completion is inserted: the row of a start has no notes, as nothing was noted before.
LEMMA NotesAtInsertion ==
  ASSUME Shaped, Filed, NotesKept, mode.db = "mongo", NEW call \in calls, Inserted(call),
         NEW p \in mode.printers, NEW j \in 1..mode.jobs
  PROVE  KeptNext(p, j)
<1>1. /\ call.at = "create" /\ calls' = calls \ {call} /\ rows' = Append(rows, call.row)
      /\ printer' = printer /\ past' = past /\ mode' = mode
      /\ contextCache' = IF call.row.status \in Ends
                         THEN [contextCache EXCEPT ![call.printerId] = EmptyContext] ELSE contextCache
  BY DEF Inserted
<1>2. /\ mode \in Instances /\ rows \in Seq(Rows(mode)) /\ DOMAIN contextCache = mode.printers
      /\ CallOK(mode, call)
  BY DEF Shaped
<1>3. /\ call.row \in Rows(mode) /\ call.printerId \in mode.printers /\ call.job \in 1..mode.jobs
  BY <1>1, <1>2, CallFacts
<1>4. /\ DOMAIN rows \subseteq DOMAIN rows' /\ \A n \in DOMAIN rows : rows'[n] = rows[n]
      /\ Len(rows) + 1 \in DOMAIN rows' /\ rows'[Len(rows) + 1] = call.row
  BY <1>1, <1>2, <1>3
<1>5. UpdatingIn(calls', p, j) = UpdatingIn(calls, p, j) BY <1>1 DEF UpdatingIn
<1>6. EndsIn(calls', p) => EndsIn(calls, p) BY <1>1 DEF EndsIn
<1>7. \A n \in StartedIn(rows, <<p, j>>) :
        n \in StartedIn(rows', <<p, j>>) /\ rows'[n].context = rows[n].context
  BY <1>4 DEF StartedIn
<1>8. SUFFICES ASSUME Clean(past[p][j])
               PROVE  /\ NotesSaved(past[p][j], calls', rows', p, j)
                      /\ ContextNoted(printer[p], past[p][j], contextCache'[p], calls', p, j)
  BY <1>1 DEF KeptNext
<1>9. /\ NotesSaved(past[p][j], calls, rows, p, j)
      /\ ContextNoted(printer[p], past[p][j], contextCache[p], calls, p, j)
  BY <1>8 DEF NotesKept
<1>10. NotesSaved(past[p][j], calls', rows', p, j)
  <2>1. CASE call.row.status = "PrintStarted" /\ call.printerId = p /\ call.job = j
    <3>1. StartingIn(calls, p, j) BY <1>1, <2>1 DEF StartingIn
    <3>2. past[p][j].heard \cap Notes = {} BY <1>9, <3>1 DEF NotesSaved
    <3>3. call.row.context = StartedContext(p, j) BY <1>1, <2>1 DEF Filed, CallFiled
    <3>4. call.row.context.id = <<p, j>> /\ call.row.context.notes = {}
      BY <3>3 DEF StartedContext
    <3>5. Len(rows) + 1 \in StartedIn(rows', <<p, j>>) BY <1>4, <2>1, <3>4 DEF StartedIn
    <3>6. Noted(past[p][j], rows'[Len(rows) + 1].context) BY <1>4, <3>2, <3>4 DEF Noted
    <3>7. QED BY <1>5, <1>9, <3>2, <3>5, <3>6 DEF NotesSaved
  <2>2. CASE ~(call.row.status = "PrintStarted" /\ call.printerId = p /\ call.job = j)
    <3>1. StartingIn(calls', p, j) <=> StartingIn(calls, p, j) BY <1>1, <2>2 DEF StartingIn
    <3>2. StoreKept(p, j) BY <1>5, <1>7, <3>1 DEF StoreKept
    <3>3. QED BY <1>9, <3>2, NotesStay
  <2>3. QED BY <2>1, <2>2
<1>11. ContextNoted(printer[p], past[p][j], contextCache'[p], calls', p, j)
  <2>1. CASE call.row.status \in Ends /\ p = call.printerId
    <3>1. contextCache'[p] = EmptyContext /\ EmptyContext.id = None
      BY <1>1, <1>2, <2>1 DEF EmptyContext
    <3>2. EndsIn(calls, p) BY <1>1, <2>1 DEF EndsIn
    <3>3. <<p, j>> # None BY <1>2, FreshContexts
    <3>4. QED BY <1>9, <3>1, <3>2, <3>3 DEF ContextNoted
  <2>2. CASE ~(call.row.status \in Ends /\ p = call.printerId)
    <3>1. contextCache'[p] = contextCache[p] BY <1>1, <1>2, <2>2
    <3>2. QED BY <1>6, <1>9, <3>1 DEF ContextNoted
  <2>3. QED BY <2>1, <2>2
<1>12. QED BY <1>10, <1>11

\* A row is searched: that of a clean job is found, if its notes had to be stored.
LEMMA NotesAtFind ==
  ASSUME Shaped, NotesKept, mode.db = "mongo", NEW call \in calls, Found(call),
         NEW p \in mode.printers, NEW j \in 1..mode.jobs
  PROVE  KeptNext(p, j)
<1> DEFINE saving == [call EXCEPT !.at = "save"]
<1>1. /\ call.at = "find" /\ rows' = rows /\ printer' = printer /\ past' = past
      /\ contextCache' = contextCache
      /\ calls' = (calls \ {call}) \cup IF Started(call.context.id) = {} THEN {} ELSE {saving}
  BY DEF Found
<1>2. mode \in Instances /\ CallOK(mode, call) BY DEF Shaped
<1>3. /\ saving.at = "save" /\ saving.printerId = call.printerId /\ saving.job = call.job
      /\ saving.context = call.context
  BY <1>1, <1>2, CallFacts, SavingFields
<1> HIDE DEF saving
<1>4. EndsIn(calls', p) => EndsIn(calls, p) BY <1>1, <1>3 DEF EndsIn
<1>5. StartingIn(calls', p, j) <=> StartingIn(calls, p, j) BY <1>1, <1>3 DEF StartingIn
<1>6. CASE call.printerId # p \/ call.job # j
  <2>1. UpdatingIn(calls', p, j) = UpdatingIn(calls, p, j)
    BY <1>1, <1>3, <1>6 DEF UpdatingIn
  <2>2. StoreKept(p, j) BY <1>1, <1>5, <2>1 DEF StoreKept
  <2>3. QED BY <1>1, <1>4, <2>2, CommandElsewhere
<1>7. CASE call.printerId = p /\ call.job = j
  <2>1. SUFFICES ASSUME Clean(past[p][j])
                 PROVE  /\ NotesSaved(past[p][j], calls', rows', p, j)
                        /\ ContextNoted(printer[p], past[p][j], contextCache[p], calls', p, j)
    BY <1>1 DEF KeptNext
  <2>2. /\ NotesSaved(past[p][j], calls, rows, p, j)
        /\ ContextNoted(printer[p], past[p][j], contextCache[p], calls, p, j)
    BY <2>1 DEF NotesKept
  <2>3. call \in UpdatingIn(calls, p, j) BY <1>1, <1>7 DEF UpdatingIn
  <2>4. /\ call.context.id = <<p, j>> /\ Noted(past[p][j], call.context)
        /\ \A d \in UpdatingIn(calls, p, j) : d = call
    BY <2>2, <2>3 DEF NotesSaved
  <2>5. UpdatingIn(calls', p, j) \subseteq {saving} BY <1>1, <2>4 DEF UpdatingIn
  <2>6. \A c \in UpdatingIn(calls', p, j) :
          /\ c.context.id = <<p, j>> /\ Noted(past[p][j], c.context)
          /\ \A d \in UpdatingIn(calls', p, j) : d = c
    BY <1>3, <2>4, <2>5
  <2>7. StartingIn(calls', p, j) \/ \E n \in StartedIn(rows', <<p, j>>) : UpdatingIn(calls', p, j) # {}
    <3>1. CASE StartingIn(calls, p, j) BY <1>5, <3>1
    <3>2. CASE ~StartingIn(calls, p, j)
      <4>1. PICK n : n \in StartedIn(rows, <<p, j>>) BY <2>2, <3>2 DEF NotesSaved
      <4>2. n \in Started(call.context.id) BY <2>4, <4>1 DEF StartedIn, Started
      <4>3. saving \in calls' BY <1>1, <4>2
      <4>4. saving \in UpdatingIn(calls', p, j) BY <1>3, <1>7, <4>3 DEF UpdatingIn
      <4>5. QED BY <1>1, <4>1, <4>4
    <3>3. QED BY <3>1, <3>2
  <2>8. NotesSaved(past[p][j], calls', rows', p, j)
    BY <1>5, <2>2, <2>6, <2>7, Zenon DEF NotesSaved
  <2>9. ContextNoted(printer[p], past[p][j], contextCache[p], calls', p, j)
    BY <1>4, <2>2 DEF ContextNoted
  <2>10. QED BY <2>8, <2>9
<1>8. QED BY <1>6, <1>7

\* A context is saved: that of the only update of a clean job.
LEMMA NotesAtSave ==
  ASSUME Shaped, Filed, NotesKept, mode.db = "mongo", NEW call \in calls, Saved(call),
         NEW p \in mode.printers, NEW j \in 1..mode.jobs
  PROVE  KeptNext(p, j)
<1>1. /\ call.at = "save" /\ calls' = calls \ {call} /\ rows' = Updated(call.context.id, call.context)
      /\ printer' = printer /\ past' = past /\ contextCache' = contextCache
  BY DEF Saved
<1>2. mode \in Instances /\ CallOK(mode, call) /\ rows \in Seq(Rows(mode)) BY DEF Shaped
<1>3. call.context \in Contexts(mode) BY <1>1, <1>2, CallFacts DEF UpdateOK
<1>4. /\ DOMAIN rows' = DOMAIN rows
      /\ \A n \in DOMAIN rows :
           /\ n \notin Started(call.context.id) => rows'[n] = rows[n]
           /\ rows'[n].status = rows[n].status
           /\ n \in Started(call.context.id) => rows'[n].context = call.context
  BY <1>1, <1>2, <1>3, UpdatedRows
<1>5. PICK k \in 1..mode.jobs :
        /\ call.context.id = <<call.printerId, k>>
        /\ k # call.job => past[call.printerId][k].spoilt
  BY <1>1 DEF Filed, CallFiled
<1>6. EndsIn(calls', p) => EndsIn(calls, p) BY <1>1 DEF EndsIn
<1>7. StartingIn(calls', p, j) <=> StartingIn(calls, p, j) BY <1>1 DEF StartingIn
<1>8. SUFFICES ASSUME Clean(past[p][j])
               PROVE  KeptNext(p, j)
  BY <1>1 DEF KeptNext
<1>9. /\ NotesSaved(past[p][j], calls, rows, p, j)
      /\ ContextNoted(printer[p], past[p][j], contextCache[p], calls, p, j)
  BY <1>8 DEF NotesKept
<1>10. CASE call.printerId = p /\ k = j
  <2>1. call.job = j BY <1>5, <1>8, <1>10, Zenon DEF Clean
  <2>2. call \in UpdatingIn(calls, p, j) BY <1>1, <1>10, <2>1 DEF UpdatingIn
  <2>3. Noted(past[p][j], call.context) /\ \A d \in UpdatingIn(calls, p, j) : d = call
    BY <1>9, <2>2 DEF NotesSaved
  <2>4. UpdatingIn(calls', p, j) = {} BY <1>1, <2>3 DEF UpdatingIn
  <2>5. call.context.id = <<p, j>> BY <1>5, <1>10
  <2>6. \A n \in StartedIn(rows, <<p, j>>) :
          n \in StartedIn(rows', <<p, j>>) /\ rows'[n].context = call.context
    BY <1>4, <2>5 DEF StartedIn, Started
  <2>7. StartingIn(calls', p, j) \/ \E n \in StartedIn(rows', <<p, j>>) : Noted(past[p][j], rows'[n].context)
    BY <1>7, <1>9, <2>3, <2>6 DEF NotesSaved
  <2>8. NotesSaved(past[p][j], calls', rows', p, j) BY <1>7, <1>9, <2>4, <2>7 DEF NotesSaved
  <2>9. ContextNoted(printer[p], past[p][j], contextCache[p], calls', p, j)
    BY <1>6, <1>9 DEF ContextNoted
  <2>10. QED BY <1>1, <2>8, <2>9 DEF KeptNext
<1>11. CASE call.printerId # p \/ k # j
  <2>1. call.context.id # <<p, j>> BY <1>5, <1>11
  <2>2. \A n \in StartedIn(rows, <<p, j>>) :
          n \in StartedIn(rows', <<p, j>>) /\ rows'[n].context = rows[n].context
    BY <1>4, <2>1 DEF StartedIn, Started
  <2>3. call \notin UpdatingIn(calls, p, j) BY <1>9, <2>1 DEF NotesSaved
  <2>4. UpdatingIn(calls', p, j) = UpdatingIn(calls, p, j) BY <1>1, <2>3 DEF UpdatingIn
  <2>5. StoreKept(p, j) BY <1>7, <2>2, <2>4 DEF StoreKept
  <2>6. QED BY <1>1, <1>6, <2>5, CommandElsewhere
<1>12. QED BY <1>10, <1>11

\* A command fails: its job is spoilt, the others are not concerned.
LEMMA NotesAtFailure ==
  ASSUME NotesKept, mode.db = "mongo", NEW call, FailStep(call),
         NEW p \in mode.printers, NEW j \in 1..mode.jobs
  PROVE  KeptNext(p, j)
<1>1. /\ printer' = printer /\ contextCache' = contextCache /\ rows' = rows /\ calls' = calls \ {call}
      /\ SameJob(p, j)
      /\ past'[p][j].spoilt <=> past[p][j].spoilt \/ (p = call.printerId /\ j = call.job)
  BY Zenon DEF FailStep
<1>2. SUFFICES ASSUME Clean(past'[p][j])
               PROVE  /\ NotesSaved(past'[p][j], calls', rows', p, j)
                      /\ ContextNoted(printer[p], past'[p][j], contextCache[p], calls', p, j)
  BY <1>1 DEF KeptNext
<1>3. past'[p][j].heard = past[p][j].heard /\ past'[p][j].notes = past[p][j].notes
  BY <1>1 DEF SameJob
<1>4. ~(p = call.printerId /\ j = call.job) /\ ~past[p][j].spoilt
  BY <1>1, <1>2, Zenon DEF Clean
<1>5. Clean(past[p][j]) BY <1>2, <1>3, <1>4 DEF Clean
<1>6. /\ NotesSaved(past[p][j], calls, rows, p, j)
      /\ ContextNoted(printer[p], past[p][j], contextCache[p], calls, p, j)
  BY <1>5 DEF NotesKept
<1>7. EndsIn(calls', p) => EndsIn(calls, p) BY <1>1 DEF EndsIn
<1>8. StoreKept(p, j)
  <2>1. StartingIn(calls', p, j) <=> StartingIn(calls, p, j) BY <1>1, <1>4 DEF StartingIn
  <2>2. UpdatingIn(calls', p, j) = UpdatingIn(calls, p, j) BY <1>1, <1>4 DEF UpdatingIn
  <2>3. QED BY <1>1, <2>1, <2>2 DEF StoreKept
<1>9. NotesSaved(past'[p][j], calls', rows', p, j) BY <1>3, <1>6, <1>8, NotesStay
<1>10. ContextNoted(printer[p], past'[p][j], contextCache[p], calls', p, j)
  BY <1>3, <1>6, <1>7 DEF ContextNoted, Noted
<1>11. QED BY <1>9, <1>10

\* The server restarts: the jobs that print, or that commands are about, are spoilt.
LEMMA NotesAtRestart ==
  ASSUME NotesKept, mode.db = "mongo", RestartStep,
         NEW p \in mode.printers, NEW j \in 1..mode.jobs
  PROVE  KeptNext(p, j)
<1>1. printer' = printer /\ contextCache'[p] = None /\ rows' = rows /\ calls' = {}
  BY DEF RestartStep
<1>2. /\ SameJob(p, j)
      /\ past'[p][j].spoilt <=> \/ past[p][j].spoilt
                                \/ printer[p].printing /\ printer[p].job = j
                                \/ \E call \in calls : call.printerId = p /\ call.job = j
  BY DEF RestartStep
<1>3. SUFFICES ASSUME Clean(past'[p][j])
               PROVE  /\ NotesSaved(past'[p][j], calls', rows', p, j)
                      /\ ContextNoted(printer'[p], past'[p][j], contextCache'[p], calls', p, j)
  BY DEF KeptNext
<1>4. past'[p][j].heard = past[p][j].heard /\ past'[p][j].notes = past[p][j].notes
  BY <1>2 DEF SameJob
<1>5. /\ ~past[p][j].spoilt /\ ~(printer[p].printing /\ printer[p].job = j)
      /\ ~\E call \in calls : call.printerId = p /\ call.job = j
  BY <1>2, <1>3, Zenon DEF Clean
<1>6. Clean(past[p][j]) BY <1>3, <1>4, <1>5 DEF Clean
<1>7. NotesSaved(past[p][j], calls, rows, p, j) BY <1>6 DEF NotesKept
<1>8. StoreKept(p, j)
  <2>1. ~StartingIn(calls, p, j) /\ ~StartingIn(calls', p, j) BY <1>1, <1>5 DEF StartingIn
  <2>2. UpdatingIn(calls, p, j) = {} /\ UpdatingIn(calls', p, j) = {}
    BY <1>1, <1>5 DEF UpdatingIn
  <2>3. QED BY <1>1, <2>1, <2>2 DEF StoreKept
<1>9. NotesSaved(past'[p][j], calls', rows', p, j) BY <1>4, <1>7, <1>8, NotesStay
<1>10. ContextNoted(printer'[p], past'[p][j], contextCache'[p], calls', p, j)
  BY <1>1, <1>5, Zenon DEF ContextNoted
<1>11. QED BY <1>9, <1>10

LEMMA NotesInit == Init => NotesKept
<1> SUFFICES ASSUME Init PROVE NotesKept OBVIOUS
<1>1. \A p \in mode.printers, j \in 1..mode.jobs : past[p][j] = Unheard BY DEF Init
<1>2. ~Clean(Unheard) BY DEF Clean, Unheard
<1>3. QED BY <1>1, <1>2 DEF NotesKept

\* Of the commands of an event of job j of printer p: with MongoDB they are only added.
EventStores(p, j) ==
  /\ rows' = rows /\ calls \subseteq calls'
  /\ \A c \in calls' : c \in calls \/ (c.printerId = p /\ c.job = j)

LEMMA EventCommands ==
  ASSUME mode.db = "mongo", NEW p, NEW j,
         StartStep(p, j) \/ (\E s \in Ends : EndStep(p, j, s)) \/ \E note \in Notes : NoteStep(p, j, note)
  PROVE  EventStores(p, j)
<1>1. ASSUME NEW s, NEW context, Creates(Row(p, j, s, context))
      PROVE  EventStores(p, j)
  <2>1. Create(Row(p, j, s, context)).printerId = p /\ Create(Row(p, j, s, context)).job = j
    BY DEF Create, Row
  <2>2. QED BY <1>1, <2>1 DEF Creates, EventStores
<1>2. ASSUME NEW context, UpdateContext(p, j, context)
      PROVE  EventStores(p, j)
  BY <1>2 DEF UpdateContext, EventStores
<1>3. Unchanged(p) => EventStores(p, j) BY DEF Unchanged, EventStores
<1>4. QED BY <1>1, <1>2, <1>3 DEF StartStep, EndStep, NoteStep

LEMMA NotesNext == Invariant /\ NotesKept /\ [Next]_vars => NotesKept'
<1> SUFFICES ASSUME Invariant, NotesKept, [Next]_vars PROVE NotesKept' OBVIOUS
<1>1. Shaped /\ Begun /\ Filed /\ ContextsKept /\ Grows /\ mode' = mode
  BY PastGrows DEF Invariant, Grows
<1>2. SUFFICES ASSUME mode.db = "mongo", NEW p \in mode.printers, NEW j \in 1..mode.jobs
               PROVE  KeptNext(p, j)
  BY <1>1 DEF NotesKept, KeptNext
<1>3. ASSUME NEW q \in mode.printers, NEW k \in 1..mode.jobs, Others(q), EventStores(q, k),
             printer'[q].job = k,
             \A i \in 1..mode.jobs \ {k} :
               /\ past'[q][i].heard = past[q][i].heard /\ past'[q][i].notes = past[q][i].notes
               /\ past[q][i].spoilt => past'[q][i].spoilt,
             p # q \/ j # k
      PROVE  KeptNext(p, j)
  BY <1>2, <1>3, EventElsewhere DEF EventStores
<1>4. ASSUME NEW q \in mode.printers, Start(q)
      PROVE  KeptNext(p, j)
  <2> DEFINE k == printer[q].job + 1
  <2>1. StartStep(q, k) BY <1>1, <1>4, Starts
  <2>2. KeptNext(q, k) BY <1>1, <1>2, <2>1, NotesAtStart
  <2>3. Others(q) /\ EventStores(q, k) /\ printer'[q].job = k /\ k \in 1..mode.jobs
    BY <1>2, <2>1, EventCommands DEF StartStep
  <2>4. \A i \in 1..mode.jobs \ {k} :
          /\ past'[q][i].heard = past[q][i].heard /\ past'[q][i].notes = past[q][i].notes
          /\ past[q][i].spoilt => past'[q][i].spoilt
    BY <2>1 DEF StartStep
  <2> HIDE DEF k
  <2>5. QED BY <1>3, <2>2, <2>3, <2>4
<1>5. ASSUME NEW q \in mode.printers, NEW status \in Ends, End(q, status)
      PROVE  KeptNext(p, j)
  <2> DEFINE k == printer[q].job
  <2>1. EndStep(q, k, status) BY <1>1, <1>5, Finishes
  <2>2. KeptNext(q, k) BY <1>1, <1>2, <2>1, NotesAtEnd
  <2>3. Others(q) /\ EventStores(q, k) /\ printer'[q].job = k /\ k \in 1..mode.jobs
    BY <1>2, <2>1, EventCommands DEF EndStep
  <2>4. \A i \in 1..mode.jobs \ {k} :
          /\ past'[q][i].heard = past[q][i].heard /\ past'[q][i].notes = past[q][i].notes
          /\ past[q][i].spoilt => past'[q][i].spoilt
    BY <2>1, Zenon DEF EndStep, Passed
  <2> HIDE DEF k
  <2>5. QED BY <1>3, <2>2, <2>3, <2>4
<1>6. ASSUME NEW q \in mode.printers, NEW note \in Notes, Note(q, note)
      PROVE  KeptNext(p, j)
  <2> DEFINE k == printer[q].job
  <2>1. NoteStep(q, k, note) BY <1>1, <1>6, Notices
  <2>2. KeptNext(q, k) BY <1>1, <1>2, <2>1, NotesAtNote
  <2>3. Others(q) /\ EventStores(q, k) /\ printer'[q].job = k /\ k \in 1..mode.jobs
    BY <1>2, <2>1, EventCommands DEF NoteStep
  <2>4. \A i \in 1..mode.jobs \ {k} :
          /\ past'[q][i].heard = past[q][i].heard /\ past'[q][i].notes = past[q][i].notes
          /\ past[q][i].spoilt => past'[q][i].spoilt
    BY <2>1, Zenon DEF NoteStep, Passed
  <2> HIDE DEF k
  <2>5. QED BY <1>3, <2>2, <2>3, <2>4
<1>7. ASSUME NEW call \in calls, Inserted(call) \/ Found(call) \/ Saved(call)
      PROVE  KeptNext(p, j)
  BY <1>1, <1>2, <1>7, NotesAtInsertion, NotesAtFind, NotesAtSave
<1>8. ASSUME NEW call \in calls, Failed(call)
      PROVE  KeptNext(p, j)
  BY <1>1, <1>2, <1>8, Fails, NotesAtFailure
<1>9. CASE Restart BY <1>1, <1>2, <1>9, Restarts, NotesAtRestart
<1>10. CASE UNCHANGED <<printer, contextCache, rows, calls, past>>
  <2>1. StoreKept(p, j) BY <1>10 DEF StoreKept
  <2>2. QED BY <1>2, <1>10, <2>1, CommandElsewhere
<1>11. QED BY <1>4, <1>5, <1>6, <1>7, <1>8, <1>9, <1>10 DEF Next, Current, Listen, vars

\* With MongoDB, when its commands are done, the row of a job that was heard from its start and
\* is not spoilt has every note handled while it lasted, and none of another job
\* (handleMessage with create and updateContext of print-completion.service.ts).
THEOREM NotesAreStored == Spec => []NotesStored
<1>1. Init => Invariant /\ NotesKept
  BY ShapedInit, BegunInit, FiledInit, NotesInit DEF Invariant
<1>2. Invariant /\ NotesKept /\ [Next]_vars => Invariant' /\ NotesKept'
  BY ShapedNext, BegunNext, FiledNext, ContextsNext, NotesNext DEF Invariant
<1>3. NotesKept => NotesStored
  <2> SUFFICES ASSUME NotesKept, mode.db = "mongo", NEW p \in mode.printers, NEW j \in 1..mode.jobs,
                      "start" \in past[p][j].heard, ~past[p][j].spoilt,
                      \A call \in calls : call.printerId = p => call.job # j
               PROVE  \E i \in Started(<<p, j>>) :
                        /\ past[p][j].heard \cap Notes \subseteq rows[i].context.notes
                        /\ rows[i].context.notes \subseteq past[p][j].notes
    BY DEF NotesStored
  <2>1. NotesSaved(past[p][j], calls, rows, p, j) BY DEF NotesKept, Clean
  <2>2. ~StartingIn(calls, p, j) /\ UpdatingIn(calls, p, j) = {}
    BY DEF StartingIn, UpdatingIn
  <2>3. PICK i \in StartedIn(rows, <<p, j>>) : Noted(past[p][j], rows[i].context)
    BY <2>1, <2>2 DEF NotesSaved
  <2>4. QED BY <2>3 DEF StartedIn, Started, Noted
<1>4. QED BY <1>1, <1>2, <1>3, PTL DEF Spec

(***************************************************************************)
(* Statistics                                                              *)
(***************************************************************************)
\* The stored completions of job j of printer p with one of the statuses, and the commands for
\* such.
RowsOf(rs, p, j, statuses) ==
  {n \in DOMAIN rs : rs[n].printerId = p /\ rs[n].job = j /\ rs[n].status \in statuses}

CallsOf(cs, p, j, statuses) ==
  {c \in cs : c.printerId = p /\ c.job = j /\ c.at = "create" /\ c.row.status \in statuses}

\* A completion is of an event that was heard; that of an end says how the job ended, and that
\* of a job that was heard from its start on and is not spoilt has a token.
RowCounted(pa, r) ==
  LET job == pa[r.printerId][r.job]
  IN  /\ r.status = "PrintStarted" => "start" \in job.heard
      /\ r.status \in Ends => "end" \in job.heard /\ job.status = r.status
      /\ Clean(job) => CorrelationId(r) # None

\* An end is stored at most once, or is about to be; of a job that was heard from its start on
\* and is not spoilt, the start, and the end when it ended, are stored or about to be.
StoredOnce(cs, rs, p, j) ==
  /\ \A m, n \in RowsOf(rs, p, j, Ends) : m = n
  /\ \A c, d \in CallsOf(cs, p, j, Ends) : c = d
  /\ RowsOf(rs, p, j, Ends) = {} \/ CallsOf(cs, p, j, Ends) = {}

Recording(cs, rs, p, j, statuses) == RowsOf(rs, p, j, statuses) # {} \/ CallsOf(cs, p, j, statuses) # {}

JobCounted(job, cs, rs, p, j) ==
  /\ StoredOnce(cs, rs, p, j)
  /\ Clean(job) => /\ Recording(cs, rs, p, j, {"PrintStarted"})
                   /\ job.status \in Ends => Recording(cs, rs, p, j, Ends)

\* A job that has begun is spoilt or was heard from its start on; none that prints has ended,
\* and the context is that of the job that prints.
PrinterCounted(pr, job, context, cs, p, j) ==
  /\ job.status \in {None} \cup Ends
  /\ j <= pr.job /\ ~job.spoilt => "start" \in job.heard
  /\ j > pr.job \/ (j = pr.job /\ pr.printing) => job.status = None
  /\ j = pr.job /\ pr.printing /\ Clean(job) =>
       context # None /\ context.id = <<p, j>> /\ ~EndsIn(cs, p)

Counted ==
  /\ \A n \in DOMAIN rows : RowCounted(past, rows[n])
  /\ \A c \in calls : c.at = "create" => RowCounted(past, c.row)
  /\ \A p \in mode.printers, j \in 1..mode.jobs :
       /\ JobCounted(past[p][j], calls, rows, p, j)
       /\ PrinterCounted(printer[p], past[p][j], contextCache[p], calls, p, j)

\* fresh is another record of a job, with the same status.
StatusAs(fresh, job) == fresh.status = job.status /\ "status" \in DOMAIN fresh

\* How a job ended is kept when something else is recorded of it.
LEMMA RecordedStatus ==
  ASSUME NEW p \in mode.printers, NEW j, NEW e, NEW heard, NEW spoils, NEW k \in 1..mode.jobs,
         PastOK(past[p][k])
  PROVE  StatusAs(Recorded(p, j, e, heard, spoils)[k], past[p][k])
<1> DEFINE old == past[p][k]
           hit == old.spoilt \/ \E call \in Creating(p, Ends) : call.job = k
           events == IF heard THEN old.heard \cup {e} ELSE old.heard
           spoilt == old.spoilt \/ ~heard \/ spoils
<1>1. Recorded(p, j, e, heard, spoils)[k] =
        IF k # j THEN [old EXCEPT !.spoilt = hit] ELSE [old EXCEPT !.heard = events, !.spoilt = spoilt]
  BY DEF Recorded
<1> HIDE DEF hit, events, spoilt
<1>2. PastOK(old) OBVIOUS
<1> DEFINE fresh == Recorded(p, j, e, heard, spoils)[k]
<1> HIDE DEF old, fresh
<1>3. StatusAs(fresh, old)
  <2>1. fresh = IF k # j THEN [old EXCEPT !.spoilt = hit] ELSE [old EXCEPT !.heard = events, !.spoilt = spoilt]
    BY <1>1 DEF old, fresh
  <2>2. QED BY <1>2, <2>1 DEF PastOK, StatusAs
<1>4. QED BY <1>3 DEF old, fresh

\* The statuses of the jobs stay, but for those of job j of printer p, which is its status.
Ended(p, j, status) ==
  /\ past'[p][j].status = status
  /\ \A q \in mode.printers, k \in 1..mode.jobs :
       q # p \/ k # j => past'[q][k].status = past[q][k].status

StatusesStay ==
  \A q \in mode.printers, k \in 1..mode.jobs : past'[q][k].status = past[q][k].status

\* A print ends, and it is known how.
LEMMA StatusAtEnd ==
  ASSUME Shaped, NEW p \in mode.printers, NEW status \in Ends, End(p, status)
  PROVE  Ended(p, printer[p].job, status)
<1> DEFINE j == printer[p].job
<1>1. j \in 1..mode.jobs BY Finishes DEF EndStep
<1>2. PICK heard \in BOOLEAN :
        past' = [past EXCEPT ![p] = [Recorded(p, j, "end", heard, FALSE) EXCEPT ![j].status = status]]
  BY DEF End
<1>3. DOMAIN past = mode.printers /\ \A k \in 1..mode.jobs : PastOK(past[p][k])
  BY DEF Shaped
<1> DEFINE told == Recorded(p, j, "end", heard, FALSE)
<1>4. DOMAIN told = 1..mode.jobs BY DEF Recorded
<1>5. \A k \in 1..mode.jobs : StatusAs(told[k], past[p][k]) BY <1>3, RecordedStatus, Zenon
<1> HIDE DEF told
<1>6. past'[p] = [told EXCEPT ![j].status = status] /\ \A q \in mode.printers \ {p} : past'[q] = past[q]
  BY <1>2, <1>3 DEF told
<1>7. past'[p][j].status = status
  <2>1. past'[p][j] = [told[j] EXCEPT !.status = status] BY <1>1, <1>4, <1>6
  <2>2. "status" \in DOMAIN told[j] BY <1>1, <1>5 DEF StatusAs
  <2>3. QED BY <2>1, <2>2
<1>8. \A k \in 1..mode.jobs \ {j} : past'[p][k] = told[k] BY <1>4, <1>6
<1>9. QED
  <2>1. \A k \in 1..mode.jobs \ {j} : past'[p][k].status = past[p][k].status
    BY <1>5, <1>8 DEF StatusAs
  <2>2. QED BY <1>6, <1>7, <2>1 DEF Ended

\* Of a job that is marked as spoilt.
LEMMA SpoiltStatus ==
  ASSUME NEW job, PastOK(job), NEW spoilt
  PROVE  [job EXCEPT !.spoilt = spoilt].status = job.status
  BY DEF PastOK

\* No other step says how a print ended.
LEMMA StatusElsewhere ==
  ASSUME Shaped, [Next]_vars, \A p \in mode.printers, status \in Ends : ~End(p, status)
  PROVE  StatusesStay
<1>1. /\ DOMAIN past = mode.printers
      /\ \A q \in mode.printers : DOMAIN past[q] = 1..mode.jobs
      /\ \A q \in mode.printers, k \in 1..mode.jobs : PastOK(past[q][k])
  BY DEF Shaped
<1>2. ASSUME NEW p \in mode.printers, Start(p)
      PROVE  StatusesStay
  <2> DEFINE j == printer[p].job + 1
  <2>1. PICK heard \in BOOLEAN :
          past' = [past EXCEPT ![p][j] = Recorded(p, j, "start", heard, SpoilsStart(p))[j]]
    BY <1>2 DEF Start
  <2>2. j \in 1..mode.jobs BY <1>2 DEF Start
  <2> DEFINE fresh == Recorded(p, j, "start", heard, SpoilsStart(p))[j]
  <2>3. fresh.status = past[p][j].status BY <1>1, <2>2, RecordedStatus DEF StatusAs
  <2>4. past' = [past EXCEPT ![p][j] = fresh] BY <2>1
  <2> HIDE DEF fresh, j
  <2>5. QED BY <1>1, <2>2, <2>3, <2>4 DEF StatusesStay
<1>3. ASSUME NEW p \in mode.printers, NEW note \in Notes, Note(p, note)
      PROVE  StatusesStay
  <2> DEFINE j == printer[p].job
             e == IF printer[p].printing THEN note ELSE "later"
  <2>1. PICK heard \in BOOLEAN :
          past' = [past EXCEPT ![p] =
            [Recorded(p, j, e, heard, SpoilsNote(p, j)) EXCEPT ![j].notes = @ \cup {note}]]
    BY <1>3 DEF Note
  <2> DEFINE told == Recorded(p, j, e, heard, SpoilsNote(p, j))
  <2>2. DOMAIN told = 1..mode.jobs BY DEF Recorded
  <2>3. \A k \in 1..mode.jobs : StatusAs(told[k], past[p][k])
    <3> HIDE DEF e
    <3>1. QED BY <1>1, RecordedStatus, Zenon
  <2> HIDE DEF told
  <2>4. past'[p] = [told EXCEPT ![j].notes = @ \cup {note}] /\ \A q \in mode.printers \ {p} : past'[q] = past[q]
    BY <1>1, <2>1 DEF told
  <2>5. ASSUME NEW k \in 1..mode.jobs
        PROVE  past'[p][k].status = told[k].status
    <3>1. CASE k = j
      <4>1. past'[p][k] = [told[k] EXCEPT !.notes = @ \cup {note}] BY <2>2, <2>4, <3>1
      <4>2. QED BY <4>1
    <3>2. CASE k # j BY <2>2, <2>4, <3>2
    <3>3. QED BY <3>1, <3>2
  <2>6. QED BY <2>3, <2>4, <2>5 DEF StatusesStay, StatusAs
<1>4. ASSUME NEW call \in calls, Failed(call)
      PROVE  StatusesStay
  <2>1. past' = [past EXCEPT ![call.printerId][call.job].spoilt = TRUE] BY <1>4 DEF Failed
  <2>2. call.printerId \in mode.printers /\ call.job \in 1..mode.jobs
    BY CallFacts DEF Shaped
  <2>3. ASSUME NEW q \in mode.printers, NEW k \in 1..mode.jobs
        PROVE  past'[q][k].status = past[q][k].status
    <3>1. CASE q = call.printerId /\ k = call.job
      <4>1. past'[q][k] = [past[q][k] EXCEPT !.spoilt = TRUE] BY <1>1, <2>1, <2>2, <3>1
      <4>2. QED BY <1>1, <4>1, SpoiltStatus
    <3>2. CASE ~(q = call.printerId /\ k = call.job) BY <1>1, <2>1, <2>2, <3>2
    <3>3. QED BY <3>1, <3>2
  <2>4. QED BY <2>3 DEF StatusesStay
<1>5. CASE Restart
  <2>1. ASSUME NEW q \in mode.printers, NEW k \in 1..mode.jobs
        PROVE  past'[q][k].status = past[q][k].status
    <3> DEFINE spoilt == past[q][k].spoilt \/ (printer[q].printing /\ printer[q].job = k)
                           \/ \E call \in calls : call.printerId = q /\ call.job = k
    <3>1. past'[q][k] = [past[q][k] EXCEPT !.spoilt = spoilt] BY <1>5, Zenon DEF Restart
    <3> HIDE DEF spoilt
    <3>2. QED BY <1>1, <3>1, SpoiltStatus
  <2>2. QED BY <2>1 DEF StatusesStay
<1>6. CASE past' = past BY <1>6 DEF StatusesStay
<1>7. QED
  BY <1>2, <1>3, <1>4, <1>5, <1>6 DEF Next, Current, Inserted, Found, Saved, Listen, vars

\* What was heard is never forgotten.
LEMMA HeardGrows ==
  ASSUME Shaped, [Next]_vars, NEW q \in mode.printers, NEW k \in 1..mode.jobs
  PROVE  past[q][k].heard \subseteq past'[q][k].heard
<1>1. ASSUME NEW p \in mode.printers, Start(p)
      PROVE  past[q][k].heard \subseteq past'[q][k].heard
  <2> DEFINE j == printer[p].job + 1
  <2>1. StartStep(p, j) BY <1>1, Starts
  <2> HIDE DEF j
  <2>2. /\ Others(p) /\ \A i \in 1..mode.jobs \ {j} : past'[p][i] = past[p][i]
        /\ past[p][j].heard \subseteq past'[p][j].heard
    BY <2>1 DEF StartStep, Handled, Lost
  <2>3. QED BY <2>2 DEF Others
<1>2. ASSUME NEW p \in mode.printers, NEW j, Others(p), \A i \in 1..mode.jobs \ {j} : Passed(p, i),
             (\E e, spoils : Handled(p, j, e, spoils)) \/ Lost(p, j)
      PROVE  past[q][k].heard \subseteq past'[q][k].heard
  <2>1. past[p][j].heard \subseteq past'[p][j].heard BY <1>2 DEF Handled, Lost
  <2>2. \A i \in 1..mode.jobs \ {j} : past'[p][i].heard = past[p][i].heard
    BY <1>2 DEF Passed
  <2>3. QED BY <1>2, <2>1, <2>2 DEF Others
<1>3. ASSUME NEW p \in mode.printers, NEW status \in Ends, End(p, status)
      PROVE  past[q][k].heard \subseteq past'[q][k].heard
  <2>1. EndStep(p, printer[p].job, status) BY <1>3, Finishes
  <2>2. QED BY <1>2, <2>1 DEF EndStep
<1>4. ASSUME NEW p \in mode.printers, NEW note \in Notes, Note(p, note)
      PROVE  past[q][k].heard \subseteq past'[q][k].heard
  <2>1. NoteStep(p, printer[p].job, note) BY <1>4, Notices
  <2>2. QED BY <1>2, <2>1 DEF NoteStep
<1>5. ASSUME NEW call \in calls, Failed(call)
      PROVE  past[q][k].heard \subseteq past'[q][k].heard
  BY <1>5, Fails DEF FailStep, SameJob
<1>6. CASE Restart BY <1>6, Restarts DEF RestartStep, SameJob
<1>7. CASE past' = past BY <1>7
<1>8. QED
  BY <1>1, <1>3, <1>4, <1>5, <1>6, <1>7 DEF Next, Current, Inserted, Found, Saved, Listen, vars

\* A job that was heard from its start on, and is not spoilt, was so before it began or has
\* just begun.
LEMMA CleanBefore ==
  ASSUME Shaped, Begun, [Next]_vars, NEW p \in mode.printers, NEW k \in 1..mode.jobs,
         Clean(past'[p][k]), printer'[p].job = printer[p].job \/ k <= printer[p].job
  PROVE  Clean(past[p][k])
<1>1. Grows /\ mode.jobs \in Nat /\ printer[p].job \in Nat BY PastGrows, JobsAreNumbers
<1>2. CASE k <= printer[p].job BY <1>1, <1>2 DEF Grows, Clean
<1>3. CASE k > printer[p].job
  <2>1. k > printer'[p].job BY <1>1, <1>3
  <2>2. NothingOf(past'[p][k]) BY <2>1, NothingOfJobsToCome
  <2>3. QED BY <2>2 DEF NothingOf, Clean
<1>4. QED BY <1>1, <1>2, <1>3

\* What a step keeps of a job that has begun.
JobKeeps(p, k) ==
  /\ past[p][k].heard \subseteq past'[p][k].heard
  /\ past[p][k].status \in Ends => past'[p][k].status = past[p][k].status
  /\ k <= printer[p].job /\ Clean(past'[p][k]) => Clean(past[p][k])

LEMMA JobsKept ==
  ASSUME Shaped, Begun, Counted, [Next]_vars, NEW q \in mode.printers, NEW k \in 1..mode.jobs
  PROVE  JobKeeps(q, k)
<1>1. past[q][k].heard \subseteq past'[q][k].heard BY HeardGrows
<1>2. k <= printer[q].job /\ Clean(past'[q][k]) => Clean(past[q][k]) BY CleanBefore
<1>3. ASSUME past[q][k].status \in Ends
      PROVE  past'[q][k].status = past[q][k].status
  <2>1. ASSUME NEW p \in mode.printers, NEW status \in Ends, End(p, status)
        PROVE  past'[q][k].status = past[q][k].status
    <3>1. Ended(p, printer[p].job, status) BY <2>1, StatusAtEnd
    <3>2. q = p => k # printer[p].job
      <4>1. printer[p].printing BY <2>1 DEF End
      <4>2. PrinterCounted(printer[q], past[q][k], contextCache[q], calls, q, k)
        BY DEF Counted
      <4>3. QED BY <1>3, <4>1, <4>2, NoneIsNoEnd DEF PrinterCounted
    <3>3. QED BY <3>1, <3>2 DEF Ended
  <2>2. CASE \A p \in mode.printers, status \in Ends : ~End(p, status)
    BY <2>2, StatusElsewhere DEF StatusesStay
  <2>3. QED BY <2>1, <2>2
<1>4. QED BY <1>1, <1>2, <1>3 DEF JobKeeps

\* A stored completion stays counted.
LEMMA RowStaysCounted ==
  ASSUME NEW r, JobKeeps(r.printerId, r.job), r.job <= printer[r.printerId].job, RowCounted(past, r),
         NEW s, SameRow(s, r)
  PROVE  RowCounted(past', s)
<1> DEFINE job == past[r.printerId][r.job]
           fresh == past'[r.printerId][r.job]
<1>1. /\ s.printerId = r.printerId /\ s.job = r.job /\ s.status = r.status
      /\ CorrelationId(s) = CorrelationId(r)
  BY DEF SameRow
<1>2. /\ job.heard \subseteq fresh.heard
      /\ job.status \in Ends => fresh.status = job.status
      /\ Clean(fresh) => Clean(job)
  BY DEF JobKeeps
<1>3. /\ r.status = "PrintStarted" => "start" \in job.heard
      /\ r.status \in Ends => "end" \in job.heard /\ job.status = r.status
      /\ Clean(job) => CorrelationId(r) # None
  BY DEF RowCounted
<1>4. fresh = past'[s.printerId][s.job] BY <1>1
<1> HIDE DEF job, fresh
<1>5. QED BY <1>1, <1>2, <1>3, <1>4 DEF RowCounted

\* Every completion, and every command for one, was there before, or is new.
RowsFrom(new) ==
  /\ \A n \in DOMAIN rows' :
       \/ n \in DOMAIN rows /\ SameRow(rows'[n], rows[n])
       \/ \E c \in calls : c.at = "create" /\ rows'[n] = c.row
       \/ rows'[n] \in new
  /\ \A c \in calls' : c.at = "create" => c \in calls \/ c.row \in new

\* The completions after a step.
RowsCounted ==
  /\ \A n \in DOMAIN rows' : RowCounted(past', rows'[n])
  /\ \A c \in calls' : c.at = "create" => RowCounted(past', c.row)

LEMMA RowsStayCounted ==
  ASSUME Shaped, Begun, Counted, [Next]_vars, NEW new, RowsFrom(new), \A r \in new : RowCounted(past', r)
  PROVE  RowsCounted
<1>1. /\ mode \in Instances /\ rows \in Seq(Rows(mode)) /\ \A c \in calls : CallOK(mode, c)
  BY DEF Shaped
<1>2. \A r : SameRow(r, r) BY DEF SameRow
<1>3. ASSUME NEW n \in DOMAIN rows, NEW s, SameRow(s, rows[n])
      PROVE  RowCounted(past', s)
  <2>1. rows[n] \in Rows(mode) /\ rows[n].job <= printer[rows[n].printerId].job
    BY <1>1 DEF Begun
  <2>2. rows[n].printerId \in mode.printers /\ rows[n].job \in 1..mode.jobs BY <2>1 DEF Rows
  <2>3. JobKeeps(rows[n].printerId, rows[n].job) /\ RowCounted(past, rows[n])
    BY <2>2, JobsKept DEF Counted
  <2>4. QED BY <1>3, <2>1, <2>3, RowStaysCounted
<1>4. ASSUME NEW c \in calls, c.at = "create"
      PROVE  RowCounted(past', c.row)
  <2>1. /\ c.printerId \in mode.printers /\ c.job \in 1..mode.jobs
        /\ c.printerId = c.row.printerId /\ c.job = c.row.job
    BY <1>1, <1>4, CallFacts
  <2>2. c.job <= printer[c.printerId].job BY DEF Begun
  <2>3. JobKeeps(c.row.printerId, c.row.job) /\ RowCounted(past, c.row)
    BY <1>4, <2>1, JobsKept DEF Counted
  <2>4. QED BY <1>2, <2>1, <2>2, <2>3, RowStaysCounted
<1>5. QED BY <1>3, <1>4 DEF RowsFrom, RowsCounted

CountedKinds == {{"PrintStarted"}, Ends}

\* What is stored of job k of printer p, and what is about to be, stays.
StoredSame(p, k) ==
  \A S \in CountedKinds : /\ RowsOf(rows', p, k, S) = RowsOf(rows, p, k, S)
                          /\ CallsOf(calls', p, k, S) = CallsOf(calls, p, k, S)

StatusSame(p, k) == past'[p][k].status = past[p][k].status

\* Job k of printer p after a step.
CountedNext(p, k) ==
  /\ JobCounted(past'[p][k], calls', rows', p, k)
  /\ PrinterCounted(printer'[p], past'[p][k], contextCache'[p], calls', p, k)

LEMMA JobStays ==
  ASSUME NEW p, NEW k, JobCounted(past[p][k], calls, rows, p, k), StoredSame(p, k), StatusSame(p, k),
         Clean(past'[p][k]) => Clean(past[p][k])
  PROVE  JobCounted(past'[p][k], calls', rows', p, k)
<1>1. /\ RowsOf(rows', p, k, Ends) = RowsOf(rows, p, k, Ends)
      /\ CallsOf(calls', p, k, Ends) = CallsOf(calls, p, k, Ends)
      /\ RowsOf(rows', p, k, {"PrintStarted"}) = RowsOf(rows, p, k, {"PrintStarted"})
      /\ CallsOf(calls', p, k, {"PrintStarted"}) = CallsOf(calls, p, k, {"PrintStarted"})
  BY DEF StoredSame, CountedKinds
<1>2. StoredOnce(calls', rows', p, k) BY <1>1 DEF JobCounted, StoredOnce
<1>3. ASSUME Clean(past'[p][k])
      PROVE  /\ Recording(calls', rows', p, k, {"PrintStarted"})
             /\ past'[p][k].status \in Ends => Recording(calls', rows', p, k, Ends)
  BY <1>1, <1>3 DEF JobCounted, Recording, StatusSame
<1>4. QED BY <1>2, <1>3 DEF JobCounted

\* A printer that stays with its job.
LEMMA PrinterStays ==
  ASSUME NEW p, NEW k, PrinterCounted(printer[p], past[p][k], contextCache[p], calls, p, k),
         StatusSame(p, k), past[p][k].heard \subseteq past'[p][k].heard,
         past[p][k].spoilt => past'[p][k].spoilt, Clean(past'[p][k]) => Clean(past[p][k]),
         printer'[p].job = printer[p].job, printer'[p].printing = printer[p].printing,
         EndsIn(calls', p) => EndsIn(calls, p),
         /\ Clean(past'[p][k]) /\ k = printer[p].job /\ printer[p].printing
         /\ contextCache[p] # None /\ contextCache[p].id = <<p, k>> /\ ~EndsIn(calls, p)
         => contextCache'[p] # None /\ contextCache'[p].id = <<p, k>>
  PROVE  PrinterCounted(printer'[p], past'[p][k], contextCache'[p], calls', p, k)
<1>1. past'[p][k].status \in {None} \cup Ends BY DEF PrinterCounted, StatusSame
<1>2. k <= printer'[p].job /\ ~past'[p][k].spoilt => "start" \in past'[p][k].heard
  BY DEF PrinterCounted
<1>3. k > printer'[p].job \/ (k = printer'[p].job /\ printer'[p].printing) => past'[p][k].status = None
  BY DEF PrinterCounted, StatusSame
<1>4. k = printer'[p].job /\ printer'[p].printing /\ Clean(past'[p][k]) =>
        contextCache'[p] # None /\ contextCache'[p].id = <<p, k>> /\ ~EndsIn(calls', p)
  BY DEF PrinterCounted
<1>5. QED BY <1>1, <1>2, <1>3, <1>4 DEF PrinterCounted

\* A job that is not the current one of its printer.
LEMMA PrinterElsewhere ==
  ASSUME NEW p, NEW k, PrinterCounted(printer[p], past[p][k], contextCache[p], calls, p, k),
         StatusSame(p, k), past[p][k].heard \subseteq past'[p][k].heard,
         past[p][k].spoilt => past'[p][k].spoilt, k # printer'[p].job,
         k <= printer'[p].job => k <= printer[p].job, k > printer'[p].job => k > printer[p].job
  PROVE  PrinterCounted(printer'[p], past'[p][k], contextCache'[p], calls', p, k)
  BY DEF PrinterCounted, StatusSame

\* Contexts of rows may change.
LEMMA UpdatedStored ==
  ASSUME DOMAIN rows' = DOMAIN rows, \A n \in DOMAIN rows : SameRow(rows'[n], rows[n]),
         \A c \in calls \cup calls' : c.at = "create" => c \in calls /\ c \in calls',
         NEW p, NEW k
  PROVE  StoredSame(p, k) /\ (EndsIn(calls', p) <=> EndsIn(calls, p))
<1>1. ASSUME NEW S
      PROVE  /\ RowsOf(rows', p, k, S) = RowsOf(rows, p, k, S)
             /\ CallsOf(calls', p, k, S) = CallsOf(calls, p, k, S)
  BY DEF RowsOf, CallsOf, SameRow
<1>2. EndsIn(calls', p) <=> EndsIn(calls, p) BY DEF EndsIn
<1>3. QED BY <1>1, <1>2 DEF StoredSame

\* A completion is of job k of printer p, and has one of the statuses.
Counts(r, p, k, statuses) == r.printerId = p /\ r.job = k /\ r.status \in statuses

\* The rows rs are rows with r after them.
Longer(rs, r, p, k, S) ==
  /\ Counts(r, p, k, S) => RowsOf(rs, p, k, S) = RowsOf(rows, p, k, S) \cup {Len(rows) + 1}
  /\ ~Counts(r, p, k, S) => RowsOf(rs, p, k, S) = RowsOf(rows, p, k, S)

LEMMA AppendedStored ==
  ASSUME mode \in Instances, rows \in Seq(Rows(mode)), NEW r \in Rows(mode),
         NEW rs, rs = Append(rows, r), NEW p, NEW k, NEW S
  PROVE  Longer(rs, r, p, k, S)
<1>1. /\ DOMAIN rs = DOMAIN rows \cup {Len(rows) + 1}
      /\ rs[Len(rows) + 1] = r /\ \A n \in DOMAIN rows : rs[n] = rows[n]
  BY AppendedRows
<1>2. QED BY <1>1 DEF Longer, RowsOf, Counts

\* A completion is stored, or the command for it is.
Adds(r, p, k, S) ==
  \/ /\ RowsOf(rows', p, k, S) = RowsOf(rows, p, k, S) \cup {Len(rows) + 1}
     /\ CallsOf(calls', p, k, S) = CallsOf(calls, p, k, S)
  \/ /\ RowsOf(rows', p, k, S) = RowsOf(rows, p, k, S)
     /\ CallsOf(calls', p, k, S) = CallsOf(calls, p, k, S) \cup {Create(r)}

LEMMA CreatedStored ==
  ASSUME Shaped, NEW r \in Rows(mode), Creates(r), NEW p, NEW k, NEW S
  PROVE  /\ Counts(r, p, k, S) => Adds(r, p, k, S)
         /\ ~Counts(r, p, k, S) => /\ RowsOf(rows', p, k, S) = RowsOf(rows, p, k, S)
                                   /\ CallsOf(calls', p, k, S) = CallsOf(calls, p, k, S)
<1>1. mode \in Instances /\ rows \in Seq(Rows(mode)) BY DEF Shaped
<1>2. CASE mode.db = "mongo"
  <2>1. rows' = rows /\ calls' = calls \cup {Create(r)} BY <1>2 DEF Creates
  <2>2. /\ Create(r).printerId = r.printerId /\ Create(r).job = r.job /\ Create(r).at = "create"
        /\ Create(r).row = r
    BY DEF Create
  <2>3. CallsOf(calls', p, k, S) = CallsOf(calls, p, k, S) \cup IF Counts(r, p, k, S) THEN {Create(r)} ELSE {}
    BY <2>1, <2>2 DEF CallsOf, Counts
  <2>4. QED BY <2>1, <2>3 DEF Adds
<1>3. CASE mode.db # "mongo"
  <2>1. rows' = Append(rows, r) /\ calls' = calls BY <1>3 DEF Creates
  <2>2. /\ Counts(r, p, k, S) => RowsOf(rows', p, k, S) = RowsOf(rows, p, k, S) \cup {Len(rows) + 1}
        /\ ~Counts(r, p, k, S) => RowsOf(rows', p, k, S) = RowsOf(rows, p, k, S)
    <3>1. Longer(rows', r, p, k, S) BY <1>1, <2>1, AppendedStored
    <3>2. QED BY <3>1 DEF Longer
  <2>3. QED BY <2>1, <2>2 DEF Adds
<1>4. QED BY <1>2, <1>3

\* The completion of another job is stored.
LEMMA CreatedElsewhere ==
  ASSUME Shaped, NEW r \in Rows(mode), Creates(r), NEW p, NEW k, r.printerId # p \/ r.job # k
  PROVE  StoredSame(p, k)
<1>1. \A S : ~Counts(r, p, k, S) BY DEF Counts
<1>2. QED BY <1>1, CreatedStored DEF StoredSame

\* The commands that are new are of printer r.printerId.
LEMMA CreatedEnds ==
  ASSUME NEW r, Creates(r), NEW p, r.printerId # p \/ r.status \notin Ends
  PROVE  EndsIn(calls', p) => EndsIn(calls, p)
<1>1. Create(r).printerId = r.printerId /\ Create(r).row = r BY DEF Create
<1>2. calls' \subseteq calls \cup {Create(r)} BY DEF Creates
<1>3. QED BY <1>1, <1>2 DEF EndsIn

\* Where the completions after an event are from.
LEMMA CreatedFrom ==
  ASSUME Shaped, NEW r \in Rows(mode), Creates(r)
  PROVE  RowsFrom({r})
<1>1. mode \in Instances /\ rows \in Seq(Rows(mode)) BY DEF Shaped
<1>2. CASE mode.db = "mongo"
  <2>1. rows' = rows /\ calls' = calls \cup {Create(r)} /\ Create(r).row = r
    BY <1>2 DEF Creates, Create
  <2>2. QED BY <2>1 DEF RowsFrom, SameRow
<1>3. CASE mode.db # "mongo"
  <2>1. rows' = Append(rows, r) /\ calls' = calls BY <1>3 DEF Creates
  <2>2. /\ \A n \in DOMAIN rows : rows'[n] = rows[n]
        /\ \A n \in DOMAIN rows' : n \in DOMAIN rows \/ rows'[n] = r
    BY <1>1, <2>1, AppendedRows
  <2>3. QED BY <2>1, <2>2 DEF RowsFrom, SameRow
<1>4. QED BY <1>2, <1>3

\* All jobs after a step.
AllCounted == RowsCounted /\ \A q \in mode.printers, k \in 1..mode.jobs : CountedNext(q, k)

\* What is known of a job before a step.
LEMMA CountedBefore ==
  ASSUME Shaped, Begun, Counted, [Next]_vars, NEW q \in mode.printers, NEW k \in 1..mode.jobs
  PROVE  /\ JobCounted(past[q][k], calls, rows, q, k)
         /\ PrinterCounted(printer[q], past[q][k], contextCache[q], calls, q, k)
         /\ past[q][k].heard \subseteq past'[q][k].heard
         /\ past[q][k].spoilt => past'[q][k].spoilt
         /\ printer'[q].job = printer[q].job \/ k <= printer[q].job =>
              (Clean(past'[q][k]) => Clean(past[q][k]))
<1>1. JobCounted(past[q][k], calls, rows, q, k) BY DEF Counted
<1>2. PrinterCounted(printer[q], past[q][k], contextCache[q], calls, q, k) BY DEF Counted
<1>3. past[q][k].spoilt => past'[q][k].spoilt BY PastGrows DEF Grows
<1>4. QED BY <1>1, <1>2, <1>3, HeardGrows, CleanBefore

\* A job that is not concerned by an event of job j of printer p.
LEMMA CountedElsewhere ==
  ASSUME Shaped, Begun, Counted, [Next]_vars, NEW p \in mode.printers, NEW j, Others(p),
         printer'[p].job = j, printer[p].job \in {j, j - 1}, j \in Nat,
         NEW q \in mode.printers, NEW k \in 1..mode.jobs, q # p \/ k # j,
         StoredSame(q, k), StatusSame(q, k), q # p => (EndsIn(calls', q) => EndsIn(calls, q))
  PROVE  CountedNext(q, k)
<1>1. /\ JobCounted(past[q][k], calls, rows, q, k)
      /\ PrinterCounted(printer[q], past[q][k], contextCache[q], calls, q, k)
      /\ past[q][k].heard \subseteq past'[q][k].heard
      /\ past[q][k].spoilt => past'[q][k].spoilt
      /\ printer'[q].job = printer[q].job \/ k <= printer[q].job =>
           (Clean(past'[q][k]) => Clean(past[q][k]))
  BY CountedBefore
<1>2. mode.jobs \in Nat /\ printer[q].job \in Nat BY JobsAreNumbers
<1>3. CASE q # p
  <2>1. printer'[q] = printer[q] /\ contextCache'[q] = contextCache[q] /\ past'[q] = past[q]
    BY <1>3 DEF Others
  <2>2. JobCounted(past'[q][k], calls', rows', q, k) BY <1>1, <2>1, JobStays
  <2>3. PrinterCounted(printer'[q], past'[q][k], contextCache'[q], calls', q, k)
    BY <1>1, <1>3, <2>1, PrinterStays
  <2>4. QED BY <2>2, <2>3 DEF CountedNext
<1>4. CASE q = p
  <2>1. k # printer'[q].job BY <1>4
  <2>2. /\ k <= printer'[q].job => k <= printer[q].job
        /\ k > printer'[q].job => k > printer[q].job
    BY <1>2, <1>4, <2>1
  <2>3. Clean(past'[q][k]) => Clean(past[q][k])
    <3>1. CASE k <= printer[q].job BY <1>1, <3>1
    <3>2. CASE k > printer'[q].job
      <4>1. NothingOf(past'[q][k]) BY <3>2, NothingOfJobsToCome
      <4>2. QED BY <4>1 DEF NothingOf, Clean
    <3>3. QED BY <1>2, <1>4, <2>1, <2>2, <3>1, <3>2
  <2>4. JobCounted(past'[q][k], calls', rows', q, k) BY <1>1, <2>3, JobStays
  <2>5. PrinterCounted(printer'[q], past'[q][k], contextCache'[q], calls', q, k)
    BY <1>1, <2>1, <2>2, PrinterElsewhere
  <2>6. QED BY <2>4, <2>5 DEF CountedNext
<1>5. QED BY <1>3, <1>4

\* The completion of an event.
RowIs(r, p, j, status, context) ==
  /\ r \in Rows(mode) /\ r.printerId = p /\ r.job = j /\ r.status = status
  /\ CorrelationId(r) = IF context = None THEN None ELSE context.id

LEMMA EventRow ==
  ASSUME Shaped, NEW p \in mode.printers, NEW j \in 1..mode.jobs, NEW status \in Statuses,
         NEW context \in Contexts(mode) \cup {None}, status = "PrintStarted" => context # None,
         NEW r, r = Row(p, j, status, context)
  PROVE  RowIs(r, p, j, status, context)
<1>1. mode \in Instances BY DEF Shaped
<1>2. r \in Rows(mode) /\ r.printerId = p /\ r.job = j /\ r.status = status /\ r.context = context
  BY <1>1, RowFields
<1>3. QED BY <1>2 DEF CorrelationId, RowIs

\* Nothing changes in store.
LEMMA UnchangedStored ==
  ASSUME rows' = rows, calls' = calls
  PROVE  /\ RowsFrom({})
         /\ \A q, k : StoredSame(q, k) /\ (EndsIn(calls', q) <=> EndsIn(calls, q))
<1>1. \A n \in DOMAIN rows : SameRow(rows'[n], rows[n]) BY DEF SameRow
<1>2. RowsFrom({}) BY <1>1 DEF RowsFrom
<1>3. QED BY <1>1, <1>2, UpdatedStored

\* A start.
LEMMA CountedAtStart ==
  ASSUME Shaped, Begun, Counted, [Next]_vars, NEW p \in mode.printers, Start(p)
  PROVE  AllCounted
<1> DEFINE j == printer[p].job + 1
           context == StartedContext(p, j)
           r == Row(p, j, "PrintStarted", context)
<1>1. StartStep(p, j) BY Starts
<1>2. /\ Others(p) /\ j \in 1..mode.jobs /\ printer'[p].job = j /\ printer'[p].printing
      /\ ~printer[p].printing
  BY <1>1 DEF StartStep
<1>3. mode \in Instances /\ mode.jobs \in Nat /\ printer[p].job \in Nat
  BY JobsAreNumbers DEF Shaped
<1>4. StatusesStay
  <2>1. ASSUME NEW q \in mode.printers, NEW status \in Ends, End(q, status)
        PROVE  FALSE
    <3>1. EndStep(q, printer[q].job, status) BY <2>1, Finishes
    <3>2. /\ q \in mode.printers /\ ~printer'[q].printing /\ printer[q].printing
          /\ \A i \in mode.printers \ {q} : printer'[i] = printer[i]
      BY <3>1 DEF EndStep, Others
    <3>3. QED BY <1>2, <3>2
  <2>2. QED BY <2>1, StatusElsewhere
<1>5. /\ JobCounted(past[p][j], calls, rows, p, j)
      /\ PrinterCounted(printer[p], past[p][j], contextCache[p], calls, p, j)
  BY <1>2, CountedBefore
<1>6. /\ past[p][j].status = None /\ past'[p][j].status = None
  BY <1>2, <1>3, <1>4, <1>5 DEF PrinterCounted, StatusesStay
<1>7. ASSUME \A q \in mode.printers, k \in 1..mode.jobs : q # p \/ k # j => StoredSame(q, k),
             \A q \in mode.printers : EndsIn(calls', q) => EndsIn(calls, q),
             NEW new, RowsFrom(new), \A s \in new : RowCounted(past', s), CountedNext(p, j)
      PROVE  AllCounted
  <2>1. RowsCounted BY <1>7, RowsStayCounted
  <2>2. ASSUME NEW q \in mode.printers, NEW k \in 1..mode.jobs, q # p \/ k # j
        PROVE  CountedNext(q, k)
    <3>1. StoredSame(q, k) /\ StatusSame(q, k) /\ (EndsIn(calls', q) => EndsIn(calls, q))
      BY <1>4, <1>7, <2>2 DEF StatusesStay, StatusSame
    <3>2. printer[p].job \in {j, j - 1} /\ j \in Nat BY <1>3
    <3> HIDE DEF j
    <3>3. QED BY <1>2, <2>2, <3>1, <3>2, CountedElsewhere
  <2>3. QED BY <1>7, <2>1, <2>2 DEF AllCounted
<1>8. CASE Lost(p, j) /\ Unchanged(p)
  <2>1. /\ RowsFrom({})
        /\ \A q, k : StoredSame(q, k) /\ (EndsIn(calls', q) <=> EndsIn(calls, q))
    BY <1>8, UnchangedStored DEF Unchanged
  <2>2. past'[p][j].spoilt /\ ~Clean(past'[p][j]) BY <1>8 DEF Lost, Clean
  <2>3. JobCounted(past'[p][j], calls', rows', p, j)
    BY <1>5, <1>6, <2>1, <2>2, JobStays DEF StatusSame
  <2>4. PrinterCounted(printer'[p], past'[p][j], contextCache'[p], calls', p, j)
    BY <1>2, <1>3, <1>6, <2>2 DEF PrinterCounted
  <2>5. CountedNext(p, j) BY <2>3, <2>4 DEF CountedNext
  <2>6. QED BY <1>7, <2>1, <2>5
<1>9. CASE /\ Handled(p, j, "start", SpoilsStart(p)) /\ contextCache'[p] = context
           /\ Creates(r)
  <2>1. context \in Contexts(mode) /\ context # None /\ context.id = <<p, j>> /\ <<p, j>> # None
    BY <1>2, <1>3, FreshContexts
  <2>2. /\ r \in Rows(mode) /\ r.printerId = p /\ r.job = j /\ r.status = "PrintStarted"
        /\ CorrelationId(r) = <<p, j>>
    <3>1. "PrintStarted" \in Statuses BY DEF Statuses
    <3>2. r = Row(p, j, "PrintStarted", context) OBVIOUS
    <3> HIDE DEF r, context, j
    <3>3. RowIs(r, p, j, "PrintStarted", context) BY <1>2, <2>1, <3>1, <3>2, EventRow
    <3>4. QED BY <2>1, <3>3 DEF RowIs
  <2>3. "start" \in past'[p][j].heard BY <1>9 DEF Handled
  <2>4. "PrintStarted" \notin Ends BY DEF Ends
  <2> HIDE DEF r
  <2>5. RowCounted(past', r) BY <2>1, <2>2, <2>3, <2>4 DEF RowCounted
  <2>6. \A q \in mode.printers, k \in 1..mode.jobs : q # p \/ k # j => StoredSame(q, k)
    BY <1>9, <2>2, CreatedElsewhere
  <2>7. \A q \in mode.printers : EndsIn(calls', q) => EndsIn(calls, q)
    BY <1>9, <2>2, <2>4, CreatedEnds
  <2>8. RowsFrom({r}) BY <1>9, <2>2, CreatedFrom
  <2>9. JobCounted(past'[p][j], calls', rows', p, j)
    <3>1. ~Counts(r, p, j, Ends) /\ Counts(r, p, j, {"PrintStarted"})
      BY <2>2, <2>4 DEF Counts
    <3>2. /\ RowsOf(rows', p, j, Ends) = RowsOf(rows, p, j, Ends)
          /\ CallsOf(calls', p, j, Ends) = CallsOf(calls, p, j, Ends)
      BY <1>9, <2>2, <3>1, CreatedStored
    <3>3. Adds(r, p, j, {"PrintStarted"}) BY <1>9, <2>2, <3>1, CreatedStored
    <3>4. StoredOnce(calls', rows', p, j) BY <1>5, <3>2 DEF JobCounted, StoredOnce
    <3>5. Recording(calls', rows', p, j, {"PrintStarted"}) BY <3>3 DEF Adds, Recording
    <3>6. QED BY <1>6, <3>4, <3>5, NoneIsNoEnd DEF JobCounted
  <2>10. PrinterCounted(printer'[p], past'[p][j], contextCache'[p], calls', p, j)
    <3>1. Clean(past'[p][j]) => ~EndsIn(calls', p)
      <4>1. Clean(past'[p][j]) => ~SpoilsStart(p) BY <1>9, Zenon DEF Clean, Handled
      <4>2. ~SpoilsStart(p) => ~EndsIn(calls, p) BY DEF SpoilsStart, Creating, EndsIn
      <4>3. QED BY <1>2, <2>7, <4>1, <4>2
    <3>2. QED BY <1>6, <1>9, <2>1, <2>3, <3>1 DEF PrinterCounted
  <2>11. CountedNext(p, j) BY <2>9, <2>10 DEF CountedNext
  <2>12. QED BY <1>7, <2>5, <2>6, <2>7, <2>8, <2>11
<1>10. QED BY <1>1, <1>8, <1>9 DEF StartStep

\* The end of a job that has not ended is neither stored nor about to be.
LEMMA NoEndYet ==
  ASSUME Shaped, Counted, NEW p \in mode.printers, NEW j \in 1..mode.jobs, past[p][j].status = None
  PROVE  RowsOf(rows, p, j, Ends) = {} /\ CallsOf(calls, p, j, Ends) = {}
<1>1. ASSUME NEW n \in RowsOf(rows, p, j, Ends)
      PROVE  FALSE
  <2>1. /\ n \in DOMAIN rows /\ rows[n].printerId = p /\ rows[n].job = j /\ rows[n].status \in Ends
    BY DEF RowsOf
  <2>2. past[p][j].status = rows[n].status BY <2>1 DEF Counted, RowCounted
  <2>3. QED BY <2>1, <2>2, NoneIsNoEnd
<1>2. ASSUME NEW c \in CallsOf(calls, p, j, Ends)
      PROVE  FALSE
  <2>1. /\ c \in calls /\ c.printerId = p /\ c.job = j /\ c.at = "create" /\ c.row.status \in Ends
    BY DEF CallsOf
  <2>2. c.row.printerId = p /\ c.row.job = j BY <2>1, CallFacts DEF Shaped
  <2>3. past[p][j].status = c.row.status BY <2>1, <2>2 DEF Counted, RowCounted
  <2>4. QED BY <2>1, <2>3, NoneIsNoEnd
<1>3. QED BY <1>1, <1>2

\* An end.
LEMMA CountedAtEnd ==
  ASSUME Shaped, Begun, Counted, [Next]_vars, NEW p \in mode.printers, NEW status \in Ends, End(p, status)
  PROVE  AllCounted
<1> DEFINE j == printer[p].job
           context == contextCache[p]
           r == Row(p, j, status, context)
<1>1. EndStep(p, j, status) BY Finishes
<1>2. /\ Others(p) /\ j \in 1..mode.jobs /\ printer'[p].job = j /\ ~printer'[p].printing
      /\ printer[p].printing
  BY <1>1 DEF EndStep
<1>3. /\ mode \in Instances /\ mode.jobs \in Nat /\ j \in Nat
      /\ context \in Contexts(mode) \cup {None}
  BY JobsAreNumbers DEF Shaped
<1>4. /\ past'[p][j].status = status
      /\ \A q \in mode.printers, k \in 1..mode.jobs : q # p \/ k # j => StatusSame(q, k)
  BY StatusAtEnd DEF Ended, StatusSame
<1>5. /\ JobCounted(past[p][j], calls, rows, p, j)
      /\ PrinterCounted(printer[p], past[p][j], context, calls, p, j)
      /\ past[p][j].heard \subseteq past'[p][j].heard
      /\ past[p][j].spoilt => past'[p][j].spoilt
      /\ Clean(past'[p][j]) => Clean(past[p][j])
  <2> HIDE DEF j
  <2>1. printer'[p].job = printer[p].job BY <1>2 DEF j
  <2>2. QED BY <1>2, <2>1, CountedBefore
<1>6. past[p][j].status = None BY <1>2, <1>5 DEF PrinterCounted
<1>7. RowsOf(rows, p, j, Ends) = {} /\ CallsOf(calls, p, j, Ends) = {}
  BY <1>2, <1>6, NoEndYet
<1>8. Clean(past'[p][j]) => context # None /\ context.id = <<p, j>>
  BY <1>2, <1>5 DEF PrinterCounted
<1>9. <<p, j>> # None BY <1>2, <1>3, FreshContexts
<1>10. PrinterCounted(printer'[p], past'[p][j], contextCache'[p], calls', p, j)
  <2>1. j <= printer[p].job /\ ~(j > printer[p].job) BY <1>3
  <2>2. ~past'[p][j].spoilt => "start" \in past'[p][j].heard
    BY <1>5, <2>1 DEF PrinterCounted
  <2>3. QED BY <1>2, <1>4, <2>1, <2>2 DEF PrinterCounted
<1>11. ASSUME \A q \in mode.printers, k \in 1..mode.jobs : q # p \/ k # j => StoredSame(q, k),
              \A q \in mode.printers \ {p} : EndsIn(calls', q) => EndsIn(calls, q),
              NEW new, RowsFrom(new), \A s \in new : RowCounted(past', s),
              JobCounted(past'[p][j], calls', rows', p, j)
       PROVE  AllCounted
  <2>1. RowsCounted BY <1>11, RowsStayCounted
  <2>2. ASSUME NEW q \in mode.printers, NEW k \in 1..mode.jobs, q # p \/ k # j
        PROVE  CountedNext(q, k)
    <3>1. /\ StoredSame(q, k) /\ StatusSame(q, k)
          /\ q # p => (EndsIn(calls', q) => EndsIn(calls, q))
      BY <1>4, <1>11, <2>2
    <3>2. printer[p].job \in {j, j - 1} OBVIOUS
    <3> HIDE DEF j
    <3>3. QED BY <1>2, <1>3, <2>2, <3>1, <3>2, CountedElsewhere
  <2>3. CountedNext(p, j) BY <1>10, <1>11 DEF CountedNext
  <2>4. QED BY <2>1, <2>2, <2>3 DEF AllCounted
<1>12. CASE Unchanged(p) /\ ~Clean(past'[p][j])
  <2>1. /\ RowsFrom({})
        /\ \A q, k : StoredSame(q, k) /\ (EndsIn(calls', q) <=> EndsIn(calls, q))
    BY <1>12, UnchangedStored DEF Unchanged
  <2>2. StoredOnce(calls', rows', p, j) BY <1>5, <1>12 DEF JobCounted, StoredOnce, Unchanged
  <2>3. JobCounted(past'[p][j], calls', rows', p, j) BY <1>12, <2>2 DEF JobCounted
  <2>4. QED BY <1>11, <2>1, <2>3
<1>13. CASE Handled(p, j, "end", FALSE) /\ Creates(r)
  <2>1. RowIs(r, p, j, status, context)
    <3>1. status \in Statuses /\ status # "PrintStarted" BY DEF Statuses, Ends
    <3>2. r = Row(p, j, status, context) OBVIOUS
    <3> HIDE DEF r, context, j
    <3>3. QED BY <1>2, <1>3, <3>1, <3>2, EventRow
  <2>2. /\ r \in Rows(mode) /\ r.printerId = p /\ r.job = j /\ r.status = status
        /\ CorrelationId(r) = IF context = None THEN None ELSE context.id
    BY <2>1 DEF RowIs
  <2>3. "end" \in past'[p][j].heard BY <1>13 DEF Handled
  <2>4. status # "PrintStarted" BY DEF Ends
  <2> HIDE DEF r
  <2>5. RowCounted(past', r) BY <1>4, <1>8, <1>9, <2>2, <2>3, <2>4 DEF RowCounted
  <2>6. \A q \in mode.printers, k \in 1..mode.jobs : q # p \/ k # j => StoredSame(q, k)
    BY <1>13, <2>2, CreatedElsewhere
  <2>7. \A q \in mode.printers \ {p} : EndsIn(calls', q) => EndsIn(calls, q)
    BY <1>13, <2>2, CreatedEnds
  <2>8. RowsFrom({r}) BY <1>13, <2>2, CreatedFrom
  <2>9. JobCounted(past'[p][j], calls', rows', p, j)
    <3>1. Counts(r, p, j, Ends) /\ ~Counts(r, p, j, {"PrintStarted"})
      BY <2>2, <2>4 DEF Counts
    <3>2. /\ RowsOf(rows', p, j, {"PrintStarted"}) = RowsOf(rows, p, j, {"PrintStarted"})
          /\ CallsOf(calls', p, j, {"PrintStarted"}) = CallsOf(calls, p, j, {"PrintStarted"})
      BY <1>13, <2>2, <3>1, CreatedStored
    <3>3. Adds(r, p, j, Ends) BY <1>13, <2>2, <3>1, CreatedStored
    <3>4. \/ /\ RowsOf(rows', p, j, Ends) = {Len(rows) + 1}
             /\ CallsOf(calls', p, j, Ends) = {}
          \/ /\ RowsOf(rows', p, j, Ends) = {}
             /\ CallsOf(calls', p, j, Ends) = {Create(r)}
      BY <1>7, <3>3 DEF Adds
    <3>5. StoredOnce(calls', rows', p, j) /\ Recording(calls', rows', p, j, Ends)
      BY <3>4 DEF StoredOnce, Recording
    <3>6. Clean(past'[p][j]) => Recording(calls', rows', p, j, {"PrintStarted"})
      BY <1>5, <3>2 DEF JobCounted, Recording
    <3>7. QED BY <3>5, <3>6 DEF JobCounted
  <2>10. QED BY <1>11, <2>5, <2>6, <2>7, <2>8, <2>9
<1>14. CASE Lost(p, j) /\ Unchanged(p) BY <1>12, <1>14, Zenon DEF Lost, Clean
<1>15. CASE Unchanged(p) /\ context \in {None, EmptyContext}
  <2>1. EmptyContext.id = None BY DEF EmptyContext
  <2>2. QED BY <1>8, <1>9, <1>12, <1>15, <2>1
<1>16. QED BY <1>1, <1>13, <1>14, <1>15 DEF EndStep

\* Another event: at most the contexts of rows change.
LEMMA CountedAtNote ==
  ASSUME Shaped, Begun, Counted, [Next]_vars, NEW p \in mode.printers, NEW note \in Notes, Note(p, note)
  PROVE  AllCounted
<1> DEFINE j == printer[p].job
           context == WithNote(contextCache[p], note)
<1>1. NoteStep(p, j, note) BY Notices
<1>2. /\ Others(p) /\ j \in 1..mode.jobs /\ printer'[p].job = j
      /\ printer'[p].printing = printer[p].printing
  BY <1>1 DEF NoteStep
<1>3. /\ mode \in Instances /\ contextCache[p] \in Contexts(mode) \cup {None}
      /\ rows \in Seq(Rows(mode))
  BY DEF Shaped
<1>4. /\ context \in Contexts(mode) /\ context # None
      /\ context.id = IF contextCache[p] = None THEN None ELSE contextCache[p].id
  BY <1>3, ContextWithNote, InstanceFacts
<1>5. StatusesStay
  <2>1. ASSUME NEW q \in mode.printers, NEW status \in Ends, End(q, status)
        PROVE  FALSE
    <3>1. EndStep(q, printer[q].job, status) BY <2>1, Finishes
    <3>2. /\ q \in mode.printers /\ ~printer'[q].printing /\ printer[q].printing
          /\ \A i \in mode.printers \ {q} : printer'[i] = printer[i]
      BY <3>1 DEF EndStep, Others
    <3>3. \A i \in mode.printers : printer'[i].printing = printer[i].printing
      BY <1>2 DEF Others
    <3>4. QED BY <3>2, <3>3
  <2>2. QED BY <2>1, StatusElsewhere
<1> HIDE DEF context
<1>6. /\ DOMAIN rows' = DOMAIN rows /\ \A n \in DOMAIN rows : SameRow(rows'[n], rows[n])
      /\ \A c \in calls \cup calls' : c.at = "create" => c \in calls /\ c \in calls'
  <2>1. CASE rows' = rows /\ calls' = calls BY <2>1 DEF SameRow
  <2>2. CASE UpdateContext(p, j, context)
    <3>1. CASE /\ context.id # None
               /\ calls' = calls \cup {[printerId |-> p, at |-> "find", context |-> context, job |-> j]}
               /\ rows' = rows
      BY <3>1 DEF SameRow
    <3>2. CASE rows' = Updated(context.id, context) /\ calls' = calls
      BY <1>3, <1>4, <3>2, UpdatedRows DEF SameRow
    <3>3. QED BY <2>1, <2>2, <3>1, <3>2 DEF UpdateContext
  <2>3. QED BY <1>1, <2>1, <2>2 DEF NoteStep, Unchanged, context
<1>7. \A q, k : StoredSame(q, k) /\ (EndsIn(calls', q) <=> EndsIn(calls, q))
  BY <1>6, UpdatedStored
<1>8. RowsFrom({}) BY <1>6 DEF RowsFrom
<1>9. RowsCounted BY <1>8, RowsStayCounted
<1>10. \A q \in mode.printers : contextCache[q] # None =>
         contextCache'[q] # None /\ contextCache'[q].id = contextCache[q].id
  <2>1. contextCache'[p] = context \/ contextCache'[p] = contextCache[p]
    BY <1>1 DEF NoteStep, Unchanged, context
  <2>2. QED BY <1>2, <1>4, <2>1 DEF Others
<1>11. ASSUME NEW q \in mode.printers, NEW k \in 1..mode.jobs
       PROVE  CountedNext(q, k)
  <2>1. printer'[q].job = printer[q].job /\ printer'[q].printing = printer[q].printing
    BY <1>2 DEF Others
  <2>2. StatusSame(q, k) BY <1>5 DEF StatusesStay, StatusSame
  <2>3. /\ JobCounted(past[q][k], calls, rows, q, k)
        /\ PrinterCounted(printer[q], past[q][k], contextCache[q], calls, q, k)
        /\ past[q][k].heard \subseteq past'[q][k].heard
        /\ past[q][k].spoilt => past'[q][k].spoilt
        /\ Clean(past'[q][k]) => Clean(past[q][k])
    BY <2>1, CountedBefore
  <2>4. JobCounted(past'[q][k], calls', rows', q, k) BY <1>7, <2>2, <2>3, JobStays
  <2>5. PrinterCounted(printer'[q], past'[q][k], contextCache'[q], calls', q, k)
    BY <1>7, <1>10, <2>1, <2>2, <2>3, PrinterStays
  <2>6. QED BY <2>4, <2>5 DEF CountedNext
<1>12. QED BY <1>9, <1>11 DEF AllCounted

\* A completion is inserted.
LEMMA CountedAtInsertion ==
  ASSUME Shaped, Begun, Counted, [Next]_vars, NEW call \in calls, Inserted(call)
  PROVE  AllCounted
<1> DEFINE r == call.row
<1>1. /\ call.at = "create" /\ calls' = calls \ {call} /\ rows' = Append(rows, r)
      /\ printer' = printer /\ past' = past
      /\ contextCache' = IF r.status \in Ends
                         THEN [contextCache EXCEPT ![call.printerId] = EmptyContext] ELSE contextCache
  BY DEF Inserted
<1>2. /\ mode \in Instances /\ rows \in Seq(Rows(mode)) /\ DOMAIN contextCache = mode.printers
      /\ CallOK(mode, call)
  BY DEF Shaped
<1>3. /\ r \in Rows(mode) /\ call.printerId = r.printerId /\ call.job = r.job
  BY <1>1, <1>2, CallFacts
<1>4. /\ \A n \in DOMAIN rows : rows'[n] = rows[n]
      /\ \A n \in DOMAIN rows' : n \in DOMAIN rows \/ rows'[n] = r
  BY <1>1, <1>2, <1>3, AppendedRows
<1>5. RowsFrom({}) BY <1>1, <1>4 DEF RowsFrom, SameRow
<1>6. RowsCounted BY <1>5, RowsStayCounted
<1>7. \A q : EndsIn(calls', q) => EndsIn(calls, q) BY <1>1 DEF EndsIn
<1>8. ASSUME NEW q, NEW k, NEW S
      PROVE  /\ Counts(r, q, k, S) =>
                  /\ RowsOf(rows', q, k, S) = RowsOf(rows, q, k, S) \cup {Len(rows) + 1}
                  /\ CallsOf(calls', q, k, S) = CallsOf(calls, q, k, S) \ {call}
                  /\ call \in CallsOf(calls, q, k, S)
             /\ ~Counts(r, q, k, S) => /\ RowsOf(rows', q, k, S) = RowsOf(rows, q, k, S)
                                       /\ CallsOf(calls', q, k, S) = CallsOf(calls, q, k, S)
  <2>1. Longer(rows', r, q, k, S) BY <1>1, <1>2, <1>3, AppendedStored
  <2>2. CallsOf(calls', q, k, S) = CallsOf(calls, q, k, S) \ {call} BY <1>1 DEF CallsOf
  <2>3. call \in CallsOf(calls, q, k, S) <=> Counts(r, q, k, S)
    BY <1>1, <1>3 DEF CallsOf, Counts
  <2>4. QED BY <2>1, <2>2, <2>3 DEF Longer
<1>9. ASSUME NEW q \in mode.printers, NEW k \in 1..mode.jobs
      PROVE  CountedNext(q, k)
  <2>1. /\ JobCounted(past[q][k], calls, rows, q, k)
        /\ PrinterCounted(printer[q], past[q][k], contextCache[q], calls, q, k)
    BY CountedBefore
  <2>2. ASSUME NEW S \in CountedKinds
        PROVE  Recording(calls, rows, q, k, S) => Recording(calls', rows', q, k, S)
    BY <1>8 DEF Recording
  <2>3. StoredOnce(calls', rows', q, k)
    <3>1. CASE Counts(r, q, k, Ends)
      <4>1. /\ RowsOf(rows', q, k, Ends) = RowsOf(rows, q, k, Ends) \cup {Len(rows) + 1}
            /\ CallsOf(calls', q, k, Ends) = CallsOf(calls, q, k, Ends) \ {call}
            /\ call \in CallsOf(calls, q, k, Ends)
        BY <1>8, <3>1
      <4>2. RowsOf(rows, q, k, Ends) = {} /\ \A c \in CallsOf(calls, q, k, Ends) : c = call
        BY <2>1, <4>1 DEF JobCounted, StoredOnce
      <4>3. RowsOf(rows', q, k, Ends) = {Len(rows) + 1} /\ CallsOf(calls', q, k, Ends) = {}
        BY <4>1, <4>2
      <4>4. QED BY <4>3 DEF StoredOnce
    <3>2. CASE ~Counts(r, q, k, Ends)
      <4>1. /\ RowsOf(rows', q, k, Ends) = RowsOf(rows, q, k, Ends)
            /\ CallsOf(calls', q, k, Ends) = CallsOf(calls, q, k, Ends)
        BY <1>8, <3>2
      <4>2. QED BY <2>1, <4>1 DEF JobCounted, StoredOnce
    <3>3. QED BY <3>1, <3>2
  <2>4. JobCounted(past'[q][k], calls', rows', q, k)
    BY <1>1, <2>1, <2>2, <2>3 DEF JobCounted, CountedKinds
  <2>5. ASSUME ~EndsIn(calls, q)
        PROVE  contextCache'[q] = contextCache[q]
    <3>1. ~(r.status \in Ends /\ q = call.printerId) BY <1>1, <2>5 DEF EndsIn
    <3>2. QED BY <1>1, <1>2, <3>1
  <2>6. PrinterCounted(printer'[q], past'[q][k], contextCache'[q], calls', q, k)
    BY <1>1, <1>7, <2>1, <2>5, PrinterStays DEF StatusSame
  <2>7. QED BY <2>4, <2>6 DEF CountedNext
<1>10. QED BY <1>6, <1>9 DEF AllCounted

\* A row is searched, or its context saved, or nothing is stored.
LEMMA CountedAtUpdate ==
  ASSUME Shaped, Begun, Counted, [Next]_vars, printer' = printer, past' = past,
         contextCache' = contextCache,
         DOMAIN rows' = DOMAIN rows, \A n \in DOMAIN rows : SameRow(rows'[n], rows[n]),
         \A c \in calls \cup calls' : c.at = "create" => c \in calls /\ c \in calls'
  PROVE  AllCounted
<1>1. \A q, k : StoredSame(q, k) /\ (EndsIn(calls', q) <=> EndsIn(calls, q))
  BY UpdatedStored
<1>2. RowsFrom({}) BY DEF RowsFrom
<1>3. RowsCounted BY <1>2, RowsStayCounted
<1>4. ASSUME NEW q \in mode.printers, NEW k \in 1..mode.jobs
      PROVE  CountedNext(q, k)
  <2>1. /\ JobCounted(past[q][k], calls, rows, q, k)
        /\ PrinterCounted(printer[q], past[q][k], contextCache[q], calls, q, k)
    BY CountedBefore
  <2>2. JobCounted(past'[q][k], calls', rows', q, k) BY <1>1, <2>1, JobStays DEF StatusSame
  <2>3. PrinterCounted(printer'[q], past'[q][k], contextCache'[q], calls', q, k)
    BY <1>1, <2>1, PrinterStays DEF StatusSame
  <2>4. QED BY <2>2, <2>3 DEF CountedNext
<1>5. QED BY <1>3, <1>4 DEF AllCounted

\* Commands are given up: the jobs they are of are spoilt.
LEMMA CountedWithout ==
  ASSUME Shaped, Begun, Counted, [Next]_vars, printer' = printer, rows' = rows, calls' \subseteq calls,
         \A c \in calls : c \in calls' \/ past'[c.printerId][c.job].spoilt,
         StatusesStay,
         \A q \in mode.printers :
           contextCache'[q] = contextCache[q] \/
             (printer[q].printing => \A k \in 1..mode.jobs : k = printer[q].job => past'[q][k].spoilt)
  PROVE  AllCounted
<1>1. RowsFrom({}) BY DEF RowsFrom, SameRow
<1>2. RowsCounted BY <1>1, RowsStayCounted
<1>3. ASSUME NEW q \in mode.printers, NEW k \in 1..mode.jobs
      PROVE  CountedNext(q, k)
  <2>1. /\ JobCounted(past[q][k], calls, rows, q, k)
        /\ PrinterCounted(printer[q], past[q][k], contextCache[q], calls, q, k)
        /\ past[q][k].heard \subseteq past'[q][k].heard
        /\ past[q][k].spoilt => past'[q][k].spoilt
        /\ Clean(past'[q][k]) => Clean(past[q][k])
    BY CountedBefore
  <2>2. StatusSame(q, k) BY DEF StatusesStay, StatusSame
  <2>3. StoredOnce(calls', rows', q, k)
    <3>1. CallsOf(calls', q, k, Ends) \subseteq CallsOf(calls, q, k, Ends) BY DEF CallsOf
    <3>2. QED BY <2>1, <3>1 DEF JobCounted, StoredOnce
  <2>4. JobCounted(past'[q][k], calls', rows', q, k)
    <3>1. CASE ~Clean(past'[q][k]) BY <2>3, <3>1 DEF JobCounted
    <3>2. CASE Clean(past'[q][k])
      <4>1. ~past'[q][k].spoilt BY <3>2 DEF Clean
      <4>2. ASSUME NEW S
            PROVE  CallsOf(calls', q, k, S) = CallsOf(calls, q, k, S)
        <5>1. \A c \in calls : c.printerId = q /\ c.job = k => c \in calls' BY <4>1
        <5>2. QED BY <5>1 DEF CallsOf
      <4>3. StoredSame(q, k) BY <4>2 DEF StoredSame
      <4>4. QED BY <2>1, <2>2, <4>3, JobStays
    <3>3. QED BY <3>1, <3>2
  <2>5. PrinterCounted(printer'[q], past'[q][k], contextCache'[q], calls', q, k)
    <3>1. EndsIn(calls', q) => EndsIn(calls, q) BY DEF EndsIn
    <3>2. Clean(past'[q][k]) /\ k = printer[q].job /\ printer[q].printing =>
            contextCache'[q] = contextCache[q]
      BY DEF Clean
    <3>3. QED BY <2>1, <2>2, <3>1, <3>2, PrinterStays
  <2>6. QED BY <2>4, <2>5 DEF CountedNext
<1>4. QED BY <1>2, <1>3 DEF AllCounted

LEMMA CountedStep == Shaped /\ Begun /\ Counted /\ [Next]_vars => Counted'
<1> SUFFICES ASSUME Shaped, Begun, Counted, [Next]_vars PROVE Counted' OBVIOUS
<1>1. mode' = mode BY PastGrows DEF Grows
<1>2. /\ mode \in Instances /\ rows \in Seq(Rows(mode)) /\ \A c \in calls : CallOK(mode, c)
  BY DEF Shaped
<1>3. SUFFICES AllCounted BY <1>1 DEF AllCounted, RowsCounted, CountedNext, Counted
<1>4. ASSUME NEW p \in mode.printers, Start(p)
      PROVE  AllCounted
  BY <1>4, CountedAtStart
<1>5. ASSUME NEW p \in mode.printers, NEW status \in Ends, End(p, status)
      PROVE  AllCounted
  BY <1>5, CountedAtEnd
<1>6. ASSUME NEW p \in mode.printers, NEW note \in Notes, Note(p, note)
      PROVE  AllCounted
  BY <1>6, CountedAtNote
<1>7. ASSUME NEW call \in calls, Inserted(call)
      PROVE  AllCounted
  BY <1>7, CountedAtInsertion
<1>8. CASE UNCHANGED <<printer, contextCache, rows, calls, past>>
  BY <1>8, CountedAtUpdate DEF SameRow
<1>9. ASSUME NEW call \in calls, Found(call)
      PROVE  AllCounted
  <2> DEFINE saving == [call EXCEPT !.at = "save"]
  <2>1. call.at = "find" /\ saving.at = "save"
    BY <1>2, <1>9, CallFacts, SavingFields DEF Found
  <2>2. \A c \in calls \cup calls' : c.at = "create" => c \in calls /\ c \in calls'
    BY <1>9, <2>1 DEF Found
  <2>3. UNCHANGED <<printer, contextCache, rows, past>> BY <1>9 DEF Found
  <2>4. DOMAIN rows' = DOMAIN rows /\ \A n \in DOMAIN rows : SameRow(rows'[n], rows[n])
    BY <2>3 DEF SameRow
  <2>5. QED BY <2>2, <2>3, <2>4, CountedAtUpdate
<1>10. ASSUME NEW call \in calls, Saved(call)
       PROVE  AllCounted
  <2>1. call.at = "save" /\ calls' = calls \ {call} /\ rows' = Updated(call.context.id, call.context)
    BY <1>10 DEF Saved
  <2>2. call.context \in Contexts(mode) BY <1>2, <2>1, CallFacts DEF UpdateOK
  <2>3. DOMAIN rows' = DOMAIN rows /\ \A n \in DOMAIN rows : SameRow(rows'[n], rows[n])
    BY <1>2, <2>1, <2>2, UpdatedRows DEF SameRow
  <2>4. UNCHANGED <<printer, contextCache, past>> BY <1>10 DEF Saved
  <2>5. QED BY <2>1, <2>3, <2>4, CountedAtUpdate
<1>11. StatusesStay \/ AllCounted BY <1>5, StatusElsewhere
<1>12. ASSUME NEW call \in calls, Failed(call)
       PROVE  AllCounted
  <2>1. FailStep(call) BY <1>12, Fails
  <2>2. call.printerId \in mode.printers /\ call.job \in 1..mode.jobs BY <1>2, CallFacts
  <2>3. /\ printer' = printer /\ contextCache' = contextCache /\ rows' = rows /\ calls' = calls \ {call}
        /\ past'[call.printerId][call.job].spoilt
    BY <2>1, <2>2, Zenon DEF FailStep
  <2>4. \A c \in calls : c \in calls' \/ past'[c.printerId][c.job].spoilt BY <2>3
  <2>5. QED BY <1>11, <2>3, <2>4, CountedWithout
<1>13. CASE Restart
  <2>1. RestartStep BY <1>13, Restarts
  <2>2. printer' = printer /\ rows' = rows /\ calls' = {} BY <2>1 DEF RestartStep
  <2>3. \A q \in mode.printers, k \in 1..mode.jobs :
          past'[q][k].spoilt <=> \/ past[q][k].spoilt
                                 \/ printer[q].printing /\ printer[q].job = k
                                 \/ \E call \in calls : call.printerId = q /\ call.job = k
    BY <2>1 DEF RestartStep
  <2>4. \A c \in calls : past'[c.printerId][c.job].spoilt
    <3>1. \A c \in calls : c.printerId \in mode.printers /\ c.job \in 1..mode.jobs
      BY <1>2, CallFacts
    <3>2. QED BY <2>3, <3>1, Zenon
  <2>5. \A q \in mode.printers : printer[q].printing =>
          \A k \in 1..mode.jobs : k = printer[q].job => past'[q][k].spoilt
    BY <2>3, Zenon
  <2>6. QED BY <1>11, <2>2, <2>4, <2>5, CountedWithout
<1>14. QED
  BY <1>4, <1>5, <1>6, <1>7, <1>8, <1>9, <1>10, <1>12, <1>13 DEF Next, Current, Listen, vars

LEMMA CountedInit == Init => Counted
<1> SUFFICES ASSUME Init PROVE Counted OBVIOUS
<1>1. /\ rows = <<>> /\ calls = {}
      /\ \A p \in mode.printers : printer[p].job = 0
      /\ \A p \in mode.printers, j \in 1..mode.jobs : past[p][j] = Unheard
  BY DEF Init
<1>2. ASSUME NEW p \in mode.printers, NEW j \in 1..mode.jobs
      PROVE  /\ JobCounted(past[p][j], calls, rows, p, j)
             /\ PrinterCounted(printer[p], past[p][j], contextCache[p], calls, p, j)
  <2>1. past[p][j].status = None /\ ~Clean(past[p][j]) BY <1>1 DEF Unheard, Clean
  <2>2. j > 0 /\ j # 0 /\ ~(j <= 0) OBVIOUS
  <2>3. StoredOnce(calls, rows, p, j) BY <1>1 DEF StoredOnce, RowsOf, CallsOf
  <2>4. QED BY <1>1, <2>1, <2>2, <2>3 DEF JobCounted, PrinterCounted
<1>3. QED BY <1>1, <1>2 DEF Counted

(***************************************************************************)
(* What the user is shown                                                  *)
(***************************************************************************)
\* The completions of a printer whose jobs were all heard from start to end: each is of one of
\* the jobs H, filed under it, with how it ended if it is of its end; every job has one, and one
\* of its end if it ended. ended[j] says how.
Complete(events, H, p, ended) ==
  /\ \A e \in events :
       /\ e.job \in H /\ e.job \in Nat /\ CorrelationId(e) = <<p, e.job>>
       /\ e.status \in Statuses
       /\ e.status \in Ends => e.status = ended[e.job]
       /\ e.createdAt = 2 * e.job + (IF e.status = "PrintStarted" THEN 0 ELSE 1)
  /\ \A e, f \in events : e.job = f.job /\ e.status \in Ends /\ f.status \in Ends => e = f
  /\ \A j \in H : \E e \in events : e.job = j
  /\ \A j \in H : ended[j] \in Ends => \E e \in events : e.job = j /\ e.status \in Ends

\* Each job is counted once.
LEMMA JobsAreCounted ==
  ASSUME NEW events, NEW H, IsFiniteSet(H), NEW p, NEW ended, Complete(events, H, p, ended)
  PROVE  LET ids == {CorrelationId(e) : e \in events}
         IN  ids = {<<p, j>> : j \in H} /\ Cardinality(ids) = Cardinality(H)
<1> DEFINE ids == {CorrelationId(e) : e \in events}
           f == [j \in H |-> <<p, j>>]
<1>1. ids = {<<p, j>> : j \in H}
  <2>1. \A e \in events : e.job \in H /\ CorrelationId(e) = <<p, e.job>> BY DEF Complete
  <2>2. \A j \in H : \E e \in events : e.job = j BY DEF Complete
  <2>3. QED BY <2>1, <2>2
<1>2. f \in [H -> ids] BY <1>1
<1>3. \A a, b \in H : f[a] = f[b] => a = b OBVIOUS
<1>4. \A id \in ids : \E j \in H : f[j] = id BY <1>1
<1> HIDE DEF f, ids
<1>5. f \in Bijection(H, ids)
  BY <1>2, <1>3, <1>4 DEF Bijection, Injection, Surjection, IsInjective
<1>6. ExistsBijection(H, ids) BY <1>5 DEF ExistsBijection
<1>7. Cardinality(ids) = Cardinality(H) BY <1>6, FS_Bijection
<1>8. QED BY <1>1, <1>7 DEF ids

\* And once more for how it ended.
LEMMA EndsAreCounted ==
  ASSUME NEW events, NEW H, IsFiniteSet(H), NEW p, NEW ended, Complete(events, H, p, ended),
         NEW s \in Ends
  PROVE  Cardinality({e \in events : e.status = s}) = Cardinality({j \in H : ended[j] = s})
<1> DEFINE S == {e \in events : e.status = s}
           T == {j \in H : ended[j] = s}
           f == [e \in S |-> e.job]
<1>1. f \in [S -> T]
  <2>1. \A e \in S : e.job \in T BY DEF Complete
  <2>2. QED BY <2>1
<1>2. \A a, b \in S : f[a] = f[b] => a = b BY DEF Complete
<1>3. \A j \in T : \E e \in S : f[e] = j
  <2> TAKE j \in T
  <2>1. PICK e \in events : e.job = j /\ e.status \in Ends BY DEF Complete
  <2>2. e.status = s BY <2>1 DEF Complete
  <2>3. QED BY <2>1, <2>2
<1>4. IsFiniteSet(T) BY FS_Subset
<1> HIDE DEF f, S, T
<1>5. f \in Bijection(S, T)
  BY <1>1, <1>2, <1>3 DEF Bijection, Injection, Surjection, IsInjective
<1>6. ExistsBijection(T, S) BY <1>5, Fun_ExistsBijSymmetric DEF ExistsBijection
<1>7. Cardinality(S) = Cardinality(T) BY <1>4, <1>6, FS_Bijection
<1>8. QED BY <1>7 DEF S, T

\* The last completion of a job that ended is of its end.
LEMMA LastIsEnd ==
  ASSUME NEW events, NEW H, NEW p, NEW ended, Complete(events, H, p, ended),
         NEW j \in H, ended[j] \in Ends
  PROVE  LatestOf({e \in events : CorrelationId(e) = <<p, j>>}).status = ended[j]
<1> DEFINE own == {e \in events : CorrelationId(e) = <<p, j>>}
<1>1. \A e \in own : e \in events /\ e.job = j /\ e.job \in Nat BY DEF Complete
<1>2. PICK z \in events : z.job = j /\ z.status \in Ends BY DEF Complete
<1>3. z \in own BY <1>2 DEF Complete
<1>4. \A e \in own : e.createdAt = 2 * j + (IF e.status = "PrintStarted" THEN 0 ELSE 1)
  BY <1>1 DEF Complete
<1>5. z.createdAt = 2 * j + 1 /\ j \in Nat BY <1>1, <1>2, <1>3, <1>4 DEF Ends
<1>6. \A e \in own : e.createdAt <= z.createdAt BY <1>4, <1>5
<1> HIDE DEF own
<1> DEFINE m == CHOOSE e \in own : \A f \in own : f.createdAt <= e.createdAt
<1>7. m \in own /\ \A f \in own : f.createdAt <= m.createdAt BY <1>3, <1>6
<1>8. LatestOf(own) = m BY <1>3 DEF LatestOf
<1> HIDE DEF m
<1>9. m.status # "PrintStarted" BY <1>3, <1>4, <1>5, <1>7
<1>10. m.status \in Ends BY <1>1, <1>7, <1>9 DEF Complete, Statuses
<1>11. m.status = ended[j] BY <1>1, <1>7, <1>10 DEF Complete
<1>12. QED BY <1>8, <1>11 DEF own

\* Each of the jobs H counted once, with how it ended.
Agrees(shown, H, p, ended) ==
  /\ shown.printCount = Cardinality(H)
  /\ shown.successCount = Cardinality({j \in H : ended[j] = "PrintDone"})
  /\ shown.failureCount = Cardinality({j \in H : ended[j] = "PrintFailed"})
  /\ \A j \in H : ended[j] \in Ends => shown.printJobs[<<p, j>>].status = ended[j]

\* The statistics of complete events.
LEMMA StatisticsOfComplete ==
  ASSUME NEW events, NEW H, IsFiniteSet(H), NEW p, NEW ended, Complete(events, H, p, ended)
  PROVE  Agrees(ProcessCompletions(events), H, p, ended)
<1> DEFINE ids == {CorrelationId(e) : e \in events}
           shown == ProcessCompletions(events)
<1>1. /\ shown.printCount = Cardinality(ids)
      /\ shown.successCount = Cardinality({e \in events : e.status = "PrintDone"})
      /\ shown.failureCount = Cardinality({e \in events : e.status = "PrintFailed"})
      /\ shown.printJobs = [id \in ids |-> LatestOf({e \in events : CorrelationId(e) = id})]
  BY DEF ProcessCompletions
<1>2. ids = {<<p, j>> : j \in H} /\ Cardinality(ids) = Cardinality(H) BY JobsAreCounted
<1>3. ASSUME NEW j \in H, ended[j] \in Ends
      PROVE  shown.printJobs[<<p, j>>].status = ended[j]
  <2>1. <<p, j>> \in ids BY <1>2
  <2>2. shown.printJobs[<<p, j>>] = LatestOf({e \in events : CorrelationId(e) = <<p, j>>})
    BY <1>1, <2>1
  <2>3. QED BY <1>3, <2>2, LastIsEnd
<1>4. "PrintDone" \in Ends /\ "PrintFailed" \in Ends BY DEF Ends
<1> HIDE DEF shown, ids
<1>5. /\ shown.successCount = Cardinality({j \in H : ended[j] = "PrintDone"})
      /\ shown.failureCount = Cardinality({j \in H : ended[j] = "PrintFailed"})
  BY <1>1, <1>4, EndsAreCounted
<1>6. QED BY <1>1, <1>2, <1>3, <1>5 DEF shown, Agrees

\* The jobs of a printer of which something was heard while they lasted.
HeardJobs(p) == {j \in 1..mode.jobs : past[p][j].heard \ {"later"} # {}}

EventsOf(p) == {e \in Listed : e.printerId = p}

EndedAs(p) == [j \in HeardJobs(p) |-> past[p][j].status]

\* The jobs of a printer that were heard and are not spoilt were heard from their starts on.
LEMMA HeardAreClean ==
  ASSUME Begun, Counted, Shaped, NEW p \in mode.printers, NEW j \in HeardJobs(p), ~past[p][j].spoilt
  PROVE  j \in 1..mode.jobs /\ Clean(past[p][j])
<1>1. j \in 1..mode.jobs /\ past[p][j].heard # {} BY DEF HeardJobs
<1>2. j <= printer[p].job BY <1>1, JobsAreNumbers DEF Begun, NothingOf
<1>3. PrinterCounted(printer[p], past[p][j], contextCache[p], calls, p, j)
  BY <1>1 DEF Counted
<1>4. QED BY <1>1, <1>2, <1>3 DEF PrinterCounted, Clean

\* When no command is awaited and all completions are listed, those of a printer with no spoilt
\* job are complete.
LEMMA EventsAreComplete ==
  ASSUME Invariant, Counted, calls = {}, mode.db = "sqlite" => Len(rows) <= PageSize,
         NEW p \in mode.printers, \A j \in HeardJobs(p) : ~past[p][j].spoilt
  PROVE  Complete(EventsOf(p), HeardJobs(p), p, EndedAs(p))
<1> DEFINE H == HeardJobs(p)
           events == EventsOf(p)
<1>1. /\ Shaped /\ Begun /\ Filed /\ mode \in Instances /\ rows \in Seq(Rows(mode))
      /\ mode.jobs \in Nat
  BY JobsAreNumbers DEF Invariant, Shaped
<1>2. Listed = {rows[n] : n \in DOMAIN rows}
  <2>1. CASE mode.db = "mongo" BY <2>1 DEF Listed
  <2>2. CASE mode.db # "mongo"
    <3>1. mode.db = "sqlite" BY <1>1, <2>2, InstancesAreValid
    <3>2. {k \in DOMAIN rows : k <= PageSize} = DOMAIN rows
      <4>1. Len(rows) <= PageSize /\ PageSize \in Nat /\ Len(rows) \in Nat /\ DOMAIN rows = 1..Len(rows)
        BY <1>1, <3>1, PageIsNotEmpty
      <4>2. QED BY <4>1
    <3>3. QED BY <2>2, <3>2 DEF Listed
  <2>3. QED BY <2>1, <2>2
<1>3. ASSUME NEW n \in DOMAIN rows, rows[n].printerId = p
      PROVE  /\ rows[n].job \in H /\ rows[n].job \in Nat /\ CorrelationId(rows[n]) = <<p, rows[n].job>>
             /\ rows[n].status \in Statuses
             /\ rows[n].status \in Ends => rows[n].status = EndedAs(p)[rows[n].job]
             /\ rows[n].createdAt = 2 * rows[n].job + (IF rows[n].status = "PrintStarted" THEN 0 ELSE 1)
  <2> DEFINE r == rows[n]
             j == r.job
  <2>1. r \in Rows(mode) BY <1>1
  <2>2. /\ r.status \in Statuses /\ j \in 1..mode.jobs /\ r.printerId = p
        /\ r.createdAt = 2 * j + (IF r.status = "PrintStarted" THEN 0 ELSE 1)
    BY <1>3, <2>1 DEF Rows
  <2>3. RowCounted(past, r) /\ RowFiled(past, r) BY <1>1 DEF Counted, Filed
  <2> HIDE DEF r
  <2>4. "start" \in past[p][j].heard \/ "end" \in past[p][j].heard
    BY <2>2, <2>3 DEF RowCounted, Statuses
  <2>5. j \in H BY <2>2, <2>4 DEF HeardJobs
  <2>6. Clean(past[p][j]) BY <1>1, <2>5, HeardAreClean
  <2>7. CorrelationId(r) # None BY <2>2, <2>3, <2>6 DEF RowCounted
  <2>8. CorrelationId(r) = <<p, j>> BY <2>2, <2>3, <2>6, <2>7 DEF RowFiled, NotMixed, Clean
  <2>9. r.status \in Ends => r.status = EndedAs(p)[j]
    BY <2>2, <2>3, <2>5 DEF RowCounted, EndedAs
  <2>10. j \in Nat BY <1>1, <2>2
  <2>11. QED BY <2>2, <2>5, <2>8, <2>9, <2>10 DEF r
<1>4. \A e \in events : \E n \in DOMAIN rows : e = rows[n] /\ rows[n].printerId = p
  BY <1>2 DEF EventsOf
<1>5. \A n \in DOMAIN rows : rows[n].printerId = p => rows[n] \in events
  BY <1>2 DEF EventsOf
<1>6. ASSUME NEW e \in events
      PROVE  /\ e.job \in H /\ e.job \in Nat /\ CorrelationId(e) = <<p, e.job>>
             /\ e.status \in Statuses
             /\ e.status \in Ends => e.status = EndedAs(p)[e.job]
             /\ e.createdAt = 2 * e.job + (IF e.status = "PrintStarted" THEN 0 ELSE 1)
  <2>1. PICK n \in DOMAIN rows : e = rows[n] /\ rows[n].printerId = p BY <1>4
  <2>2. QED BY <1>3, <2>1
<1>7. ASSUME NEW e \in events, NEW f \in events, e.job = f.job, e.status \in Ends, f.status \in Ends
      PROVE  e = f
  <2>1. PICK m \in DOMAIN rows : e = rows[m] /\ rows[m].printerId = p BY <1>4
  <2>2. PICK n \in DOMAIN rows : f = rows[n] /\ rows[n].printerId = p BY <1>4
  <2>3. m \in RowsOf(rows, p, e.job, Ends) /\ n \in RowsOf(rows, p, e.job, Ends)
    BY <1>7, <2>1, <2>2 DEF RowsOf
  <2>4. e.job \in 1..mode.jobs BY <1>6 DEF HeardJobs
  <2>5. StoredOnce(calls, rows, p, e.job) BY <2>4 DEF Counted, JobCounted
  <2>6. m = n BY <2>3, <2>5 DEF StoredOnce
  <2>7. QED BY <2>1, <2>2, <2>6
<1>8. ASSUME NEW j \in H
      PROVE  /\ \E e \in events : e.job = j
             /\ EndedAs(p)[j] \in Ends => \E e \in events : e.job = j /\ e.status \in Ends
  <2>1. j \in 1..mode.jobs /\ Clean(past[p][j]) BY <1>1, HeardAreClean
  <2>2. JobCounted(past[p][j], calls, rows, p, j) BY <2>1 DEF Counted
  <2>3. \A S : Recording(calls, rows, p, j, S) => RowsOf(rows, p, j, S) # {}
    BY DEF Recording, CallsOf
  <2>4. \A S : RowsOf(rows, p, j, S) # {} => \E e \in events : e.job = j /\ e.status \in S
    BY <1>5 DEF RowsOf
  <2>5. EndedAs(p)[j] = past[p][j].status BY DEF EndedAs
  <2>6. QED BY <2>1, <2>2, <2>3, <2>4, <2>5 DEF JobCounted
<1> HIDE DEF H, events
<1>9. Complete(events, H, p, EndedAs(p)) BY <1>6, <1>7, <1>8 DEF Complete
<1>10. QED BY <1>9 DEF H, events

\* The jobs heard are finitely many.
LEMMA HeardIsFinite ==
  ASSUME Shaped, NEW p
  PROVE  IsFiniteSet(HeardJobs(p))
<1>1. IsFiniteSet(1..mode.jobs) BY JobsAreNumbers, FS_Interval
<1>2. HeardJobs(p) \subseteq 1..mode.jobs BY DEF HeardJobs
<1>3. QED BY <1>1, <1>2, FS_Subset

\* What the user is shown of a printer, when no command is awaited and all completions are
\* listed, agrees with the printer's jobs: each that was heard from start to end is counted
\* once, with how it ended, if none of its jobs is spoilt (listGroupByPrinterStatus of
\* print-completion.service.ts with processCompletions).
THEOREM StatisticsAgree == Spec => []StatsAgree
<1>1. Init => Invariant /\ Counted
  BY ShapedInit, BegunInit, FiledInit, CountedInit DEF Invariant
<1>2. Invariant /\ Counted /\ [Next]_vars => Invariant' /\ Counted'
  BY ShapedNext, BegunNext, FiledNext, ContextsNext, CountedStep DEF Invariant
<1>3. Invariant /\ Counted => StatsAgree
  <2> SUFFICES ASSUME Invariant, Counted, calls = {}, mode.db = "sqlite" => Len(rows) <= PageSize,
                      NEW p \in mode.printers, \A j \in HeardJobs(p) : ~past[p][j].spoilt
               PROVE  LET H == HeardJobs(p)
                          ended(s) == {j \in H : past[p][j].status = s}
                          shown == Shown(p)
                      IN  /\ shown.printCount = Cardinality(H)
                          /\ shown.successCount = Cardinality(ended("PrintDone"))
                          /\ shown.failureCount = Cardinality(ended("PrintFailed"))
                          /\ \A s \in Ends : \A j \in ended(s) : shown.printJobs[<<p, j>>].status = s
    BY DEF StatsAgree, HeardJobs
  <2> DEFINE H == HeardJobs(p)
             as == EndedAs(p)
             events == EventsOf(p)
  <2>1. Complete(events, H, p, as) BY EventsAreComplete
  <2>2. IsFiniteSet(H) BY HeardIsFinite DEF Invariant
  <2>3. \A j \in H : as[j] = past[p][j].status BY DEF EndedAs
  <2>4. Shown(p) = ProcessCompletions(events) BY DEF Shown, EventsOf
  <2> HIDE DEF H, as, events
  <2> DEFINE shown == ProcessCompletions(events)
  <2>5. /\ shown.printCount = Cardinality(H)
        /\ shown.successCount = Cardinality({j \in H : as[j] = "PrintDone"})
        /\ shown.failureCount = Cardinality({j \in H : as[j] = "PrintFailed"})
        /\ \A j \in H : as[j] \in Ends => shown.printJobs[<<p, j>>].status = as[j]
    <3>1. Agrees(shown, H, p, as) BY <2>1, <2>2, StatisticsOfComplete
    <3>2. QED BY <3>1 DEF Agrees
  <2> HIDE DEF shown
  <2>6. \A s : {j \in H : as[j] = s} = {j \in H : past[p][j].status = s} BY <2>3
  <2>7. \A s \in Ends : \A j \in H : past[p][j].status = s => shown.printJobs[<<p, j>>].status = s
    BY <2>3, <2>5
  <2>8. Shown(p) = shown BY <2>4 DEF shown
  <2>9. QED BY <2>5, <2>6, <2>7, <2>8 DEF H
<1>4. QED BY <1>1, <1>2, <1>3, PTL DEF Spec
=============================================================================
