---------------------------- MODULE PrinterFiles ----------------------------
(***************************************************************************)
(* The files of the printers: printer-files.store.ts, the requests of      *)
(* printer-files.controller.ts, the clean-up of printer-file-clean.task.ts *)
(* and the thumbnails, with the printers they ask. An action is everything *)
(* that runs between two waits for a printer or the disk of the server; a  *)
(* printer acts on a request some time before its answer is handled. The   *)
(* uploads are followed by file-upload-tracker.cache.ts.                   *)
(***************************************************************************)
EXTENDS Thumbnails, Naturals, FiniteSets

CONSTANTS
  Slots,    \* requests and tasks under way at once, a bound
  Sessions, \* sessions of uploads, under way or left behind, a bound
  Order,    \* the place of each printer in the lists
  Clients   \* [type: of the printers; ops: the requests; printers, files: those in use;
            \*  settings: of the clean-up, "atBoot", "beforeUpload" and "zeroDays"; slots: at once;
            \*  disturbances: which happen; budget: how many of them, a bound]

Ops == {"list", "delete", "clear", "upload", "reload", "print"}

ASSUME OrderIsTotal ==
  /\ Order \in [Printers -> Nat]
  /\ \A ps \in SUBSET Printers : ps # {} => \E p \in ps : \A r \in ps \ {p} : Order[p] < Order[r]

ASSUME NoneIsNoValue ==
  /\ None \notin {"ok", "failed", "old", "recent", "empty", "boot", "clean"} \cup Ops
  /\ None \notin Files \cup Printers \cup (1..Sessions)
  /\ "empty" \notin Files

ASSUME BoundsAreFinite == Sessions \in Nat /\ IsFiniteSet(Slots)

ASSUME ClientsAreValid == \A c \in Clients :
  /\ c.printers \subseteq Printers /\ c.printers # {}
  /\ c.files \subseteq Files
  /\ c.slots \subseteq Slots /\ c.slots # {}
  /\ c.budget \in Nat

VARIABLES
  mode,      \* the client
  printers,  \* the printers of the printer cache
  disk,      \* the files on the printers
  cache,     \* printerFileStorage
  support,   \* experimentalThumbnailSupport
  data,      \* the thumbnail files
  thumbs,    \* the cached thumbnails
  due,       \* whether the clean-up task has still to run
  req,       \* the requests and tasks under way
  currentUploads, \* correlation tokens of the sessions listed as current
  left,      \* how many disturbances may still happen
  doubt,     \* printers whose cached list may be wrong, see Bookkeeping
  tangled,   \* printers whose thumbnail may be wrong, see Bookkeeping
  unloaded,  \* printers that loadCache left out, see Bookkeeping
  alone      \* requests that had their printer to themselves, see Bookkeeping

vars == <<mode, printers, disk, cache, support, data, thumbs, due, req, currentUploads,
          left, doubt, tangled, unloaded, alone>>

\* The awaited calls: loadFiles on its own ("load"), after a clean-up ("relist") or an
\* upload ("finish"), getFiles of clear ("scan"), the other requests to a printer, and
\* the reading of G-code ("extract") and writeFile ("write", then "opened").
Listings == {"load", "relist", "finish", "scan"}
FileCalls == Listings \cup {"delete", "upload"}
ThumbnailCalls == {"extract", "write", "opened"}

Idle == [op |-> None, p |-> None, f |-> None, pc |-> "idle", todo |-> {}, queue |-> {},
         all |-> {}, answer |-> None, listing |-> None, image |-> None, token |-> None]

Request == [op : Ops \cup {"boot", "clean", None}, p : Printers \cup {None},
            f : Files \cup {None},
            pc : FileCalls \cup ThumbnailCalls \cup {"start", "idle"},
            todo : SUBSET Files, queue : SUBSET Printers, all : SUBSET Printers,
            answer : {None, "ok", "failed"}, listing : Listing \cup {None}, image : Image,
            token : (1..Sessions) \cup {None}]

Existing == {p \in Printers : printers[p] \in {"enabled", "disabled"}}
Listed(states) == {p \in Printers : printers[p] \in states}

\* A loop over printers: the first of those left, and those after it.
First(ps) == CHOOSE p \in ps : \A r \in ps \ {p} : Order[p] < Order[r]
After(ps, p) == {r \in ps : Order[p] < Order[r]}

Ask(q, pc) == [q EXCEPT !.pc = pc, !.answer = None, !.listing = None]

\* startTrackingSession, then uploadFile: its events find the session by its token as long as
\* the tracker listens to them.
NewToken == CHOOSE t \in (1..Sessions) \ currentUploads : TRUE
Send(q) == [Ask(q, "upload") EXCEPT !.token = NewToken]

\* loadFiles asks for the login of the printer first.
LoadFiles(q, p, pc) ==
  [Ask([q EXCEPT !.p = p], pc) EXCEPT !.answer = IF p \in Existing THEN None ELSE "failed"]

\* The process has just started: the boot lists the files of all printers.
Booting(ps) ==
  Ask([Idle EXCEPT !.op = "boot", !.p = First(ps), !.queue = After(ps, First(ps))], "load")

Init ==
  /\ mode \in Clients
  /\ printers = [p \in Printers |-> IF p \in mode.printers THEN "enabled" ELSE "deleted"]
  /\ disk \in {d \in [Printers -> Listing] :
       \A p \in Printers : Names(d[p]) \subseteq IF p \in mode.printers THEN mode.files ELSE {}}
  /\ cache = [p \in Printers |-> None]
  /\ support = TRUE
  /\ data = NoThumbnails /\ thumbs = NoThumbnails
  /\ due = TRUE
  /\ req = [[s \in Slots |-> Idle] EXCEPT
              ![CHOOSE s \in mode.slots : TRUE] = Booting(Listed({"enabled"}))]
  /\ currentUploads = {}
  /\ left = mode.budget
  /\ doubt = {} /\ tangled = {} /\ unloaded = {} /\ alone = {}

Spend(d) == d \in mode.disturbances /\ left > 0 /\ left' = left - 1

Serving == \A s \in Slots : req[s].op # "boot"

---------------------------------------------------------------------------
(* Requests and tasks begin                                                *)

\* Request s, or task, is q now.
Becomes(s, q) == req' = [req EXCEPT ![s] = q]

\* deleteOutdatedFiles of printer q.p, whose cached list is in c, and the listing after
\* it: an error ends the request, or the whole run of the task.
CleanPrinterFiles(q, c) ==
  LET outdated == GetOutdatedFiles(c, q.p) IN
  IF q.p \notin Existing \/ "zeroDays" \in mode.settings THEN Idle
  ELSE IF outdated = {} THEN LoadFiles(q, q.p, "relist")
  ELSE Ask([q EXCEPT !.todo = outdated], "delete")

\* uploadPrinterFile after the thumbnail; nothing follows the other loads of one.
AfterThumbnail(q) ==
  IF q.op # "upload" THEN Idle
  ELSE IF "beforeUpload" \in mode.settings THEN CleanPrinterFiles(q, cache) ELSE Send(q)

Begin(s, op, p, q) ==
  /\ op \in mode.ops /\ s \in mode.slots /\ req[s] = Idle
  /\ p \in Existing /\ Serving
  /\ Becomes(s, q)
  /\ UNCHANGED <<mode, printers, disk, cache, support, data, thumbs, due, left>>

Of(op, p, f) == [Idle EXCEPT !.op = op, !.p = p, !.f = f]

GetFiles(s, p) == Begin(s, "list", p, LoadFiles(Of("list", p, None), p, "load"))

DeleteFileOrFolder(s, p, f) ==
  Begin(s, "delete", p, Ask([Of("delete", p, f) EXCEPT !.todo = {f}], "delete"))

ClearPrinterFiles(s, p) == Begin(s, "clear", p, Ask(Of("clear", p, None), "scan"))

UploadPrinterFile(s, p, f) ==
  LET q == Of("upload", p, f)
      uploads == {r \in Slots : req[r].op = "upload"}
  IN
  /\ Cardinality(currentUploads) + Cardinality(uploads) < Sessions
  /\ Begin(s, "upload", p, IF support THEN Ask(q, "extract") ELSE AfterThumbnail(q))

ReloadThumbnail(s, p, f) ==
  support /\ Begin(s, "reload", p, Ask(Of("reload", p, f), "extract"))

StartPrintFile(s, p, f) == Begin(s, "print", p, Ask(Of("print", p, f), "start"))

\* POST /purge
PurgeFiles ==
  /\ Serving
  /\ cache' = [p \in Printers |-> IF printers[p] = "enabled" THEN None ELSE cache[p]]
  /\ UNCHANGED <<mode, printers, disk, support, data, thumbs, due, req, left>>

\* PrinterFileCleanTask.run, once, a minute after the boot.
CleanTaskRuns(s) ==
  LET ps == Listed({"enabled"}) IN
  /\ due /\ Serving /\ s \in mode.slots /\ req[s] = Idle
  /\ due' = FALSE
  /\ Becomes(s, IF ps = {} THEN Idle
                ELSE LoadFiles([Idle EXCEPT !.op = "clean", !.queue = After(ps, First(ps)),
                                            !.all = ps], First(ps), "load"))
  /\ UNCHANGED <<mode, printers, disk, cache, support, data, thumbs, left>>

---------------------------------------------------------------------------
(* The printers act, and the disk of the server                            *)

Acted(s, answer) == req' = [req EXCEPT ![s].answer = answer]

\* The request never reached the printer, or the printer refused it.
CallFails(s) ==
  /\ req[s].pc \in Listings \cup {"upload", "start"} /\ req[s].answer = None
  /\ Spend("fault")
  /\ Acted(s, "failed")
  /\ UNCHANGED <<mode, printers, disk, cache, support, data, thumbs, due>>

PrinterLists(s) ==
  /\ req[s].pc \in Listings /\ req[s].answer = None
  /\ req' = [req EXCEPT ![s].answer = "ok", ![s].listing = disk[req[s].p]]
  /\ UNCHANGED <<mode, printers, disk, cache, support, data, thumbs, due, left>>

\* The answer to a request that changed the printer, which may be lost.
Answer(s) == \/ Acted(s, "ok") /\ left' = left
             \/ Acted(s, "failed") /\ Spend("fault")

\* One of the files still to be deleted; a file that is not there is an error.
PrinterDeletes(s) == LET q == req[s] IN
  /\ q.pc = "delete" /\ q.answer = None
  /\ \E f \in q.todo, answer \in {"ok", "failed"} :
       /\ disk[q.p][f] = None => answer = "failed"
       /\ disk' = [disk EXCEPT ![q.p][f] = None]
       /\ Becomes(s, [q EXCEPT !.answer = answer, !.todo = @ \ {f}])
       /\ IF answer = "failed" /\ disk[q.p][f] # None THEN Spend("fault") ELSE left' = left
  /\ UNCHANGED <<mode, printers, cache, support, data, thumbs, due>>

\* A request to delete that does not reach the printer.
DeleteFails(s) == LET q == req[s] IN
  /\ q.pc = "delete" /\ q.answer = None
  /\ Spend("fault")
  /\ \E f \in q.todo : Becomes(s, [q EXCEPT !.answer = "failed", !.todo = @ \ {f}])
  /\ UNCHANGED <<mode, printers, disk, cache, support, data, thumbs, due>>

\* OctoPrint: the last progress event, which the tracker takes for the end.
UploadSent(s) ==
  /\ req[s].pc = "upload" /\ req[s].answer = None
  /\ mode.type = "octoprint" /\ req[s].token # None
  /\ req' = [req EXCEPT ![s].token = None]
  /\ UNCHANGED <<mode, printers, disk, cache, support, data, thumbs, due, left>>

\* The request to Moonraker has a URL without a host: it is never sent.
UploadNotSent(s) ==
  /\ req[s].pc = "upload" /\ req[s].answer = None
  /\ mode.type = "moonraker"
  /\ Acted(s, "failed")
  /\ UNCHANGED <<mode, printers, disk, cache, support, data, thumbs, due, left>>

PrinterStores(s) ==
  /\ req[s].pc = "upload" /\ req[s].answer = None
  /\ mode.type = "octoprint" /\ req[s].token = None
  /\ disk' = [disk EXCEPT ![req[s].p][req[s].f] = "recent"]
  /\ Answer(s)
  /\ UNCHANGED <<mode, printers, cache, support, data, thumbs, due>>

PrinterStarts(s) == LET q == req[s] IN
  /\ q.pc = "start" /\ q.answer = None
  /\ Acted(s, IF disk[q.p][q.f] = None THEN "failed" ELSE "ok")
  /\ UNCHANGED <<mode, printers, disk, cache, support, data, thumbs, due, left>>

\* The G-code is read, from the upload or from the printer, and searched.
Extracted(s) == LET q == req[s] IN
  /\ q.pc = "extract" /\ q.answer = None
  /\ \/ Acted(s, "failed")
     \/ /\ q.op = "upload" \/ disk[q.p][q.f] # None
        /\ \E image \in IF q.op = "upload" THEN LocalImages(q.f) ELSE RemoteImages(q.f) :
             Becomes(s, [q EXCEPT !.answer = "ok", !.image = image])
  /\ UNCHANGED <<mode, printers, disk, cache, support, data, thumbs, due, left>>

\* writeFile empties the file when it opens it.
ThumbnailOpened(s) ==
  /\ req[s].pc = "write" /\ req[s].answer = None
  /\ Becomes(s, Ask(req[s], "opened"))
  /\ data' = SetThumbnail(data, req[s].p, "empty")
  /\ UNCHANGED <<mode, printers, disk, cache, support, thumbs, due, left>>

ThumbnailWritten(s) == LET q == req[s] IN
  /\ q.pc = "opened" /\ q.answer = None
  /\ Acted(s, "ok")
  /\ \E image \in Filled(data[q.p], q.image) : data' = SetThumbnail(data, q.p, image)
  /\ UNCHANGED <<mode, printers, disk, cache, support, thumbs, due, left>>

WriteFails(s) ==
  /\ req[s].pc \in {"write", "opened"} /\ req[s].answer = None
  /\ Spend("fault")
  /\ Acted(s, "failed")
  /\ UNCHANGED <<mode, printers, disk, cache, support, data, thumbs, due>>

---------------------------------------------------------------------------
(* Answers                                                                 *)

\* MUTANT of CleanNext: the requests go to the printer asked before.
CleanNextSharedApi(q, ps, c) ==
  LET old == {p \in ps : GetOutdatedFiles(c, p) # {}} IN
  IF "atBoot" \notin mode.settings \/ old = {} THEN Idle
  ELSE [CleanPrinterFiles([q EXCEPT !.p = First(old), !.queue = After(ps, First(old))], c)
          EXCEPT !.p = q.p]

\* The second loop of the task: the first of these printers with outdated files.
CleanNext(q, ps, c) ==
  LET old == {p \in ps : GetOutdatedFiles(c, p) # {}} IN
  IF "atBoot" \notin mode.settings \/ old = {} THEN Idle
  ELSE CleanPrinterFiles([q EXCEPT !.p = First(old), !.queue = After(ps, First(old))], c)

\* What follows a listing, with the cache c it left. The boot and the task go on when
\* a printer fails to list its files, unless it was after a clean-up.
AfterListing(q, c) ==
  CASE q.pc = "load" /\ q.queue # {} ->
         LoadFiles([q EXCEPT !.queue = After(@, First(@))], First(q.queue), "load")
    [] q.pc = "load" /\ q.queue = {} /\ q.op = "clean" -> CleanNext(q, q.all, c)
    [] q.pc = "relist" /\ q.answer = "ok" ->
         IF q.op = "upload" THEN Send(q) ELSE CleanNext(q, q.queue, c)
    [] OTHER -> Idle

ListingAnswered(s) == LET q == req[s] IN
  /\ q.pc \in {"load", "relist", "finish"} /\ q.answer # None
  /\ cache' = IF q.answer = "ok" THEN CachePrinterFiles(cache, q.p, q.listing) ELSE cache
  /\ Becomes(s, AfterListing(q, cache'))
  /\ thumbs' = IF req'[s] = Idle /\ q.op = "boot" /\ support
               THEN LoadCache(data, Listed({"enabled"})) ELSE thumbs
  /\ UNCHANGED <<mode, printers, disk, support, data, due, left>>

\* MUTANT of DeletedCache: the file is purged whether or not it was deleted.
DeletedCacheAnyway(q) ==
  CASE q.op = "delete" -> PurgeFile(cache, q.p, q.f)
    [] q.op = "clear" /\ q.todo = {} /\ q.p \in Existing -> PurgePrinterId(cache, q.p)
    [] OTHER -> cache

\* The cache after a request to delete that ended as q says.
DeletedCache(q) ==
  CASE q.op = "delete" /\ q.answer = "ok" -> PurgeFile(cache, q.p, q.f)
    [] q.op = "clear" /\ q.todo = {} /\ q.p \in Existing -> PurgePrinterId(cache, q.p)
    [] OTHER -> cache

\* The loops collect failures and go on.
DeleteAnswered(s) == LET q == req[s] IN
  /\ q.pc = "delete" /\ q.answer # None
  /\ cache' = DeletedCache(q)
  /\ Becomes(s, CASE q.todo # {} -> Ask(q, "delete")
                  [] q.todo = {} /\ q.op \in {"upload", "clean"} -> LoadFiles(q, q.p, "relist")
                  [] OTHER -> Idle)
  /\ UNCHANGED <<mode, printers, disk, support, data, thumbs, due, left>>

ScanAnswered(s) ==
  LET q == req[s]
      names == IF q.answer = "ok" THEN Names(q.listing) ELSE {}
  IN  /\ q.pc = "scan" /\ q.answer # None
      /\ cache' = IF q.answer = "ok" THEN DeletedCache([q EXCEPT !.todo = names]) ELSE cache
      /\ Becomes(s, IF names = {} THEN Idle ELSE Ask([q EXCEPT !.todo = names], "delete"))
      /\ UNCHANGED <<mode, printers, disk, support, data, thumbs, due, left>>

UploadAnswered(s) == LET q == req[s] IN
  /\ q.pc = "upload" /\ q.answer # None
  /\ Becomes(s, IF q.answer = "ok" THEN LoadFiles(q, q.p, "finish") ELSE Idle)
  /\ UNCHANGED <<mode, printers, disk, cache, support, data, thumbs, due, left>>

StartAnswered(s) == LET q == req[s] IN
  /\ q.pc = "start" /\ q.answer # None
  /\ Becomes(s, IF q.answer = "ok" /\ support THEN Ask(q, "extract") ELSE Idle)
  /\ UNCHANGED <<mode, printers, disk, cache, support, data, thumbs, due, left>>

\* MUTANT of Cleared: only the cached thumbnail is removed.
ClearedInMemory(p) == data' = data /\ thumbs' = Removed(thumbs, p)

Cleared(p) == data' = Removed(data, p) /\ thumbs' = Removed(thumbs, p)

\* No text removes the thumbnail and is then stored in its place.
ExtractAnswered(s) == LET q == req[s] IN
  /\ q.pc = "extract" /\ q.answer # None
  /\ IF q.answer = "ok" /\ q.image # "empty"
     THEN Becomes(s, Ask(q, "write")) /\ UNCHANGED <<data, thumbs>>
     ELSE /\ Becomes(s, AfterThumbnail(q))
          /\ IF q.answer = "failed" THEN Cleared(q.p)
             ELSE data' = Removed(data, q.p) /\ thumbs' = SetThumbnail(thumbs, q.p, "empty")
  /\ UNCHANGED <<mode, printers, disk, cache, support, due, left>>

WriteAnswered(s) == LET q == req[s] IN
  /\ q.pc \in {"write", "opened"} /\ q.answer # None
  /\ Becomes(s, AfterThumbnail(q))
  /\ IF q.answer = "ok" THEN data' = data /\ thumbs' = SetThumbnail(thumbs, q.p, q.image)
     ELSE Cleared(q.p)
  /\ UNCHANGED <<mode, printers, disk, cache, support, due, left>>

---------------------------------------------------------------------------
(* What else happens                                                       *)

\* Somebody stores or removes a file at the printer itself.
ForeignChange(p) ==
  /\ p \in mode.printers
  /\ Spend("foreign")
  /\ \E f \in mode.files, d \in {"old", "recent", None} : disk' = [disk EXCEPT ![p][f] = d]
  /\ UNCHANGED <<mode, printers, cache, support, data, thumbs, due, req>>

SetEnabled(p, state) ==
  /\ p \in Existing /\ state # printers[p]
  /\ Spend("disable")
  /\ printers' = [printers EXCEPT ![p] = state]
  /\ UNCHANGED <<mode, disk, cache, support, data, thumbs, due, req>>

\* handlePrintersDeleted: the file cache is not told.
PrintersDeleted(p) ==
  /\ p \in Existing
  /\ Spend("delete")
  /\ printers' = [printers EXCEPT ![p] = "deleted"]
  /\ IF support THEN Cleared(p) ELSE UNCHANGED <<data, thumbs>>
  /\ UNCHANGED <<mode, disk, cache, support, due, req>>

UpdateThumbnailSupport(enabled) ==
  /\ Serving
  /\ Spend("support")
  /\ support' = enabled
  /\ thumbs' = IF enabled THEN LoadCache(data, Listed({"enabled"})) ELSE NoThumbnails
  /\ UNCHANGED <<mode, printers, disk, cache, data, due, req>>

\* The process stops and starts again: only printers, disks and files are left.
Restart ==
  LET ps == Listed({"enabled", "disabled"}) IN
  /\ Spend("restart") /\ ps # {}
  /\ cache' = [p \in Printers |-> None] /\ thumbs' = NoThumbnails
  /\ due' = TRUE
  /\ req' = [[s \in Slots |-> Idle] EXCEPT ![CHOOSE s \in mode.slots : TRUE] = Booting(ps)]
  /\ UNCHANGED <<mode, printers, disk, support, data>>

---------------------------------------------------------------------------
(* The upload tracker, in the steps above: a request that gets a token starts a session,  *)
(* and an event with its token ends it.                                                   *)

Tracked == {req[s].token : s \in Slots} \ {None}

\* MUTANT of Reported: an upload that fails is not reported.
ReportedSent == {req[s].token : s \in {r \in Slots : req'[r].pc = "upload"}} \ {None}

\* What uploadFileAsMultiPart reports as sent or failed; postServerFileUpload reports
\* progress only.
Reported == IF mode.type = "octoprint" THEN Tracked ELSE {}

TrackUploads == currentUploads' = (currentUploads \ (Reported \ Tracked')) \cup Tracked'

---------------------------------------------------------------------------
(* Bookkeeping, for the properties only                                    *)

Kind(q) == CASE q.pc \in FileCalls -> "files" [] q.pc \in ThumbnailCalls -> "thumbnail"
             [] OTHER -> "none"

\* The requests that now have calls of this kind to printer p.
Busy(kind, p) == {s \in Slots : Kind(req[s]) = kind /\ req[s].p = p}

AtPrinter(p) == req' = req /\ disk'[p] # disk[p]

\* alone: since its present call (for a thumbnail, since it began to read) a request
\*   has been the only one of its kind at its printer, and nobody else changed it.
\* doubt: requests met at the printer, somebody changed it, the answer to a change
\*   was lost, or a listing after changes failed; until a listing that was alone.
\* tangled: loads of thumbnails met, until one that was alone; or the printer was
\*   deleted before one had ended or without thumbnail support.
\* unloaded: loadCache, at the end of the boot or when support is switched on, passed the
\*   printer over, because it was disabled; until a load of its thumbnail.
Bookkeeping ==
  LET went(s) == req'[s] # req[s]
      asks(s) == went(s) /\ req'[s].answer # "ok" /\ req'[s].pc \in FileCalls \cup {"extract"}
                 /\ (req'[s].pc # req[s].pc \/ req[s].answer # None)
      lost(s) == went(s) /\ req'[s].answer = "failed" /\ disk' # disk
      gone(s) == went(s) /\ req[s].answer = "failed" /\ req[s].pc \in {"relist", "finish"}
      fresh(s) == went(s) /\ req[s].answer = "ok" /\ req[s].pc \in Listings \ {"scan"}
      loaded(s) == went(s) /\ Kind(req[s]) = "thumbnail" /\ Kind(req'[s]) # "thumbnail"
      at(s, p) == req[s].p = p
      reloaded == UpdateThumbnailSupport(TRUE) \/ (support /\ ~Serving /\ Serving')
      loading(p) == \E s \in Slots : at(s, p) /\ req[s].pc \in ThumbnailCalls \cup {"start"}
  IN  /\ alone' = {s \in Slots :
           /\ Kind(req'[s]) # "none" /\ Busy(Kind(req[s]), req[s].p)' = {s}
           /\ asks(s) \/ s \in alone
           /\ ~AtPrinter(req'[s].p)}
      /\ doubt' = {p \in Printers :
           \/ Cardinality(Busy("files", p)') > 1
           \/ AtPrinter(p)
           \/ \E s \in Slots : at(s, p) /\ (lost(s) \/ gone(s))
           \/ p \in doubt /\ ~\E s \in alone : at(s, p) /\ fresh(s)}
      /\ tangled' = {p \in Printers :
           \/ Cardinality(Busy("thumbnail", p)') > 1
           \/ p \in Existing /\ p \notin Existing' /\ (~support \/ loading(p))
           \/ p \in tangled /\ (p \in Existing' => ~\E s \in alone : at(s, p) /\ loaded(s))}
      /\ unloaded' = IF reloaded THEN Listed({"disabled"})
                     ELSE {p \in unloaded : ~\E s \in Slots : at(s, p) /\ loaded(s)}

---------------------------------------------------------------------------

Requested(s) == \E p \in mode.printers :
  \/ GetFiles(s, p) \/ ClearPrinterFiles(s, p)
  \/ \E f \in mode.files :
       \/ DeleteFileOrFolder(s, p, f) \/ UploadPrinterFile(s, p, f)
       \/ ReloadThumbnail(s, p, f) \/ StartPrintFile(s, p, f)

Outside(s) ==
  \/ CallFails(s) \/ PrinterLists(s) \/ PrinterDeletes(s) \/ DeleteFails(s)
  \/ UploadSent(s) \/ UploadNotSent(s) \/ PrinterStores(s) \/ PrinterStarts(s)
  \/ Extracted(s) \/ ThumbnailOpened(s) \/ ThumbnailWritten(s) \/ WriteFails(s)

Answered(s) ==
  \/ ListingAnswered(s) \/ DeleteAnswered(s) \/ ScanAnswered(s) \/ UploadAnswered(s)
  \/ StartAnswered(s) \/ ExtractAnswered(s) \/ WriteAnswered(s)

Disturbed == \E p \in Printers :
  \/ ForeignChange(p) \/ PrintersDeleted(p)
  \/ \E state \in {"enabled", "disabled"} : SetEnabled(p, state)

Step ==
  \/ \E s \in Slots : Requested(s) \/ CleanTaskRuns(s) \/ Outside(s) \/ Answered(s)
  \/ PurgeFiles \/ Disturbed
  \/ \E enabled \in BOOLEAN : UpdateThumbnailSupport(enabled)

Next ==
  \/ Step /\ TrackUploads /\ Bookkeeping
  \/ /\ Restart
     /\ currentUploads' = {}
     /\ doubt' = {} /\ tangled' = tangled \ Existing /\ unloaded' = {} /\ alone' = {}

Spec == Init /\ [][Next]_vars

---------------------------------------------------------------------------
(* Properties                                                              *)

\* The caches, the files and the requests under way have the values the code gives
\* them; a cached list always names each file of a printer once.
TypeOK ==
  /\ mode \in Clients
  /\ printers \in [Printers -> {"enabled", "disabled", "deleted"}]
  /\ disk \in [Printers -> Listing]
  /\ cache \in [Printers -> Listing \cup {None}]
  /\ support \in BOOLEAN /\ due \in BOOLEAN
  /\ data \in [Printers -> Image] /\ thumbs \in [Printers -> Image]
  /\ req \in [Slots -> Request]
  /\ currentUploads \subseteq 1..Sessions
  /\ left \in Nat
  /\ doubt \subseteq Printers /\ tangled \subseteq Printers /\ unloaded \subseteq Printers
  /\ alone \subseteq Slots

\* Whatever became of the requests before, one after another, with refusals, partial
\* clears, clean-ups that fail half way and restarts, the cached list of a printer
\* nobody is busy with is the list of its files, or there is none; unless requests
\* met, a change went unseen, or the listing meant to show it failed.
CacheFollows == \A p \in Existing :
  Busy("files", p) = {} /\ p \notin doubt => cache[p] \in {None, disk[p]}

\* The uploads that the clients are shown as current are under way: one that was sent, that
\* failed at any point, whose thumbnail or clean-up failed or whose printer was deleted is not
\* among them. With Moonraker they all fail, and stay there until a restart.
NoStuckUploads ==
  /\ mode.type = "octoprint" => currentUploads = Tracked
  /\ \A t \in Tracked : \E s \in Slots :
       req[s].token = t /\ req[s].pc = "upload" /\ \A r \in Slots \ {s} : req[r].token # t

\* The clean-up of old files, by the task or before an upload, never deletes a recent
\* file, although it goes by a cached list: not that of another printer, nor a file
\* that an earlier upload has replaced, unless the list was in doubt.
CleanSpares == [][
  \A s \in Slots : req[s].pc = "delete" /\ req[s].op \in {"clean", "upload"} =>
    \A p \in Printers \ doubt, f \in Files :
      req'[s] # req[s] /\ disk[p][f] = "recent" => disk'[p][f] = "recent"]_vars

\* With thumbnails enabled and no load under way, the cached thumbnail of a printer is
\* its file's, whatever failed while it was extracted or written, and however support was
\* switched: but a printer that was disabled at the last loadCache has none, though its file
\* is there, also after it is enabled again, until its next thumbnail is loaded. A deleted
\* printer leaves neither.
ThumbnailAgrees == \A p \in Printers \ tangled :
  /\ Busy("thumbnail", p) = {} /\ support /\ Serving /\ p \in Existing =>
       Shown(thumbs[p]) = IF p \in unloaded THEN None ELSE Shown(data[p])
  /\ p \notin Existing => thumbs[p] = None /\ data[p] = None
=============================================================================
