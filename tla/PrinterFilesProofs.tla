-------------------------- MODULE PrinterFilesProofs --------------------------
(***************************************************************************)
(* Proofs about PrinterFiles. What a request may be while it waits for a   *)
(* call is stated of one request at a time (Legal), and so is what its     *)
(* next call may be (Goes); the inductive invariant relates the requests   *)
(* to the sessions of uploads (Room). The caches follow in a part of their *)
(* own, at the end.                                                        *)
(***************************************************************************)
EXTENDS PrinterFiles, FiniteSetTheorems, TLAPS

---------------------------------------------------------------------------
(* Requests                                                                *)

Calls == FileCalls \cup ThumbnailCalls \cup {"start"}

\* The calls of each kind of request.
Suits(op, pc) ==
  /\ pc = "load" => op \in {"boot", "list", "clean"}
  /\ pc = "relist" => op \in {"clean", "upload"}
  /\ pc \in {"upload", "finish"} => op = "upload"
  /\ pc = "scan" => op = "clear"
  /\ pc = "delete" => op \in {"delete", "clear", "clean", "upload"}
  /\ pc \in ThumbnailCalls => op \in {"upload", "reload", "print"}
  /\ pc = "start" => op = "print"

\* A request under way has a printer, and a file if it is about one.
Ready(q) ==
  /\ q \in Request /\ q.op # None /\ q.p \in Printers
  /\ q.op \in {"delete", "upload", "reload", "print"} => q.f \in Files
  /\ q.op = "delete" => q.todo \subseteq {q.f}

\* Only an upload under way has a session; an answer has what its call asks for.
Legal(q) ==
  \/ q = Idle
  \/ /\ Ready(q) /\ q.pc # "idle" /\ Suits(q.op, q.pc)
     /\ q.token # None => q.pc = "upload" /\ q.answer # "ok"
     /\ q.pc \in Listings /\ q.answer = "ok" => q.listing \in Listing
     /\ q.pc = "extract" /\ q.answer = "ok" => q.image \in Files \cup {"empty"}
     /\ q.pc \in {"write", "opened"} => q.image \in Files

\* An upload that has still to be sent.
Waits(q) == q.op = "upload" /\ q.pc \notin {"upload", "finish"}

\* What may follow request q, with cache c: nothing, or a call not yet answered. A clean-up
\* deletes what is old in the cached list, and a session begins with the upload.
Goes(q, x, c) ==
  /\ x \in Request /\ Legal(x)
  /\ x = Idle \/ x.op = q.op
  /\ x.answer # "ok"
  /\ x.pc \notin ThumbnailCalls \cup {"start"}
  /\ x.token # None => x.token = NewToken /\ Waits(q)
  /\ x.pc = "delete" => x.p \in Existing /\ x.todo = GetOutdatedFiles(c, x.p)

\* A call not yet answered, for which c is the cached list of its printer and there says whether
\* the printer exists: a clean-up deletes what is old in the list.
Asked(x, c, there) ==
  /\ x.answer # "ok"
  /\ x.pc = "delete" /\ x.op \in {"clean", "upload"} =>
       there /\ \A f \in x.todo : c # None /\ c[f] = "old"

\* A number to give a session is at hand when one is to begin.
TokenFree == NewToken \in 1..Sessions

LEMMA IdleShaped == Idle \in Request /\ Idle.op = None /\ Idle.pc = "idle" /\ Idle.token = None
                    /\ Idle.answer = None
  BY DEF Idle, Request, Image

LEMMA IdleGoes == ASSUME NEW q, NEW c PROVE Goes(q, Idle, c)
  BY IdleShaped, NoneIsNoValue DEF Goes, Legal, ThumbnailCalls

\* Ask changes the call and forgets the last answer.
LEMMA AskShaped ==
  ASSUME NEW q \in Request, NEW pc \in Calls
  PROVE  LET x == Ask(q, pc) IN
         /\ x \in Request
         /\ x.pc = pc /\ x.answer = None /\ x.listing = None
         /\ x.op = q.op /\ x.p = q.p /\ x.f = q.f /\ x.todo = q.todo /\ x.queue = q.queue
         /\ x.all = q.all /\ x.image = q.image /\ x.token = q.token
  BY ZenonT(60) DEF Ask, Request, Calls

\* A request that is ready may make any call that suits it.
LEMMA AskLegal ==
  ASSUME NEW q, Ready(q), NEW pc \in Calls, Suits(q.op, pc), q.token = None \/ pc = "upload",
         pc \in {"write", "opened"} => q.image \in Files
  PROVE  Legal(Ask(q, pc))
<1> DEFINE x == Ask(q, pc)
<1>1. /\ x \in Request
      /\ x.pc = pc /\ x.answer = None /\ x.listing = None
      /\ x.op = q.op /\ x.p = q.p /\ x.f = q.f /\ x.todo = q.todo
      /\ x.image = q.image /\ x.token = q.token
  BY AskShaped DEF Ready
<1>2. None # "ok" /\ pc # "idle"
  BY NoneIsNoValue DEF Calls, FileCalls, Listings, ThumbnailCalls
<1> HIDE DEF x
<1>3. Ready(x) BY <1>1 DEF Ready
<1>4. Legal(x) BY <1>1, <1>2, <1>3 DEF Legal
<1> QED BY <1>4 DEF x

\* loadFiles of a request that may list files.
LEMMA LoadGoes ==
  ASSUME NEW q \in Request, NEW p \in Printers, NEW pc \in Listings, NEW c, q.op # None,
         q.op \in {"delete", "upload", "reload", "print"} => q.f \in Files,
         q.op # "delete", Suits(q.op, pc), q.token = None
  PROVE  /\ Goes(q, LoadFiles(q, p, pc), c)
         /\ LoadFiles(q, p, pc).p = p /\ LoadFiles(q, p, pc).pc = pc
         /\ LoadFiles(q, p, pc).op = q.op
<1> DEFINE r == [q EXCEPT !.p = p]
           y == Ask(r, pc)
           x == LoadFiles(q, p, pc)
<1>1. /\ r \in Request /\ r.p = p /\ r.op = q.op /\ r.f = q.f /\ r.todo = q.todo
      /\ r.token = q.token
  BY DEF Request
<1>2. pc \in Calls BY DEF Calls, FileCalls
<1>3. y \in Request /\ y.pc = pc /\ y.op = q.op /\ y.p = p /\ y.token = None
      /\ y.f = q.f /\ y.todo = q.todo
  <2> HIDE DEF r
  <2> QED BY <1>1, <1>2, AskShaped
<1>4. x = [y EXCEPT !.answer = IF p \in Existing THEN None ELSE "failed"] BY DEF LoadFiles
<1>5. /\ x \in Request /\ x.pc = pc /\ x.op = q.op /\ x.p = p /\ x.token = None
      /\ x.f = q.f /\ x.todo = q.todo /\ x.answer \in {None, "failed"}
  <2> HIDE DEF x, y
  <2> QED BY <1>3, <1>4 DEF Request
<1>6. None # "ok" /\ pc \notin ThumbnailCalls \cup {"start", "idle", "delete"}
  BY NoneIsNoValue DEF Listings, ThumbnailCalls
<1> HIDE DEF x
<1>7. Ready(x) BY <1>5 DEF Ready
<1>8. Legal(x) BY <1>5, <1>6, <1>7 DEF Legal, ThumbnailCalls
<1>9. Goes(q, x, c) BY <1>5, <1>6, <1>8 DEF Goes
<1> QED BY <1>5, <1>9 DEF x

\* cleanPrinterFiles of a request of the task, or of an upload.
LEMMA CleanGoes ==
  ASSUME NEW q, Ready(q), q.op \in {"clean", "upload"}, q.token = None, NEW c
  PROVE  /\ Goes(q, CleanPrinterFiles(q, c), c)
         /\ CleanPrinterFiles(q, c) # Idle => CleanPrinterFiles(q, c).p = q.p
<1> DEFINE outdated == GetOutdatedFiles(c, q.p)
           x == CleanPrinterFiles(q, c)
           t == [q EXCEPT !.todo = outdated]
           z == Ask(t, "delete")
<1>1. outdated \subseteq Files BY DEF GetOutdatedFiles
<1>2. CASE q.p \notin Existing \/ "zeroDays" \in mode.settings
  BY <1>2, IdleGoes DEF CleanPrinterFiles
<1>3. CASE ~(q.p \notin Existing \/ "zeroDays" \in mode.settings) /\ outdated = {}
  <2>1. x = LoadFiles(q, q.p, "relist") BY <1>3 DEF CleanPrinterFiles
  <2>2. "relist" \in Listings /\ Suits(q.op, "relist") /\ q \in Request /\ q.p \in Printers
    BY DEF Listings, Suits, Ready, ThumbnailCalls
  <2>3. Goes(q, LoadFiles(q, q.p, "relist"), c) /\ LoadFiles(q, q.p, "relist").p = q.p
    BY <2>2, LoadGoes DEF Ready
  <2> QED BY <2>1, <2>3
<1>4. CASE ~(q.p \notin Existing \/ "zeroDays" \in mode.settings) /\ outdated # {}
  <2>1. x = z BY <1>4 DEF CleanPrinterFiles
  <2>2. t \in Request /\ t.p = q.p /\ t.op = q.op /\ t.f = q.f /\ t.todo = outdated
        /\ t.token = None
    BY <1>1 DEF Ready, Request
  <2>3. "delete" \in Calls /\ "delete" \notin ThumbnailCalls \cup {"start"}
    BY DEF Calls, FileCalls, ThumbnailCalls
  <2> HIDE DEF t
  <2>4. Ready(t) /\ Suits(t.op, "delete") BY <2>2 DEF Ready, Suits, ThumbnailCalls
  <2>5. z \in Request /\ z.pc = "delete" /\ z.answer = None /\ z.op = q.op /\ z.p = q.p
        /\ z.todo = outdated /\ z.token = None
    BY <2>2, <2>3, AskShaped
  <2>6. Legal(z) BY <2>2, <2>3, <2>4, AskLegal
  <2>7. q.p \in Existing /\ None # "ok" BY <1>4, NoneIsNoValue
  <2> HIDE DEF z
  <2>8. Goes(q, z, c) BY <2>3, <2>5, <2>6, <2>7 DEF Goes
  <2> QED BY <2>1, <2>5, <2>8
<1> QED BY <1>2, <1>3, <1>4

\* The first of some printers is one of them.
LEMMA FirstIsOne ==
  ASSUME NEW ps \in SUBSET Printers, ps # {}
  PROVE  First(ps) \in ps /\ After(ps, First(ps)) \subseteq ps /\ First(ps) \notin After(ps, First(ps))
<1>1. PICK p \in ps : \A r \in ps \ {p} : Order[p] < Order[r] BY OrderIsTotal
<1>2. First(ps) \in ps BY <1>1 DEF First
<1>3. Order[First(ps)] \in Nat BY <1>2, OrderIsTotal
<1> QED BY <1>2, <1>3 DEF After

\* The second loop of the clean-up task.
LEMMA CleanNextGoes ==
  ASSUME NEW q, Ready(q), q.op = "clean", q.token = None, NEW ps \in SUBSET Printers, NEW c
  PROVE  /\ Goes(q, CleanNext(q, ps, c), c)
         /\ CleanNext(q, ps, c) # Idle => CleanNext(q, ps, c).p \in ps
<1> DEFINE old == {p \in ps : GetOutdatedFiles(c, p) # {}}
           r == [q EXCEPT !.p = First(old), !.queue = After(ps, First(old))]
           x == CleanNext(q, ps, c)
<1>1. CASE "atBoot" \notin mode.settings \/ old = {} BY <1>1, IdleGoes DEF CleanNext
<1>2. CASE ~("atBoot" \notin mode.settings \/ old = {})
  <2>1. x = CleanPrinterFiles(r, c) BY <1>2 DEF CleanNext
  <2>2. First(old) \in ps BY <1>2, FirstIsOne
  <2>3. After(ps, First(old)) \subseteq Printers BY DEF After
  <2>4. /\ r \in Request /\ r.p = First(old) /\ r.op = "clean" /\ r.token = None
        /\ r.f = q.f /\ r.todo = q.todo
    BY <2>2, <2>3, ZenonT(60) DEF Ready, Request
  <2> HIDE DEF r, old
  <2>5. Ready(r) BY <2>2, <2>4, NoneIsNoValue DEF Ready
  <2>6. Goes(r, CleanPrinterFiles(r, c), c)
        /\ (CleanPrinterFiles(r, c) # Idle => CleanPrinterFiles(r, c).p = r.p)
    BY <2>4, <2>5, CleanGoes
  <2>7. Goes(q, CleanPrinterFiles(r, c), c) BY <2>4, <2>6 DEF Goes, Waits
  <2> QED BY <2>1, <2>2, <2>4, <2>6, <2>7
<1> QED BY <1>1, <1>2

\* The upload itself, for which there must be a token.
LEMMA SendGoes ==
  ASSUME NEW q, Ready(q), Waits(q), TokenFree, NEW c
  PROVE  Goes(q, Send(q), c) /\ Send(q).token = NewToken /\ Send(q).pc = "upload"
<1> DEFINE y == Ask(q, "upload")
           x == Send(q)
<1>1. "upload" \in Calls /\ "upload" \notin ThumbnailCalls \cup Listings \cup {"start"}
      /\ Suits("upload", "upload")
  BY DEF Calls, FileCalls, ThumbnailCalls, Listings, Suits
<1>2. y \in Request /\ y.pc = "upload" /\ y.answer = None /\ y.op = "upload" /\ y.p = q.p
      /\ y.f = q.f
  BY <1>1, AskShaped DEF Ready, Waits
<1>3. x = [y EXCEPT !.token = NewToken] BY DEF Send
<1>4. /\ x \in Request /\ x.pc = "upload" /\ x.answer = None /\ x.op = "upload" /\ x.p = q.p
      /\ x.f = q.f /\ x.token = NewToken
  <2> HIDE DEF y, x
  <2> QED BY <1>2, <1>3 DEF Request, TokenFree
<1> HIDE DEF x
<1>5. Ready(x) /\ None # "ok" BY <1>4, NoneIsNoValue DEF Ready, Waits
<1>6. Legal(x) BY <1>1, <1>4, <1>5 DEF Legal
<1>7. Goes(q, x, c) BY <1>1, <1>4, <1>5, <1>6 DEF Goes, Waits
<1> QED BY <1>4, <1>7 DEF x

\* A legal request that waits is ready.
LEMMA LegalReady ==
  ASSUME NEW q, Legal(q), q.pc # "idle"
  PROVE  Ready(q) /\ Suits(q.op, q.pc)
  BY IdleShaped DEF Legal

\* What follows the thumbnail, of an upload or on its own.
LEMMA ThumbnailGoes ==
  ASSUME NEW q, Ready(q), q.token = None, q.pc \notin {"upload", "finish"},
         Waits(q) => TokenFree
  PROVE  Goes(q, AfterThumbnail(q), cache)
<1>1. CASE q.op # "upload" BY <1>1, IdleGoes DEF AfterThumbnail
<1>2. CASE q.op = "upload" /\ "beforeUpload" \in mode.settings
  <2>1. AfterThumbnail(q) = CleanPrinterFiles(q, cache) BY <1>2 DEF AfterThumbnail
  <2>2. Goes(q, CleanPrinterFiles(q, cache), cache) BY <1>2, CleanGoes
  <2> QED BY <2>1, <2>2
<1>3. CASE q.op = "upload" /\ "beforeUpload" \notin mode.settings
  <2>1. AfterThumbnail(q) = Send(q) BY <1>3 DEF AfterThumbnail
  <2>2. Goes(q, Send(q), cache) BY <1>3, SendGoes DEF Waits
  <2> QED BY <2>1, <2>2
<1> QED BY <1>1, <1>2, <1>3

\* What follows a listing.
LEMMA ListingGoes ==
  ASSUME NEW q, Legal(q), q.pc \in {"load", "relist", "finish"}, Waits(q) => TokenFree,
         NEW c
  PROVE  Goes(q, AfterListing(q, c), c)
<1>1. Ready(q) /\ Suits(q.op, q.pc) /\ q.token = None /\ q \in Request
  BY LegalReady, IdleShaped DEF Legal, Ready
<1>2. CASE q.pc = "load" /\ q.queue # {}
  <2> DEFINE p == First(q.queue)
             r == [q EXCEPT !.queue = After(q.queue, p)]
             x == LoadFiles(r, p, "load")
  <2>1. q.queue \in SUBSET Printers BY <1>1 DEF Request
  <2>2. p \in Printers /\ After(q.queue, p) \subseteq Printers BY <1>2, <2>1, FirstIsOne
  <2>3. r \in Request /\ r.op = q.op /\ r.f = q.f /\ r.token = None
    BY <1>1, <2>2 DEF Request
  <2>4. q.pc # "relist" /\ AfterListing(q, c) = x BY <1>2 DEF AfterListing
  <2>5. "load" \in Listings /\ q.op \in {"boot", "list", "clean"} /\ Suits(q.op, "load")
        /\ q.op # None
    BY <1>1, <1>2 DEF Listings, Suits, Ready
  <2> HIDE DEF r, p
  <2>6. Goes(r, x, c) BY <2>2, <2>3, <2>5, LoadGoes
  <2>7. Goes(q, x, c) BY <2>3, <2>5, <2>6 DEF Goes, Waits
  <2> QED BY <2>4, <2>7
<1>3. CASE q.pc = "load" /\ q.queue = {} /\ q.op = "clean"
  <2>1. AfterListing(q, c) = CleanNext(q, q.all, c) BY <1>3 DEF AfterListing
  <2>2. q.all \in SUBSET Printers BY <1>1 DEF Request
  <2>3. Goes(q, CleanNext(q, q.all, c), c) BY <1>1, <1>3, <2>2, CleanNextGoes
  <2> QED BY <2>1, <2>3
<1>4. CASE q.pc = "relist" /\ q.answer = "ok" /\ q.op = "upload"
  <2>1. AfterListing(q, c) = Send(q) BY <1>4 DEF AfterListing
  <2>2. Goes(q, Send(q), c) BY <1>1, <1>4, SendGoes DEF Waits
  <2> QED BY <2>1, <2>2
<1>5. CASE q.pc = "relist" /\ q.answer = "ok" /\ q.op # "upload"
  <2>1. AfterListing(q, c) = CleanNext(q, q.queue, c) BY <1>5 DEF AfterListing
  <2>2. q.queue \in SUBSET Printers /\ q.op = "clean" BY <1>1, <1>5 DEF Request, Suits
  <2>3. Goes(q, CleanNext(q, q.queue, c), c) BY <1>1, <2>2, CleanNextGoes
  <2> QED BY <2>1, <2>3
<1>6. CASE ~(q.pc = "load" /\ q.queue # {}) /\ ~(q.pc = "load" /\ q.op = "clean")
           /\ ~(q.pc = "relist" /\ q.answer = "ok")
  <2>1. AfterListing(q, c) = Idle BY <1>6 DEF AfterListing
  <2> QED BY <2>1, IdleGoes
<1> QED BY <1>2, <1>3, <1>4, <1>5, <1>6

---------------------------------------------------------------------------
(* Steps of one request                                                    *)

\* What a step may make of request q when its call is answered.
Answers(q, x) ==
  /\ x \in Request /\ Legal(x)
  /\ x.op = q.op /\ x.p = q.p /\ x.f = q.f /\ x.todo \subseteq q.todo
  /\ x.pc = q.pc \/ (q.pc = "write" /\ x.pc = "opened")
  /\ x.token \in {None, q.token}

\* What any step may make of a request that has begun.
Follows(q, x) ==
  /\ x \in Request /\ Legal(x)
  /\ x = Idle \/ x.op = q.op
  /\ x.token \in {None, q.token} \/ (x.token = NewToken /\ Waits(q))
  /\ Waits(x) => Waits(q)

LEMMA AnswersFollows == ASSUME NEW q, NEW x, Answers(q, x) PROVE Follows(q, x)
  BY DEF Answers, Follows, Waits

\* A call that fails.
LEMMA FailAnswers ==
  ASSUME NEW q, Legal(q), q.pc # "idle", NEW todo \in SUBSET q.todo
  PROVE  Answers(q, [q EXCEPT !.answer = "failed", !.todo = todo])
<1> DEFINE x == [q EXCEPT !.answer = "failed", !.todo = todo]
<1>1. Ready(q) /\ q \in Request BY LegalReady DEF Ready
<1>2. /\ x \in Request /\ x.op = q.op /\ x.p = q.p /\ x.f = q.f /\ x.todo = todo /\ x.pc = q.pc
      /\ x.token = q.token /\ x.answer = "failed" /\ x.image = q.image
  <2>1. q.todo \subseteq Files BY <1>1 DEF Request
  <2> QED BY <1>1, <2>1 DEF Request
<1> HIDE DEF x
<1>3. Ready(x) BY <1>1, <1>2 DEF Ready
<1>4. Legal(x) BY <1>2, <1>3, IdleShaped DEF Legal
<1>5. Answers(q, x) BY <1>2, <1>4 DEF Answers
<1> QED BY <1>5 DEF x

\* A call that succeeds, with what it was made for.
LEMMA OkAnswers ==
  ASSUME NEW q, Legal(q), q.pc # "idle", q.token = None, NEW todo \in SUBSET q.todo,
         NEW listing \in Listing \cup {None}, q.pc \in Listings => listing \in Listing,
         NEW image \in Image, q.pc = "extract" => image \in Files \cup {"empty"},
         q.pc \in {"write", "opened"} => image = q.image
  PROVE  Answers(q, [q EXCEPT !.answer = "ok", !.todo = todo, !.listing = listing, !.image = image])
<1> DEFINE x == [q EXCEPT !.answer = "ok", !.todo = todo, !.listing = listing, !.image = image]
<1>1. Ready(q) /\ q \in Request BY LegalReady DEF Ready
<1>2. /\ x \in Request /\ x.op = q.op /\ x.p = q.p /\ x.f = q.f /\ x.todo = todo /\ x.pc = q.pc
      /\ x.token = None /\ x.answer = "ok" /\ x.image = image /\ x.listing = listing
  <2>1. q.todo \subseteq Files BY <1>1 DEF Request
  <2> QED BY <1>1, <2>1, ZenonT(60) DEF Request
<1> HIDE DEF x
<1>3. Ready(x) BY <1>1, <1>2 DEF Ready
<1>4. q.pc \in {"write", "opened"} => q.image \in Files BY IdleShaped DEF Legal
<1>5. Legal(x) BY <1>1, <1>2, <1>3, <1>4, LegalReady DEF Legal
<1>6. Answers(q, x) BY <1>2, <1>5 DEF Answers
<1> QED BY <1>6 DEF x

\* The variables have their values, and the requests are legal.
Shape == TypeOK /\ \A s \in Slots : Legal(req[s])

\* One file of one printer changes.
LEMMA DiskSet ==
  ASSUME NEW d \in [Printers -> Listing], NEW p \in Printers, NEW f \in Files,
         NEW v \in {"old", "recent", None}
  PROVE  /\ [d EXCEPT ![p][f] = v] \in [Printers -> Listing]
         /\ [d EXCEPT ![p][f] = v][p] = [d[p] EXCEPT ![f] = v]
         /\ \A r \in Printers \ {p} : [d EXCEPT ![p][f] = v][r] = d[r]
<1>1. [d[p] EXCEPT ![f] = v] \in Listing BY DEF Listing
<1> QED BY <1>1

LEMMA SpendIsNat == ASSUME Shape, NEW d, Spend(d) PROVE left' \in Nat
  BY DEF Shape, TypeOK, Spend

\* The printers, and the disk of the server, answer one request, and the rest stays.
OutsideMoves(s) ==
  /\ Becomes(s, req'[s]) /\ Answers(req[s], req'[s])
  /\ req[s].pc # "idle" /\ req[s].answer = None
  /\ disk' \in [Printers -> Listing] /\ data' \in [Printers -> Image] /\ left' \in Nat
  /\ UNCHANGED <<mode, printers, cache, support, thumbs, due>>

LEMMA SlotShaped ==
  ASSUME Shape, NEW s \in Slots, req[s].pc # "idle"
  PROVE  /\ Legal(req[s]) /\ Ready(req[s]) /\ req[s] \in Request /\ req[s].p \in Printers
         /\ req[s].op \in {"delete", "upload", "reload", "print"} => req[s].f \in Files
         /\ Suits(req[s].op, req[s].pc) /\ req[s].todo \subseteq Files
  BY LegalReady DEF Shape, Ready, Request

LEMMA OutsideShaped ==
  ASSUME Shape, NEW s \in Slots, Outside(s)
  PROVE  OutsideMoves(s)
<1> DEFINE q == req[s]
           x == req'[s]
<1>q. q.pc # "idle" => /\ Legal(q) /\ Ready(q) /\ q \in Request /\ q.p \in Printers
                       /\ q.op \in {"delete", "upload", "reload", "print"} => q.f \in Files
                       /\ Suits(q.op, q.pc) /\ q.todo \subseteq Files
  BY SlotShaped
<1>t. /\ req \in [Slots -> Request] /\ disk \in [Printers -> Listing]
      /\ data \in [Printers -> Image] /\ left \in Nat
  BY DEF Shape, TypeOK
<1>f. ASSUME q.pc # "idle", NEW todo \in SUBSET q.todo,
             req' = [req EXCEPT ![s] = [q EXCEPT !.answer = "failed", !.todo = todo]]
      PROVE  Becomes(s, x) /\ Answers(q, x)
  BY <1>f, <1>q, <1>t, FailAnswers DEF Becomes
<1>a. ASSUME q.pc # "idle", Acted(s, "failed") PROVE Becomes(s, x) /\ Answers(q, x)
  <2>1. [q EXCEPT !.answer = "failed"] = [q EXCEPT !.answer = "failed", !.todo = q.todo]
    BY <1>a, <1>q DEF Request
  <2>2. req' = [req EXCEPT ![s] = [q EXCEPT !.answer = "failed"]] BY <1>a, <1>t DEF Acted
  <2> QED BY <1>a, <1>f, <2>1, <2>2
<1>k. ASSUME NEW y, Answers(q, y), req' = [req EXCEPT ![s] = y]
      PROVE  Becomes(s, x) /\ Answers(q, x)
  BY <1>k, <1>t DEF Becomes
<1>o. ASSUME q.pc \in {"upload", "start", "write", "opened"}, q.token = None, Acted(s, "ok")
      PROVE  Becomes(s, x) /\ Answers(q, x)
  <2>1. q.pc # "idle" /\ q.pc \notin Listings \cup {"extract"} /\ q \in Request
    BY <1>o, <1>q DEF Listings
  <2>2. [q EXCEPT !.answer = "ok"] = [q EXCEPT !.answer = "ok", !.todo = q.todo,
                                                !.listing = q.listing, !.image = q.image]
    BY <2>1 DEF Request
  <2>3. req' = [req EXCEPT ![s] = [q EXCEPT !.answer = "ok"]] BY <1>o, <1>t DEF Acted
  <2>4. q.listing \in Listing \cup {None} /\ q.image \in Image BY <2>1 DEF Request
  <2>5. Answers(q, [q EXCEPT !.answer = "ok", !.todo = q.todo, !.listing = q.listing,
                             !.image = q.image])
    BY <1>o, <1>q, <2>1, <2>4, OkAnswers
  <2> QED BY <1>k, <2>2, <2>3, <2>5
<1>1. CASE CallFails(s)
  <2>1. q.pc # "idle" /\ Acted(s, "failed") BY <1>1 DEF CallFails, Listings
  <2>2. left' \in Nat BY <1>1, SpendIsNat DEF CallFails
  <2> QED BY <1>1, <1>a, <1>t, <2>1, <2>2 DEF CallFails, OutsideMoves
<1>2. CASE PrinterLists(s)
  <2>1. q.pc # "idle" /\ q.pc \in Listings BY <1>2 DEF PrinterLists, Listings
  <2>2. q \in Request /\ disk[q.p] \in Listing /\ q.token = None /\ q.image \in Image
        /\ q.pc \notin {"extract", "write", "opened"}
    BY <1>q, <1>t, <2>1, IdleShaped DEF Legal, Listings, Request
  <2>3. [q EXCEPT !.answer = "ok", !.listing = disk[q.p]] =
        [q EXCEPT !.answer = "ok", !.todo = q.todo, !.listing = disk[q.p], !.image = q.image]
    BY <2>2 DEF Request
  <2>4. req' = [req EXCEPT ![s] = [q EXCEPT !.answer = "ok", !.listing = disk[q.p]]]
    BY <1>2, <1>t DEF PrinterLists
  <2>6. Answers(q, [q EXCEPT !.answer = "ok", !.todo = q.todo, !.listing = disk[q.p],
                             !.image = q.image])
    BY <1>q, <2>1, <2>2, OkAnswers
  <2>5. Becomes(s, x) /\ Answers(q, x) BY <1>k, <2>3, <2>4, <2>6
  <2> QED BY <1>2, <1>t, <2>1, <2>5 DEF PrinterLists, OutsideMoves
<1>3. CASE PrinterDeletes(s)
  <2>1. q.pc = "delete" BY <1>3 DEF PrinterDeletes
  <2>2. PICK f \in q.todo, answer \in {"ok", "failed"} :
          /\ disk' = [disk EXCEPT ![q.p][f] = None]
          /\ Becomes(s, [q EXCEPT !.answer = answer, !.todo = @ \ {f}])
          /\ Spend("fault") \/ left' = left
    BY <1>3 DEF PrinterDeletes
  <2>3. f \in Files /\ q \in Request /\ q.token = None /\ q.image \in Image
        /\ q.listing \in Listing \cup {None} /\ q.todo \ {f} \in SUBSET q.todo
    BY <1>q, <2>1, IdleShaped DEF Legal, Request
  <2>4. disk' \in [Printers -> Listing] BY <1>q, <1>t, <2>1, <2>2, <2>3, DiskSet, ZenonT(60)
  <2>5. left' \in Nat BY <1>t, <2>2, SpendIsNat
  <2>6. Becomes(s, x) /\ Answers(q, x)
    <3>1. CASE answer = "ok"
      <4>1. [q EXCEPT !.answer = "ok", !.todo = q.todo \ {f}] =
            [q EXCEPT !.answer = "ok", !.todo = q.todo \ {f}, !.listing = q.listing,
                      !.image = q.image]
        BY <2>3 DEF Request
      <4>2. req' = [req EXCEPT ![s] = [q EXCEPT !.answer = "ok", !.todo = q.todo \ {f}]]
        BY <2>2, <3>1 DEF Becomes
      <4>3. q.pc \notin Listings \cup {"extract", "write", "opened", "idle"}
        BY <2>1 DEF Listings
      <4>4. Answers(q, [q EXCEPT !.answer = "ok", !.todo = q.todo \ {f}, !.listing = q.listing,
                                 !.image = q.image])
        BY <1>q, <2>1, <2>3, <4>3, OkAnswers
      <4> QED BY <1>k, <4>1, <4>2, <4>4
    <3>2. CASE answer = "failed" BY <1>f, <2>1, <2>2, <2>3, <3>2 DEF Becomes
    <3> QED BY <3>1, <3>2
  <2> QED BY <1>3, <1>t, <2>1, <2>4, <2>5, <2>6 DEF PrinterDeletes, OutsideMoves
<1>4. CASE DeleteFails(s)
  <2>1. q.pc = "delete" BY <1>4 DEF DeleteFails
  <2>2. PICK f \in q.todo : Becomes(s, [q EXCEPT !.answer = "failed", !.todo = @ \ {f}])
    BY <1>4 DEF DeleteFails
  <2>3. Becomes(s, x) /\ Answers(q, x) BY <1>f, <2>1, <2>2 DEF Becomes
  <2>4. left' \in Nat BY <1>4, SpendIsNat DEF DeleteFails
  <2> QED BY <1>4, <1>t, <2>1, <2>3, <2>4 DEF DeleteFails, OutsideMoves
<1>5. CASE UploadSent(s)
  <2>1. q.pc = "upload" /\ q.answer = None /\ req' = [req EXCEPT ![s] = [q EXCEPT !.token = None]]
    BY <1>5, <1>t DEF UploadSent
  <2>2. x = [q EXCEPT !.token = None] BY <1>t, <2>1
  <2>3. q \in Request /\ Ready(q) /\ Suits(q.op, q.pc) /\ "upload" \notin Listings \cup ThumbnailCalls
    BY <1>q, <2>1 DEF Listings, ThumbnailCalls
  <2>4. /\ x \in Request /\ x.op = q.op /\ x.p = q.p /\ x.f = q.f /\ x.todo = q.todo
        /\ x.pc = "upload" /\ x.token = None /\ x.answer = None
    BY <2>1, <2>2, <2>3 DEF Request
  <2>5. Legal(x)
    <3> HIDE DEF x
    <3>1. Ready(x) BY <2>3, <2>4 DEF Ready
    <3> QED BY <2>1, <2>3, <2>4, <3>1 DEF Legal, ThumbnailCalls
  <2>6. Becomes(s, x) /\ Answers(q, x) BY <2>1, <2>2, <2>4, <2>5 DEF Becomes, Answers
  <2> QED BY <1>5, <1>t, <2>1, <2>6 DEF UploadSent, OutsideMoves
<1>6. CASE UploadNotSent(s)
  <2>1. q.pc # "idle" /\ Acted(s, "failed") BY <1>6 DEF UploadNotSent
  <2> QED BY <1>6, <1>a, <1>t, <2>1 DEF UploadNotSent, OutsideMoves
<1>7. CASE PrinterStores(s)
  <2>1. q.pc = "upload" /\ q.token = None BY <1>7 DEF PrinterStores
  <2>2. q.f \in Files BY <1>q, <2>1 DEF Suits
  <2>3. disk' \in [Printers -> Listing]
    BY <1>7, <1>q, <1>t, <2>1, <2>2, DiskSet, ZenonT(60) DEF PrinterStores
  <2>4. (Acted(s, "ok") \/ Acted(s, "failed")) /\ left' \in Nat
    BY <1>7, <1>t, SpendIsNat DEF PrinterStores, Answer
  <2>5. Becomes(s, x) /\ Answers(q, x) BY <1>a, <1>o, <2>1, <2>4
  <2> QED BY <1>7, <1>t, <2>1, <2>3, <2>4, <2>5 DEF PrinterStores, OutsideMoves
<1>8. CASE PrinterStarts(s)
  <2>1. q.pc = "start" /\ (Acted(s, "ok") \/ Acted(s, "failed")) BY <1>8 DEF PrinterStarts
  <2>2. q.token = None BY <1>q, <2>1, IdleShaped DEF Legal
  <2>3. Becomes(s, x) /\ Answers(q, x) BY <1>a, <1>o, <2>1, <2>2
  <2> QED BY <1>8, <1>t, <2>1, <2>3 DEF PrinterStarts, OutsideMoves
<1>9. CASE Extracted(s)
  <2>1. q.pc = "extract" BY <1>9 DEF Extracted
  <2>2. q \in Request /\ q.token = None /\ q.op \in {"upload", "reload", "print"} /\ q.f \in Files
        /\ q.listing \in Listing \cup {None} /\ q.pc \notin Listings
    BY <1>q, <2>1, IdleShaped DEF Legal, Request, Suits, ThumbnailCalls, Listings
  <2>3. ASSUME NEW image \in {q.f, "empty"}, Becomes(s, [q EXCEPT !.answer = "ok", !.image = image])
        PROVE  Becomes(s, x) /\ Answers(q, x)
    <3>1. [q EXCEPT !.answer = "ok", !.image = image] =
          [q EXCEPT !.answer = "ok", !.todo = q.todo, !.listing = q.listing, !.image = image]
      BY <2>2 DEF Request
    <3>2. req' = [req EXCEPT ![s] = [q EXCEPT !.answer = "ok", !.image = image]]
      BY <2>3 DEF Becomes
    <3>3. image \in Image /\ image \in Files \cup {"empty"} BY <2>2 DEF Image
    <3>4. Answers(q, [q EXCEPT !.answer = "ok", !.todo = q.todo, !.listing = q.listing,
                               !.image = image])
      BY <1>q, <2>1, <2>2, <3>3, OkAnswers
    <3> QED BY <1>k, <3>1, <3>2, <3>4
  <2>4. \/ Acted(s, "failed")
        \/ \E image \in {q.f, "empty"} : Becomes(s, [q EXCEPT !.answer = "ok", !.image = image])
    BY <1>9 DEF Extracted, LocalImages, RemoteImages
  <2>5. Becomes(s, x) /\ Answers(q, x) BY <1>a, <2>1, <2>3, <2>4
  <2> QED BY <1>9, <1>t, <2>1, <2>5 DEF Extracted, OutsideMoves
<1>10. CASE ThumbnailOpened(s)
  <2>1. q.pc = "write" /\ x = Ask(q, "opened") /\ Becomes(s, x)
    BY <1>10, <1>t DEF ThumbnailOpened, Becomes
  <2>2. q.token = None /\ q.image \in Files /\ q \in Request /\ Suits(q.op, "opened")
        /\ "opened" \in Calls
    BY <1>q, <2>1, IdleShaped DEF Legal, Suits, ThumbnailCalls, Calls
  <2>3. Legal(x) BY <1>q, <2>1, <2>2, AskLegal
  <2>4. /\ x \in Request /\ x.op = q.op /\ x.p = q.p /\ x.f = q.f /\ x.todo = q.todo
        /\ x.token = q.token /\ x.pc = "opened"
    BY <2>1, <2>2, AskShaped
  <2>5. Answers(q, x) BY <2>1, <2>3, <2>4 DEF Answers
  <2>6. data' \in [Printers -> Image]
    BY <1>10, <1>t DEF ThumbnailOpened, SetThumbnail, Image
  <2> QED BY <1>10, <1>t, <2>1, <2>5, <2>6 DEF ThumbnailOpened, OutsideMoves
<1>11. CASE ThumbnailWritten(s)
  <2>1. q.pc = "opened" /\ Acted(s, "ok") BY <1>11 DEF ThumbnailWritten
  <2>2. q.token = None /\ q.image \in Files BY <1>q, <2>1, IdleShaped DEF Legal
  <2>3. Becomes(s, x) /\ Answers(q, x) BY <1>o, <2>1, <2>2
  <2>4. data' \in [Printers -> Image]
    <3>1. PICK image \in Filled(data[q.p], q.image) : data' = SetThumbnail(data, q.p, image)
      BY <1>11 DEF ThumbnailWritten
    <3>2. image \in Image BY <1>q, <1>t, <2>1, <2>2 DEF Filled, Image
    <3> QED BY <1>t, <3>1, <3>2 DEF SetThumbnail
  <2> QED BY <1>11, <1>t, <2>1, <2>3, <2>4 DEF ThumbnailWritten, OutsideMoves
<1>12. CASE WriteFails(s)
  <2>1. q.pc # "idle" /\ Acted(s, "failed") BY <1>12 DEF WriteFails
  <2>2. left' \in Nat BY <1>12, SpendIsNat DEF WriteFails
  <2> QED BY <1>12, <1>a, <1>t, <2>1, <2>2 DEF WriteFails, OutsideMoves
<1> QED BY <1>1, <1>2, <1>3, <1>4, <1>5, <1>6, <1>7, <1>8, <1>9, <1>10, <1>11, <1>12 DEF Outside

\* The request has a call at printer p that is about its files.
FilesAt(q, p) == q.pc \in FileCalls /\ q.p = p

\* A loop that deletes files goes on with the next.
Retries(q, x) == q.pc = "delete" /\ x = Ask(q, "delete")

\* The answer to a request is handled: nothing follows it, or a call not yet answered.
AnsweredMoves(s) ==
  /\ Becomes(s, req'[s]) /\ Follows(req[s], req'[s])
  /\ req[s].pc # "idle" /\ req[s].answer # None /\ req'[s].answer # "ok"
  /\ ~Retries(req[s], req'[s]) => Asked(req'[s], cache'[req'[s].p], req'[s].p \in Existing)
  /\ \A p \in Printers : ~FilesAt(req[s], p) => cache'[p] = cache[p]
  /\ cache' \in [Printers -> Listing \cup {None}]
  /\ data' \in [Printers -> Image] /\ thumbs' \in [Printers -> Image]
  /\ UNCHANGED <<mode, printers, disk, support, due, left>>

LEMMA GoesFollows ==
  ASSUME NEW q, NEW x, NEW c, Goes(q, x, c), q.pc \notin {"upload", "finish"}
  PROVE  Follows(q, x) /\ x.answer # "ok"
  BY NoneIsNoValue, IdleShaped DEF Goes, Follows, Waits, Ops

LEMMA GoesAsked ==
  ASSUME NEW q, NEW x, NEW c, Goes(q, x, c)
  PROVE  Asked(x, c[x.p], x.p \in Existing)
  BY DEF Goes, Asked, GetOutdatedFiles

LEMMA PurgeFileShaped ==
  ASSUME NEW c \in [Printers -> Listing \cup {None}], NEW p \in Printers, NEW f \in Files,
         c[p] # None
  PROVE  [c EXCEPT ![p] = [c[p] EXCEPT ![f] = None]] \in [Printers -> Listing \cup {None}]
<1>1. [c[p] EXCEPT ![f] = None] \in Listing BY DEF Listing
<1> QED BY <1>1

LEMMA DeletedShaped ==
  ASSUME Shape, NEW q, Ready(q)
  PROVE  DeletedCache(q) \in [Printers -> Listing \cup {None}]
<1>1. cache \in [Printers -> Listing \cup {None}] /\ q.p \in Printers /\ (q.op = "delete" => q.f \in Files)
  BY DEF Shape, TypeOK, Ready
<1>2. CASE q.op = "delete" /\ q.answer = "ok"
  <2>1. DeletedCache(q) = PurgeFile(cache, q.p, q.f) BY <1>2 DEF DeletedCache
  <2>2. CASE cache[q.p] = None BY <1>1, <2>1, <2>2 DEF PurgeFile
  <2>3. CASE cache[q.p] # None
    <3>1. PurgeFile(cache, q.p, q.f) = [cache EXCEPT ![q.p] = [cache[q.p] EXCEPT ![q.f] = None]]
      BY <1>1, <2>3 DEF PurgeFile
    <3>2. [cache EXCEPT ![q.p] = [cache[q.p] EXCEPT ![q.f] = None]]
            \in [Printers -> Listing \cup {None}]
      BY <1>1, <1>2, <2>3, PurgeFileShaped
    <3> QED BY <2>1, <3>1, <3>2
  <2> QED BY <2>2, <2>3
<1>3. CASE q.op = "clear" /\ q.todo = {} /\ q.p \in Existing
  BY <1>1, <1>3 DEF DeletedCache, PurgePrinterId
<1>4. CASE ~(q.op = "delete" /\ q.answer = "ok") /\ ~(q.op = "clear" /\ q.todo = {} /\ q.p \in Existing)
  BY <1>1, <1>4 DEF DeletedCache
<1> QED BY <1>2, <1>3, <1>4

LEMMA AnsweredShaped ==
  ASSUME Shape, NEW s \in Slots, Waits(req[s]) => TokenFree, Answered(s)
  PROVE  AnsweredMoves(s)
<1> DEFINE q == req[s]
           x == req'[s]
<1>q. q.pc # "idle" => /\ Legal(q) /\ Ready(q) /\ q \in Request /\ q.p \in Printers
                       /\ q.op \in {"delete", "upload", "reload", "print"} => q.f \in Files
                       /\ Suits(q.op, q.pc) /\ q.todo \subseteq Files
  BY SlotShaped
<1>t. /\ req \in [Slots -> Request] /\ cache \in [Printers -> Listing \cup {None}]
      /\ data \in [Printers -> Image] /\ thumbs \in [Printers -> Image]
  BY DEF Shape, TypeOK
<1>i. Follows(q, Idle) /\ Idle.answer # "ok"
  BY IdleShaped, NoneIsNoValue DEF Follows, Legal, Waits, Ops
<1>b. ASSUME NEW y, Becomes(s, y) PROVE x = y /\ Becomes(s, x) BY <1>b, <1>t DEF Becomes
<1>m. ASSUME q.pc # "idle", q.answer # None, Becomes(s, x), Follows(q, x), x.answer # "ok",
             ~Retries(q, x) => Asked(x, cache'[x.p], x.p \in Existing),
             \A p \in Printers : ~FilesAt(q, p) => cache'[p] = cache[p],
             cache' \in [Printers -> Listing \cup {None}],
             data' \in [Printers -> Image], thumbs' \in [Printers -> Image],
             UNCHANGED <<mode, printers, disk, support, due, left>>
      PROVE  AnsweredMoves(s)
  BY <1>m DEF AnsweredMoves
<1>1. CASE ListingAnswered(s)
  <2>1. q.pc \in {"load", "relist", "finish"} /\ q.answer # None /\ q.pc # "idle"
    BY <1>1 DEF ListingAnswered
  <2>2. cache' \in [Printers -> Listing \cup {None}]
    <3>1. CASE q.answer = "ok"
      <4>1. q.listing \in Listing BY <1>q, <2>1, <3>1, IdleShaped DEF Legal, Listings
      <4> QED BY <1>1, <1>q, <1>t, <2>1, <3>1, <4>1 DEF ListingAnswered, CachePrinterFiles
    <3> QED BY <1>1, <1>t, <3>1 DEF ListingAnswered
  <2>3. Becomes(s, AfterListing(q, cache')) BY <1>1 DEF ListingAnswered
  <2>4. x = AfterListing(q, cache') /\ Becomes(s, x) BY <1>b, <2>3
  <2>5. Follows(q, x) /\ x.answer # "ok" /\ Asked(x, cache'[x.p], x.p \in Existing)
    <3>0. Goes(q, AfterListing(q, cache'), cache') BY <1>q, <2>1, ListingGoes
    <3>1. CASE q.pc = "finish"
      <4>1. AfterListing(q, cache') = Idle BY <3>1 DEF AfterListing
      <4> QED BY <1>i, <2>4, <3>0, <4>1, GoesAsked
    <3>2. CASE q.pc # "finish"
      <4> QED BY <2>1, <2>4, <3>0, <3>2, GoesFollows, GoesAsked
    <3> QED BY <3>1, <3>2
  <2>7. \A p \in Printers : ~FilesAt(q, p) => cache'[p] = cache[p]
    BY <1>1, <1>q, <1>t, <2>1 DEF ListingAnswered, CachePrinterFiles, FilesAt, FileCalls, Listings
  <2>6. thumbs' \in [Printers -> Image] /\ data' = data
    BY <1>1, <1>t DEF ListingAnswered, LoadCache, Image
  <2> QED BY <1>1, <1>m, <1>t, <2>1, <2>2, <2>4, <2>5, <2>6, <2>7 DEF ListingAnswered
<1>2. CASE DeleteAnswered(s)
  <2>1. q.pc = "delete" /\ q.answer # None BY <1>2 DEF DeleteAnswered
  <2>2. cache' \in [Printers -> Listing \cup {None}]
    BY <1>2, <1>q, <2>1, DeletedShaped DEF DeleteAnswered
  <2>3. q.token = None /\ "delete" \in Calls
    BY <1>q, <2>1, IdleShaped DEF Legal, Calls, FileCalls
  <2>5. \A p \in Printers : ~FilesAt(q, p) => cache'[p] = cache[p]
    BY <1>2, <1>q, <1>t, <2>1
    DEF DeleteAnswered, DeletedCache, PurgeFile, PurgePrinterId, FilesAt, FileCalls
  <2>4. Becomes(s, x) /\ Follows(q, x) /\ x.answer # "ok"
        /\ (~Retries(q, x) => Asked(x, cache'[x.p], x.p \in Existing))
    <3>1. CASE q.todo # {}
      <4>1. x = Ask(q, "delete") /\ Becomes(s, x) BY <1>2, <1>b, <3>1 DEF DeleteAnswered
      <4>2. Legal(Ask(q, "delete")) BY <1>q, <2>1, <2>3, AskLegal
      <4>3. x \in Request /\ x.pc = "delete" /\ x.answer = None /\ x.op = q.op /\ x.token = None
        BY <1>q, <2>1, <2>3, <4>1, AskShaped
      <4> QED BY <2>1, <4>1, <4>2, <4>3, NoneIsNoValue DEF Follows, Waits, Retries
    <3>2. CASE q.todo = {} /\ q.op \in {"upload", "clean"}
      <4>1. x = LoadFiles(q, q.p, "relist") /\ Becomes(s, x)
        BY <1>2, <1>b, <3>2 DEF DeleteAnswered
      <4>2. "relist" \in Listings /\ Suits(q.op, "relist") /\ q.op # None
        BY <1>q, <2>1, <3>2 DEF Listings, Suits, ThumbnailCalls, Ready
      <4>3. Goes(q, LoadFiles(q, q.p, "relist"), cache')
        BY <1>q, <2>1, <2>3, <3>2, <4>2, LoadGoes
      <4> QED BY <2>1, <4>1, <4>3, GoesFollows, GoesAsked
    <3>3. CASE q.todo = {} /\ q.op \notin {"upload", "clean"}
      <4>1. x = Idle /\ Becomes(s, x) BY <1>2, <1>b, <3>3 DEF DeleteAnswered
      <4> QED BY <1>i, <4>1, IdleShaped DEF Asked
    <3> QED BY <3>1, <3>2, <3>3
  <2> QED BY <1>2, <1>m, <1>t, <2>1, <2>2, <2>4, <2>5 DEF DeleteAnswered
<1>3. CASE ScanAnswered(s)
  <2> DEFINE names == IF q.answer = "ok" THEN Names(q.listing) ELSE {}
             t == [q EXCEPT !.todo = names]
  <2>1. q.pc = "scan" /\ q.answer # None BY <1>3 DEF ScanAnswered
  <2>2. names \subseteq Files /\ q.op = "clear" /\ q.token = None
    BY <1>q, <2>1, IdleShaped DEF Names, Suits, Legal
  <2>3. t \in Request /\ t.op = "clear" /\ t.p = q.p /\ t.f = q.f /\ t.token = None /\ t.pc = "scan"
    BY <1>q, <2>1, <2>2 DEF Request
  <2>4. Becomes(s, IF names = {} THEN Idle ELSE Ask(t, "delete")) BY <1>3 DEF ScanAnswered
  <2>5. cache' = IF q.answer = "ok" THEN DeletedCache([q EXCEPT !.todo = Names(q.listing)]) ELSE cache
    BY <1>3 DEF ScanAnswered
  <2>6. q.answer = "ok" => cache' = DeletedCache(t) BY <2>5
  <2> HIDE DEF t, names
  <2>7. Ready(t) /\ Suits(t.op, "delete") /\ "delete" \in Calls
    BY <1>q, <2>1, <2>2, <2>3, NoneIsNoValue
    DEF Ready, Suits, Ops, ThumbnailCalls, Calls, FileCalls
  <2>8. cache' \in [Printers -> Listing \cup {None}]
    BY <1>t, <2>5, <2>6, <2>7, DeletedShaped
  <2>10. \A p \in Printers : ~FilesAt(q, p) => cache'[p] = cache[p]
    <3>1. \A p \in Printers : p # q.p => DeletedCache(t)[p] = cache[p]
      BY <2>3, <1>t, NoneIsNoValue DEF DeletedCache, PurgePrinterId, Ops
    <3> QED BY <2>1, <2>5, <2>6, <3>1 DEF FilesAt, FileCalls, Listings
  <2>9. Follows(q, x) /\ x.answer # "ok" /\ Becomes(s, x) /\ Asked(x, cache'[x.p], x.p \in Existing)
    <3>1. CASE names = {} BY <1>b, <1>i, <2>4, <3>1, IdleShaped DEF Asked
    <3>2. CASE names # {}
      <4>1. x = Ask(t, "delete") /\ Becomes(s, x) BY <1>b, <2>4, <3>2
      <4>2. Legal(Ask(t, "delete")) BY <2>3, <2>7, AskLegal
      <4>3. x \in Request /\ x.pc = "delete" /\ x.answer = None /\ x.op = "clear" /\ x.token = None
        BY <2>3, <2>7, <4>1, AskShaped
      <4> QED BY <2>2, <4>1, <4>2, <4>3, NoneIsNoValue DEF Follows, Waits, Asked
    <3> QED BY <3>1, <3>2
  <2> QED BY <1>3, <1>m, <1>t, <2>1, <2>8, <2>9, <2>10 DEF ScanAnswered
<1>4. CASE UploadAnswered(s)
  <2>1. q.pc = "upload" /\ q.answer # None /\ q.op = "upload"
    BY <1>4, <1>q DEF UploadAnswered, Suits
  <2>3. cache' = cache BY <1>4 DEF UploadAnswered
  <2>2. Becomes(s, x) /\ Follows(q, x) /\ x.answer # "ok" /\ Asked(x, cache'[x.p], x.p \in Existing)
    <3>1. CASE q.answer = "ok"
      <4>1. x = LoadFiles(q, q.p, "finish") /\ Becomes(s, x)
        BY <1>4, <1>b, <3>1 DEF UploadAnswered
      <4>2. q.token = None /\ "finish" \in Listings /\ Suits(q.op, "finish")
        BY <1>q, <2>1, <3>1, IdleShaped DEF Legal, Listings, Suits, ThumbnailCalls
      <4>3. Goes(q, LoadFiles(q, q.p, "finish"), cache') /\ LoadFiles(q, q.p, "finish").pc = "finish"
        BY <1>q, <2>1, <4>2, LoadGoes DEF Ready
      <4>4. Asked(x, cache'[x.p], x.p \in Existing) BY <4>1, <4>3, GoesAsked
      <4> QED BY <2>1, <4>1, <4>3, <4>4 DEF Goes, Follows, Waits
    <3>2. CASE q.answer # "ok"
      BY <1>4, <1>b, <1>i, <3>2, IdleShaped DEF UploadAnswered, Asked
    <3> QED BY <3>1, <3>2
  <2> QED BY <1>4, <1>m, <1>t, <2>1, <2>2, <2>3 DEF UploadAnswered
<1>5. CASE StartAnswered(s)
  <2>1. q.pc = "start" /\ q.answer # None /\ q.op = "print"
    BY <1>5, <1>q DEF StartAnswered, Suits
  <2>2. Becomes(s, x) /\ Follows(q, x) /\ x.answer # "ok" /\ Asked(x, cache'[x.p], x.p \in Existing)
    <3>1. CASE q.answer = "ok" /\ support
      <4>1. x = Ask(q, "extract") /\ Becomes(s, x) BY <1>5, <1>b, <3>1 DEF StartAnswered
      <4>2. q.token = None /\ "extract" \in Calls /\ Suits(q.op, "extract")
        BY <1>q, <2>1, IdleShaped DEF Legal, Calls, Suits, ThumbnailCalls
      <4>3. Legal(Ask(q, "extract")) BY <1>q, <2>1, <4>2, AskLegal
      <4>4. x \in Request /\ x.answer = None /\ x.op = q.op /\ x.token = None /\ x.pc = "extract"
        BY <1>q, <2>1, <4>1, <4>2, AskShaped
      <4> QED BY <2>1, <4>1, <4>3, <4>4, NoneIsNoValue DEF Follows, Waits, Asked
    <3>2. CASE ~(q.answer = "ok" /\ support)
      BY <1>5, <1>b, <1>i, <3>2, IdleShaped DEF StartAnswered, Asked
    <3> QED BY <3>1, <3>2
  <2> QED BY <1>5, <1>m, <1>t, <2>1, <2>2 DEF StartAnswered
<1>d. q.pc # "idle" =>
        /\ Removed(data, q.p) \in [Printers -> Image] /\ Removed(thumbs, q.p) \in [Printers -> Image]
        /\ SetThumbnail(thumbs, q.p, "empty") \in [Printers -> Image]
        /\ q.image \in Files => SetThumbnail(thumbs, q.p, q.image) \in [Printers -> Image]
  BY <1>q, <1>t DEF Removed, SetThumbnail, Image
<1>6. CASE ExtractAnswered(s)
  <2>1. q.pc = "extract" /\ q.answer # None BY <1>6 DEF ExtractAnswered
  <2>2. q.token = None /\ "write" \in Calls /\ Suits(q.op, "write")
    BY <1>q, <2>1, IdleShaped DEF Legal, Calls, Suits, ThumbnailCalls
  <2>5. cache' = cache BY <1>6 DEF ExtractAnswered
  <2>3. Becomes(s, x) /\ Follows(q, x) /\ x.answer # "ok" /\ Asked(x, cache'[x.p], x.p \in Existing)
    <3>1. CASE q.answer = "ok" /\ q.image # "empty"
      <4>1. x = Ask(q, "write") /\ Becomes(s, x) BY <1>6, <1>b, <3>1 DEF ExtractAnswered
      <4>2. q.image \in Files BY <1>q, <2>1, <3>1, IdleShaped DEF Legal
      <4>3. Legal(Ask(q, "write")) BY <1>q, <2>1, <2>2, <4>2, AskLegal
      <4>4. x \in Request /\ x.answer = None /\ x.op = q.op /\ x.token = None /\ x.pc = "write"
        BY <1>q, <2>1, <2>2, <4>1, AskShaped
      <4> QED BY <2>1, <4>1, <4>3, <4>4, NoneIsNoValue DEF Follows, Waits, Asked
    <3>2. CASE ~(q.answer = "ok" /\ q.image # "empty")
      <4>1. x = AfterThumbnail(q) /\ Becomes(s, x) BY <1>6, <1>b, <3>2 DEF ExtractAnswered
      <4>2. Goes(q, AfterThumbnail(q), cache) BY <1>q, <2>1, <2>2, ThumbnailGoes
      <4> QED BY <2>1, <2>5, <4>1, <4>2, GoesFollows, GoesAsked
    <3> QED BY <3>1, <3>2
  <2>4. data' \in [Printers -> Image] /\ thumbs' \in [Printers -> Image]
    BY <1>6, <1>d, <1>t, <2>1 DEF ExtractAnswered, Cleared
  <2> QED BY <1>6, <1>m, <1>t, <2>1, <2>3, <2>4, <2>5 DEF ExtractAnswered
<1>7. CASE WriteAnswered(s)
  <2>1. q.pc \in {"write", "opened"} /\ q.answer # None /\ q.pc # "idle"
    BY <1>7 DEF WriteAnswered
  <2>2. q.token = None /\ q.image \in Files BY <1>q, <2>1, IdleShaped DEF Legal
  <2>3. x = AfterThumbnail(q) /\ Becomes(s, x) BY <1>7, <1>b DEF WriteAnswered
  <2>4. Goes(q, AfterThumbnail(q), cache) BY <1>q, <2>1, <2>2, ThumbnailGoes
  <2>7. cache' = cache BY <1>7 DEF WriteAnswered
  <2>5. Follows(q, x) /\ x.answer # "ok" /\ Asked(x, cache'[x.p], x.p \in Existing)
    BY <2>1, <2>3, <2>4, <2>7, GoesFollows, GoesAsked
  <2>6. data' \in [Printers -> Image] /\ thumbs' \in [Printers -> Image]
    BY <1>7, <1>d, <1>t, <2>1, <2>2 DEF WriteAnswered, Cleared
  <2> QED BY <1>7, <1>m, <1>t, <2>1, <2>3, <2>5, <2>6, <2>7 DEF WriteAnswered
<1> QED BY <1>1, <1>2, <1>3, <1>4, <1>5, <1>6, <1>7 DEF Answered

\* There is room for one more upload.
RoomToUpload ==
  Cardinality(currentUploads) + Cardinality({r \in Slots : req[r].op = "upload"}) < Sessions

\* A request begins, by itself or by the task.
BegunMoves(s) ==
  /\ Becomes(s, req'[s]) /\ req'[s] \in Request /\ Legal(req'[s])
  /\ req[s] = Idle /\ Serving /\ Asked(req'[s], cache[req'[s].p], req'[s].p \in Existing)
  /\ req'[s].op # "boot"
  /\ req'[s].token # None => req'[s].token = NewToken
  /\ req'[s].op = "upload" \/ req'[s].token # None => RoomToUpload
  /\ UNCHANGED <<mode, printers, disk, cache, support, data, thumbs, left>>
  /\ due' \in BOOLEAN

LEMMA OfReady ==
  ASSUME NEW op \in Ops, NEW p \in Printers, NEW f \in Files \cup {None},
         op \in {"delete", "upload", "reload", "print"} => f \in Files
  PROVE  /\ Ready(Of(op, p, f)) /\ Of(op, p, f).op = op /\ Of(op, p, f).token = None
         /\ Of(op, p, f).todo = {} /\ Of(op, p, f).p = p /\ Of(op, p, f).f = f
         /\ Of(op, p, f).pc = "idle"
  BY NoneIsNoValue DEF Of, Ready, Idle, Request, Image, Ops

LEMMA ModeValid == ASSUME Shape PROVE mode.printers \subseteq Printers /\ mode.files \subseteq Files
                                      /\ mode.slots \subseteq Slots
  BY ClientsAreValid DEF Shape, TypeOK

LEMMA BegunShaped ==
  ASSUME Shape, NEW s \in Slots, Requested(s) \/ CleanTaskRuns(s), RoomToUpload => TokenFree
  PROVE  BegunMoves(s)
<1> DEFINE x == req'[s]
<1>t. req \in [Slots -> Request] /\ due \in BOOLEAN BY DEF Shape, TypeOK
<1>b. ASSUME NEW y, Becomes(s, y) PROVE x = y /\ Becomes(s, x) BY <1>b, <1>t DEF Becomes
<1>g. ASSUME NEW op \in Ops, NEW p \in Printers, NEW y, Begin(s, op, p, y), y \in Request, Legal(y),
             Asked(y, cache[y.p], y.p \in Existing), y.op = op, y.token # None => y.token = NewToken,
             op = "upload" \/ y.token # None => RoomToUpload
      PROVE  BegunMoves(s)
  <2>1. x = y /\ Becomes(s, x) /\ req[s] = Idle /\ Serving
        /\ UNCHANGED <<mode, printers, disk, cache, support, data, thumbs, due, left>>
    BY <1>b, <1>g DEF Begin
  <2>2. op # "boot" BY DEF Ops
  <2> QED BY <1>g, <1>t, <2>1, <2>2 DEF BegunMoves
<1>1. CASE CleanTaskRuns(s)
  <2> DEFINE ps == Listed({"enabled"})
             q == [Idle EXCEPT !.op = "clean", !.queue = After(ps, First(ps)), !.all = ps]
  <2>1. Becomes(s, IF ps = {} THEN Idle ELSE LoadFiles(q, First(ps), "load"))
    BY <1>1 DEF CleanTaskRuns
  <2>2. ps \in SUBSET Printers BY DEF Listed
  <2>3. /\ Becomes(s, x) /\ x \in Request /\ Legal(x) /\ Asked(x, cache[x.p], x.p \in Existing)
        /\ x.op # "boot"
        /\ x.op # "upload" /\ x.token = None
    <3>1. CASE ps = {} BY <1>b, <2>1, <3>1, IdleShaped, NoneIsNoValue DEF Legal, Ops, Asked
    <3>2. CASE ps # {}
      <4>1. x = LoadFiles(q, First(ps), "load") /\ Becomes(s, x) BY <1>b, <2>1, <3>2
      <4>2. First(ps) \in Printers /\ After(ps, First(ps)) \subseteq Printers
        BY <2>2, <3>2, FirstIsOne
      <4>3. q \in Request /\ q.op = "clean" /\ q.token = None
        BY <2>2, <4>2 DEF Idle, Request, Image
      <4>4. "load" \in Listings /\ Suits("clean", "load")
        BY DEF Listings, Suits, ThumbnailCalls
      <4> HIDE DEF q, ps
      <4>5. Goes(q, LoadFiles(q, First(ps), "load"), cache)
            /\ LoadFiles(q, First(ps), "load").op = q.op
        BY <4>2, <4>3, <4>4, LoadGoes, NoneIsNoValue
      <4>6. Asked(x, cache[x.p], x.p \in Existing) BY <4>1, <4>5, GoesAsked
      <4> QED BY <4>1, <4>3, <4>5, <4>6 DEF Goes, Waits
    <3> QED BY <3>1, <3>2
  <2>4. req[s] = Idle /\ Serving /\ due' \in BOOLEAN
        /\ UNCHANGED <<mode, printers, disk, cache, support, data, thumbs, left>>
    BY <1>1 DEF CleanTaskRuns
  <2> QED BY <2>3, <2>4 DEF BegunMoves
<1>2. CASE Requested(s)
  <2>1. PICK p \in mode.printers :
          \/ GetFiles(s, p) \/ ClearPrinterFiles(s, p)
          \/ \E f \in mode.files :
               \/ DeleteFileOrFolder(s, p, f) \/ UploadPrinterFile(s, p, f)
               \/ ReloadThumbnail(s, p, f) \/ StartPrintFile(s, p, f)
    BY <1>2 DEF Requested
  <2>2. p \in Printers BY ModeValid
  <2>3. CASE GetFiles(s, p)
    <3> DEFINE q == Of("list", p, None)
               y == LoadFiles(q, p, "load")
    <3>1. Begin(s, "list", p, y) BY <2>3 DEF GetFiles
    <3>2. "list" \in Ops /\ "load" \in Listings /\ Suits("list", "load")
      BY DEF Ops, Listings, Suits, ThumbnailCalls
    <3>3. Ready(q) /\ q.op = "list" /\ q.token = None BY <2>2, <3>2, OfReady
    <3> HIDE DEF q
    <3>4. Goes(q, y, cache) /\ y.op = "list" BY <2>2, <3>2, <3>3, LoadGoes DEF Ready
    <3> HIDE DEF y
    <3>5. y \in Request /\ Legal(y) /\ Asked(y, cache[y.p], y.p \in Existing) /\ y.token = None
      BY <3>3, <3>4, GoesAsked DEF Goes, Waits
    <3> QED BY <1>g, <2>2, <3>1, <3>2, <3>4, <3>5
  <2>4. CASE ClearPrinterFiles(s, p)
    <3> DEFINE q == Of("clear", p, None)
               y == Ask(q, "scan")
    <3>1. Begin(s, "clear", p, y) BY <2>4 DEF ClearPrinterFiles
    <3>2. "clear" \in Ops /\ "scan" \in Calls /\ Suits("clear", "scan")
      BY DEF Ops, Calls, FileCalls, Listings, Suits, ThumbnailCalls
    <3>3. Ready(q) /\ q.op = "clear" /\ q.token = None BY <2>2, <3>2, OfReady
    <3> HIDE DEF q
    <3>4. Legal(y) BY <3>2, <3>3, AskLegal
    <3>5. y \in Request /\ y.op = "clear" /\ y.token = None /\ y.answer = None
      BY <3>2, <3>3, AskShaped DEF Ready
    <3> HIDE DEF y
    <3>6. Asked(y, cache[y.p], y.p \in Existing) BY <3>5, NoneIsNoValue DEF Asked
    <3> QED BY <1>g, <2>2, <3>1, <3>2, <3>4, <3>5, <3>6, NoneIsNoValue
  <2>5. ASSUME NEW f \in mode.files, DeleteFileOrFolder(s, p, f) PROVE BegunMoves(s)
    <3> DEFINE r == Of("delete", p, f)
               q == [r EXCEPT !.todo = {f}]
               y == Ask(q, "delete")
    <3>1. Begin(s, "delete", p, y) BY <2>5 DEF DeleteFileOrFolder
    <3>2. "delete" \in Ops /\ "delete" \in Calls /\ Suits("delete", "delete")
      BY DEF Ops, Calls, FileCalls, Listings, Suits, ThumbnailCalls
    <3>3. Ready(r) /\ r.op = "delete" /\ r.token = None /\ r.f = f /\ r.p = p /\ f \in Files
      BY <2>2, <3>2, OfReady, ModeValid
    <3> HIDE DEF r
    <3>4. q \in Request /\ q.op = "delete" /\ q.token = None /\ q.f = f /\ q.todo = {f} /\ q.p = p
      BY <3>3 DEF Ready, Request
    <3> HIDE DEF q
    <3>5. Ready(q) BY <2>2, <3>3, <3>4, NoneIsNoValue DEF Ready, Ops
    <3>6. Legal(y) BY <3>2, <3>4, <3>5, AskLegal
    <3>7. y \in Request /\ y.op = "delete" /\ y.token = None /\ y.answer = None
      BY <3>2, <3>4, AskShaped
    <3> HIDE DEF y
    <3>8. Asked(y, cache[y.p], y.p \in Existing) BY <3>7, NoneIsNoValue DEF Asked
    <3> QED BY <1>g, <2>2, <3>1, <3>2, <3>6, <3>7, <3>8, NoneIsNoValue
  <2>6. ASSUME NEW f \in mode.files, UploadPrinterFile(s, p, f) PROVE BegunMoves(s)
    <3> DEFINE q == Of("upload", p, f)
               y == IF support THEN Ask(q, "extract") ELSE AfterThumbnail(q)
    <3>1. Begin(s, "upload", p, y) /\ RoomToUpload
      BY <2>6 DEF UploadPrinterFile, RoomToUpload
    <3>2. "upload" \in Ops /\ "extract" \in Calls /\ Suits("upload", "extract")
      BY DEF Ops, Calls, FileCalls, Listings, Suits, ThumbnailCalls
    <3>3. Ready(q) /\ q.op = "upload" /\ q.token = None /\ q.pc = "idle" /\ TokenFree /\ RoomToUpload
      BY <2>2, <3>1, <3>2, OfReady, ModeValid
    <3> HIDE DEF q
    <3>4. CASE support
      <4>1. y = Ask(q, "extract") BY <3>4
      <4>2. Legal(Ask(q, "extract")) BY <3>2, <3>3, AskLegal
      <4>3. y \in Request /\ y.op = "upload" /\ y.token = None /\ y.answer = None /\ y.pc = "extract"
        BY <3>2, <3>3, <4>1, AskShaped DEF Ready
      <4> HIDE DEF y
      <4>4. Asked(y, cache[y.p], y.p \in Existing) BY <4>3, NoneIsNoValue DEF Asked
      <4> QED BY <1>g, <2>2, <3>1, <3>2, <3>3, <4>1, <4>2, <4>3, <4>4, NoneIsNoValue
    <3>5. CASE ~support
      <4>1. y = AfterThumbnail(q) BY <3>5
      <4>2. Goes(q, AfterThumbnail(q), cache) BY <3>3, ThumbnailGoes
      <4> HIDE DEF y
      <4>3. y \in Request /\ Legal(y) /\ (y.token # None => y.token = NewToken)
            /\ (y = Idle \/ y.op = "upload") /\ Asked(y, cache[y.p], y.p \in Existing)
        BY <3>3, <4>1, <4>2, GoesAsked DEF Goes
      <4>4. CASE y.op = "upload" BY <1>g, <2>2, <3>1, <3>2, <3>3, <4>3, <4>4
      <4>5. CASE y = Idle
        <5>1. x = y /\ Becomes(s, x) /\ req[s] = Idle /\ Serving
              /\ UNCHANGED <<mode, printers, disk, cache, support, data, thumbs, due, left>>
          BY <1>b, <3>1 DEF Begin
        <5> QED BY <1>t, <3>3, <4>3, <4>5, <5>1, IdleShaped, NoneIsNoValue DEF BegunMoves
      <4> QED BY <4>3, <4>4, <4>5
    <3> QED BY <3>4, <3>5 DEF Shape, TypeOK
  <2>7. ASSUME NEW f \in mode.files, ReloadThumbnail(s, p, f) PROVE BegunMoves(s)
    <3> DEFINE q == Of("reload", p, f)
               y == Ask(q, "extract")
    <3>1. Begin(s, "reload", p, y) BY <2>7 DEF ReloadThumbnail
    <3>2. "reload" \in Ops /\ "extract" \in Calls /\ Suits("reload", "extract")
      BY DEF Ops, Calls, FileCalls, Listings, Suits, ThumbnailCalls
    <3>3. Ready(q) /\ q.op = "reload" /\ q.token = None BY <2>2, <3>2, OfReady, ModeValid
    <3> HIDE DEF q
    <3>4. Legal(y) BY <3>2, <3>3, AskLegal
    <3>5. y \in Request /\ y.op = "reload" /\ y.token = None /\ y.answer = None
      BY <3>2, <3>3, AskShaped DEF Ready
    <3> HIDE DEF y
    <3>6. Asked(y, cache[y.p], y.p \in Existing) BY <3>5, NoneIsNoValue DEF Asked
    <3> QED BY <1>g, <2>2, <3>1, <3>2, <3>4, <3>5, <3>6, NoneIsNoValue
  <2>8. ASSUME NEW f \in mode.files, StartPrintFile(s, p, f) PROVE BegunMoves(s)
    <3> DEFINE q == Of("print", p, f)
               y == Ask(q, "start")
    <3>1. Begin(s, "print", p, y) BY <2>8 DEF StartPrintFile
    <3>2. "print" \in Ops /\ "start" \in Calls /\ Suits("print", "start")
      BY DEF Ops, Calls, FileCalls, Listings, Suits, ThumbnailCalls
    <3>3. Ready(q) /\ q.op = "print" /\ q.token = None BY <2>2, <3>2, OfReady, ModeValid
    <3> HIDE DEF q
    <3>4. Legal(y) BY <3>2, <3>3, AskLegal
    <3>5. y \in Request /\ y.op = "print" /\ y.token = None /\ y.answer = None
      BY <3>2, <3>3, AskShaped DEF Ready
    <3> HIDE DEF y
    <3>6. Asked(y, cache[y.p], y.p \in Existing) BY <3>5, NoneIsNoValue DEF Asked
    <3> QED BY <1>g, <2>2, <3>1, <3>2, <3>4, <3>5, <3>6, NoneIsNoValue
  <2> QED BY <2>1, <2>3, <2>4, <2>5, <2>6, <2>7, <2>8
<1> QED BY <1>1, <1>2

\* Nothing that a request waits for: the purge of the lists, somebody at a printer, changes of
\* the printers and of the support of thumbnails.
Others == PurgeFiles \/ Disturbed \/ \E enabled \in BOOLEAN : UpdateThumbnailSupport(enabled)

OthersMove ==
  /\ printers' \in [Printers -> {"enabled", "disabled", "deleted"}]
  /\ disk' \in [Printers -> Listing] /\ cache' \in [Printers -> Listing \cup {None}]
  /\ support' \in BOOLEAN /\ left' \in Nat
  /\ data' \in [Printers -> Image] /\ thumbs' \in [Printers -> Image]
  /\ UNCHANGED <<mode, req, due>>

LEMMA OthersShaped ==
  ASSUME Shape, Others
  PROVE  OthersMove
<1>t. /\ printers \in [Printers -> {"enabled", "disabled", "deleted"}]
      /\ disk \in [Printers -> Listing] /\ cache \in [Printers -> Listing \cup {None}]
      /\ support \in BOOLEAN /\ left \in Nat
      /\ data \in [Printers -> Image] /\ thumbs \in [Printers -> Image]
  BY DEF Shape, TypeOK
<1>s. ASSUME NEW d, Spend(d) PROVE left' \in Nat BY <1>s, SpendIsNat
<1>1. CASE PurgeFiles BY <1>1, <1>t DEF PurgeFiles, OthersMove
<1>2. ASSUME NEW p \in Printers, ForeignChange(p) PROVE OthersMove
  <2>1. PICK f \in mode.files, d \in {"old", "recent", None} : disk' = [disk EXCEPT ![p][f] = d]
    BY <1>2 DEF ForeignChange
  <2>2. disk' \in [Printers -> Listing] BY <1>t, <2>1, DiskSet, ModeValid
  <2>3. left' \in Nat BY <1>2, <1>s DEF ForeignChange
  <2> QED BY <1>2, <1>t, <2>2, <2>3 DEF ForeignChange, OthersMove
<1>3. ASSUME NEW p \in Printers, PrintersDeleted(p) PROVE OthersMove
  <2>1. left' \in Nat BY <1>3, <1>s DEF PrintersDeleted
  <2>2. data' \in [Printers -> Image] /\ thumbs' \in [Printers -> Image]
    BY <1>3, <1>t DEF PrintersDeleted, Cleared, Removed, SetThumbnail, Image
  <2> QED BY <1>3, <1>t, <2>1, <2>2 DEF PrintersDeleted, OthersMove
<1>4. ASSUME NEW p \in Printers, NEW state \in {"enabled", "disabled"}, SetEnabled(p, state)
      PROVE  OthersMove
  <2>1. left' \in Nat BY <1>4, <1>s DEF SetEnabled
  <2> QED BY <1>4, <1>t, <2>1 DEF SetEnabled, OthersMove
<1>5. ASSUME NEW enabled \in BOOLEAN, UpdateThumbnailSupport(enabled) PROVE OthersMove
  <2>1. left' \in Nat BY <1>5, <1>s DEF UpdateThumbnailSupport
  <2>2. thumbs' \in [Printers -> Image]
    BY <1>5, <1>t DEF UpdateThumbnailSupport, LoadCache, NoThumbnails, Image
  <2> QED BY <1>5, <1>t, <2>1, <2>2 DEF UpdateThumbnailSupport, OthersMove
<1> QED BY <1>1, <1>2, <1>3, <1>4, <1>5 DEF Others, Disturbed

---------------------------------------------------------------------------
(* The sessions of uploads                                                 *)

Waiting == {s \in Slots : Waits(req[s])}

\* Every upload has a session of its own, listed as current, and nothing else is with
\* OctoPrint; the sessions left are enough for the uploads that have still to be sent.
Room ==
  /\ Cardinality(currentUploads) + Cardinality(Waiting) <= Sessions
  /\ Tracked \subseteq currentUploads
  /\ mode.type = "octoprint" => currentUploads = Tracked
  /\ \A s, r \in Slots : req[s].token # None /\ req[s].token = req[r].token => s = r

LEMMA RoomFinite ==
  ASSUME Shape
  PROVE  /\ IsFiniteSet(currentUploads) /\ IsFiniteSet(Waiting)
         /\ IsFiniteSet({r \in Slots : req[r].op = "upload"})
         /\ Cardinality(currentUploads) \in Nat /\ Cardinality(Waiting) \in Nat
         /\ Cardinality({r \in Slots : req[r].op = "upload"}) \in Nat
         /\ Cardinality(Waiting) <= Cardinality({r \in Slots : req[r].op = "upload"})
<1> DEFINE U == {r \in Slots : req[r].op = "upload"}
<1>1. IsFiniteSet(U) BY FS_Subset, BoundsAreFinite
<1>2. Waiting \in SUBSET U BY DEF Waiting, Waits
<1>3. IsFiniteSet(Waiting) /\ Cardinality(Waiting) <= Cardinality(U)
  BY <1>1, <1>2, FS_Subset
<1>4. IsFiniteSet(1..Sessions) BY FS_Interval, BoundsAreFinite
<1>5. IsFiniteSet(currentUploads) BY <1>4, FS_Subset DEF Shape, TypeOK
<1> QED BY <1>1, <1>3, <1>5, FS_CardinalityType

LEMMA RoomFree ==
  ASSUME Shape, Room, NEW s \in Slots, Waits(req[s]) \/ RoomToUpload
  PROVE  TokenFree /\ NewToken \notin currentUploads
<1>1. Cardinality(currentUploads) < Sessions
  <2>1. CASE Waits(req[s])
    <3>1. Waiting # {} BY <2>1 DEF Waiting
    <3>2. Cardinality(Waiting) # 0 BY <3>1, RoomFinite, FS_EmptySet
    <3> QED BY <3>2, RoomFinite, BoundsAreFinite DEF Room
  <2>2. CASE RoomToUpload BY <2>2, RoomFinite, BoundsAreFinite DEF RoomToUpload
  <2> QED BY <2>1, <2>2
<1>2. Cardinality(1..Sessions) = Sessions BY FS_Interval, BoundsAreFinite
<1>3. currentUploads # 1..Sessions BY <1>1, <1>2, BoundsAreFinite
<1>4. (1..Sessions) \ currentUploads # {} BY <1>3 DEF Shape, TypeOK
<1>5. NewToken \in (1..Sessions) \ currentUploads BY <1>4 DEF NewToken
<1> QED BY <1>5 DEF TokenFree

\* A step of one request, which begins at most one session, and only while there is room.
LEMMA RoomStep ==
  ASSUME Shape, Room, NEW s \in Slots, Becomes(s, req'[s]), mode' = mode, TrackUploads,
         req'[s] \in Request, Legal(req'[s]),
         req'[s].token \in {None, req[s].token, NewToken},
         req'[s].token \notin {None, req[s].token} => Waits(req[s]) \/ RoomToUpload,
         Waits(req'[s]) => Waits(req[s]) \/ RoomToUpload
  PROVE  Room' /\ currentUploads' \subseteq 1..Sessions
<1> DEFINE q == req[s]
           x == req'[s]
           U == {r \in Slots : req[r].op = "upload"}
<1>t. /\ req \in [Slots -> Request] /\ currentUploads \subseteq 1..Sessions
      /\ req' = [req EXCEPT ![s] = x] /\ \A r \in Slots \ {s} : req'[r] = req[r]
      /\ req' \in [Slots -> Request]
  BY DEF Shape, TypeOK, Becomes
<1>d. Tracked' = {req'[r].token : r \in Slots} \ {None} BY DEF Tracked
<1>u. currentUploads' = (currentUploads \ (Reported \ Tracked')) \cup Tracked'
  BY DEF TrackUploads
<1>o. mode.type = "octoprint" => currentUploads' = Tracked' BY <1>u DEF Room, Reported
<1>r. Tracked \subseteq currentUploads BY DEF Room
<1>w. Waiting' = {r \in Slots : Waits(req'[r])} BY DEF Waiting
<1>s. Tracked' \subseteq 1..Sessions /\ currentUploads' \subseteq 1..Sessions
  <2>1. \A r \in Slots : req'[r].token \in (1..Sessions) \cup {None} BY <1>t DEF Request
  <2> QED BY <1>d, <1>t, <1>u, <2>1, ZenonT(60)
<1>f. /\ IsFiniteSet(currentUploads) /\ IsFiniteSet(Waiting) /\ IsFiniteSet(U)
      /\ Cardinality(currentUploads) \in Nat /\ Cardinality(Waiting) \in Nat
      /\ Cardinality(U) \in Nat /\ Cardinality(Waiting) <= Cardinality(U) /\ Sessions \in Nat
  BY RoomFinite, BoundsAreFinite
<1>1. CASE x.token \in {None, q.token}
  <2>1. Tracked' \subseteq Tracked BY <1>1, <1>d, <1>t DEF Tracked
  <2>2. currentUploads' \in SUBSET currentUploads BY <1>r, <1>u, <2>1
  <2>3. IsFiniteSet(currentUploads') /\ Cardinality(currentUploads') <= Cardinality(currentUploads)
        /\ Cardinality(currentUploads') \in Nat
    BY <1>f, <2>2, FS_Subset, FS_CardinalityType
  <2>4. Cardinality(currentUploads') + Cardinality(Waiting') <= Sessions
    <3>1. CASE Waits(x) => Waits(q)
      <4>1. Waiting' \in SUBSET Waiting BY <1>t, <1>w, <3>1 DEF Waiting
      <4>2. Cardinality(Waiting') <= Cardinality(Waiting) /\ Cardinality(Waiting') \in Nat
        BY <1>f, <4>1, FS_Subset, FS_CardinalityType
      <4>3. Cardinality(currentUploads) + Cardinality(Waiting) <= Sessions BY DEF Room
      <4> QED BY <1>f, <2>3, <4>2, <4>3
    <3>2. CASE RoomToUpload
      <4>1. Waiting' \in SUBSET (Waiting \cup {s}) BY <1>t, <1>w DEF Waiting
      <4>2. IsFiniteSet(Waiting \cup {s}) /\ Cardinality(Waiting \cup {s}) <= Cardinality(Waiting) + 1
        <5>1. IsFiniteSet(Waiting \cup {s}) /\ Cardinality(Waiting \cup {s}) =
                IF s \in Waiting THEN Cardinality(Waiting) ELSE Cardinality(Waiting) + 1
          BY <1>f, FS_AddElement
        <5> QED BY <1>f, <5>1
      <4>3. Cardinality(Waiting') <= Cardinality(Waiting \cup {s}) /\ Cardinality(Waiting') \in Nat
            /\ Cardinality(Waiting \cup {s}) \in Nat
        BY <4>1, <4>2, FS_Subset, FS_CardinalityType
      <4>4. Cardinality(currentUploads) + Cardinality(U) < Sessions BY <3>2 DEF RoomToUpload
      <4> QED BY <1>f, <2>3, <4>2, <4>3, <4>4
    <3> QED BY <3>1, <3>2
  <2>5. \A a, b \in Slots : req'[a].token # None /\ req'[a].token = req'[b].token => a = b
    <3>1. \A a, b \in Slots : req[a].token # None /\ req[a].token = req[b].token => a = b
      BY DEF Room
    <3>2. \A a \in Slots : req'[a].token \in {None, req[a].token} BY <1>1, <1>t
    <3> QED BY <3>1, <3>2
  <2>6. Tracked' \subseteq currentUploads' BY <1>u
  <2> QED BY <1>o, <1>s, <2>4, <2>5, <2>6 DEF Room
<1>2. CASE x.token = NewToken /\ x.token \notin {None, q.token}
  <2>1. Waits(q) \/ RoomToUpload BY <1>2
  <2>2. NewToken \notin currentUploads BY <2>1, RoomFree
  <2>3. Tracked' \subseteq Tracked \cup {NewToken} BY <1>2, <1>d, <1>t DEF Tracked
  <2>4. currentUploads' \in SUBSET (currentUploads \cup {NewToken}) BY <1>r, <1>u, <2>3
  <2>5. IsFiniteSet(currentUploads \cup {NewToken})
        /\ Cardinality(currentUploads \cup {NewToken}) = Cardinality(currentUploads) + 1
    BY <1>f, <2>2, FS_AddElement
  <2>6. Cardinality(currentUploads') <= Cardinality(currentUploads) + 1
        /\ Cardinality(currentUploads') \in Nat
    BY <2>4, <2>5, FS_Subset, FS_CardinalityType
  <2>7. ~Waits(x) BY <1>2, IdleShaped DEF Legal, Waits
  <2>8. Waiting' \in SUBSET (Waiting \ {s}) BY <1>t, <1>w, <2>7 DEF Waiting
  <2>9. IsFiniteSet(Waiting \ {s}) /\ Cardinality(Waiting \ {s}) =
          IF s \in Waiting THEN Cardinality(Waiting) - 1 ELSE Cardinality(Waiting)
    BY <1>f, FS_RemoveElement
  <2>10. Cardinality(Waiting') <= Cardinality(Waiting \ {s}) /\ Cardinality(Waiting') \in Nat
         /\ Cardinality(Waiting \ {s}) \in Nat
    BY <2>8, <2>9, FS_Subset, FS_CardinalityType
  <2>11. Cardinality(currentUploads') + Cardinality(Waiting') <= Sessions
    <3>1. CASE Waits(q)
      <4>1. s \in Waiting BY <3>1 DEF Waiting
      <4>2. Cardinality(currentUploads) + Cardinality(Waiting) <= Sessions BY DEF Room
      <4> QED BY <1>f, <2>6, <2>9, <2>10, <4>1, <4>2
    <3>2. CASE RoomToUpload
      <4>1. Cardinality(currentUploads) + Cardinality(U) < Sessions BY <3>2 DEF RoomToUpload
      <4> QED BY <1>f, <2>6, <2>9, <2>10, <4>1
    <3> QED BY <2>1, <3>1, <3>2
  <2>12. \A a, b \in Slots : req'[a].token # None /\ req'[a].token = req'[b].token => a = b
    <3>1. \A a, b \in Slots : req[a].token # None /\ req[a].token = req[b].token => a = b
      BY DEF Room
    <3>2. \A a \in Slots : req[a].token # None => req[a].token \in currentUploads
      BY <1>r DEF Tracked
    <3>3. \A a \in Slots \ {s} : req'[a].token = req[a].token BY <1>t
    <3> QED BY <1>2, <2>2, <3>1, <3>2, <3>3
  <2>13. Tracked' \subseteq currentUploads' BY <1>u
  <2> QED BY <1>o, <1>s, <2>11, <2>12, <2>13 DEF Room
<1> QED BY <1>1, <1>2

---------------------------------------------------------------------------
(* The types, the requests and the sessions                                *)

Founded == Shape /\ Room

\* Every step is of one request, or of none.
LEMMA StepMoves ==
  ASSUME Founded, Step
  PROVE  \/ \E s \in Slots : (Requested(s) \/ CleanTaskRuns(s)) /\ BegunMoves(s)
         \/ \E s \in Slots : Outside(s) /\ OutsideMoves(s)
         \/ \E s \in Slots : Answered(s) /\ AnsweredMoves(s)
         \/ Others /\ OthersMove
<1>1. ASSUME NEW s \in Slots, Requested(s) \/ CleanTaskRuns(s) PROVE BegunMoves(s)
  BY <1>1, RoomFree, BegunShaped DEF Founded
<1>2. ASSUME NEW s \in Slots, Outside(s) PROVE OutsideMoves(s)
  BY <1>2, OutsideShaped DEF Founded
<1>3. ASSUME NEW s \in Slots, Answered(s) PROVE AnsweredMoves(s)
  BY <1>3, RoomFree, AnsweredShaped DEF Founded
<1>4. ASSUME Others PROVE OthersMove BY <1>4, OthersShaped DEF Founded
<1> QED BY <1>1, <1>2, <1>3, <1>4 DEF Step, Others

LEMMA BookkeepingShaped ==
  ASSUME Bookkeeping, unloaded \subseteq Printers
  PROVE  doubt' \subseteq Printers /\ tangled' \subseteq Printers /\ unloaded' \subseteq Printers
      /\ alone' \subseteq Slots
  BY DEF Bookkeeping, Listed

LEMMA FoundedStep ==
  ASSUME Founded, Step, TrackUploads, Bookkeeping
  PROVE  Founded'
<1>t. TypeOK /\ req \in [Slots -> Request] /\ \A s \in Slots : Legal(req[s])
  BY DEF Founded, Shape, TypeOK
<1>b. doubt' \subseteq Printers /\ tangled' \subseteq Printers /\ unloaded' \subseteq Printers
      /\ alone' \subseteq Slots
  BY <1>t, BookkeepingShaped DEF TypeOK
<1>m. ASSUME NEW s \in Slots, Becomes(s, req'[s]), req'[s] \in Request, Legal(req'[s])
      PROVE  req' \in [Slots -> Request] /\ \A r \in Slots : Legal(req'[r])
  BY <1>m, <1>t DEF Becomes
<1>1. ASSUME NEW s \in Slots, BegunMoves(s) PROVE Founded'
  <2> DEFINE x == req'[s]
  <2>1. /\ Becomes(s, x) /\ x \in Request /\ Legal(x) /\ req[s] = Idle
        /\ x.token # None => x.token = NewToken
        /\ x.op = "upload" \/ x.token # None => RoomToUpload
        /\ UNCHANGED <<mode, printers, disk, cache, support, data, thumbs, left>>
        /\ due' \in BOOLEAN
    BY <1>1 DEF BegunMoves
  <2>2. /\ x.token \in {None, req[s].token, NewToken}
        /\ x.token \notin {None, req[s].token} => Waits(req[s]) \/ RoomToUpload
        /\ Waits(x) => Waits(req[s]) \/ RoomToUpload
    BY <2>1 DEF Waits
  <2>3. Room' /\ currentUploads' \subseteq 1..Sessions BY <2>1, <2>2, RoomStep DEF Founded
  <2>4. req' \in [Slots -> Request] /\ \A r \in Slots : Legal(req'[r]) BY <1>m, <2>1
  <2>5. TypeOK' BY <1>b, <1>t, <2>1, <2>3, <2>4 DEF TypeOK
  <2>6. Shape' BY <2>4, <2>5 DEF Shape
  <2> QED BY <2>3, <2>6 DEF Founded
<1>2. ASSUME NEW s \in Slots, Becomes(s, req'[s]), Follows(req[s], req'[s]), mode' = mode
      PROVE  Room' /\ currentUploads' \subseteq 1..Sessions /\ req' \in [Slots -> Request]
             /\ \A r \in Slots : Legal(req'[r])
  <2> DEFINE x == req'[s]
  <2>1. /\ x \in Request /\ Legal(x)
        /\ x.token \in {None, req[s].token, NewToken}
        /\ x.token \notin {None, req[s].token} => Waits(req[s]) \/ RoomToUpload
        /\ Waits(x) => Waits(req[s]) \/ RoomToUpload
    BY <1>2 DEF Follows
  <2>2. Room' /\ currentUploads' \subseteq 1..Sessions BY <1>2, <2>1, RoomStep DEF Founded
  <2> QED BY <1>2, <1>m, <2>1, <2>2
<1>3. ASSUME NEW s \in Slots, OutsideMoves(s) PROVE Founded'
  <2>1. Follows(req[s], req'[s]) BY <1>3, AnswersFollows DEF OutsideMoves
  <2>2. Room' /\ currentUploads' \subseteq 1..Sessions /\ req' \in [Slots -> Request]
        /\ \A r \in Slots : Legal(req'[r])
    BY <1>2, <1>3, <2>1 DEF OutsideMoves
  <2>3. TypeOK' BY <1>3, <1>b, <1>t, <2>2 DEF TypeOK, OutsideMoves
  <2> QED BY <2>2, <2>3 DEF Founded, Shape
<1>4. ASSUME NEW s \in Slots, AnsweredMoves(s) PROVE Founded'
  <2>2. Room' /\ currentUploads' \subseteq 1..Sessions /\ req' \in [Slots -> Request]
        /\ \A r \in Slots : Legal(req'[r])
    BY <1>2, <1>4 DEF AnsweredMoves
  <2>3. TypeOK' BY <1>4, <1>b, <1>t, <2>2 DEF TypeOK, AnsweredMoves
  <2> QED BY <2>2, <2>3 DEF Founded, Shape
<1>5. ASSUME OthersMove PROVE Founded'
  <2>1. req' = req /\ mode' = mode BY <1>5 DEF OthersMove
  <2>2. Tracked' = Tracked /\ Waiting' = Waiting BY <2>1 DEF Tracked, Waiting
  <2>3. currentUploads' = currentUploads BY <2>2 DEF TrackUploads, Founded, Room, Reported
  <2>4. Room' BY <2>1, <2>2, <2>3 DEF Founded, Room
  <2>5. TypeOK' BY <1>5, <1>b, <1>t, <2>3 DEF TypeOK, OthersMove
  <2>6. Shape' BY <1>t, <2>1, <2>5 DEF Shape
  <2> QED BY <2>4, <2>6 DEF Founded
<1> QED BY <1>1, <1>3, <1>4, <1>5, StepMoves

\* The boot lists the files of the first printer.
LEMMA BootingShaped ==
  ASSUME NEW ps \in SUBSET Printers, ps # {}
  PROVE  /\ Booting(ps) \in Request /\ Legal(Booting(ps)) /\ Booting(ps).token = None
         /\ Booting(ps).op = "boot" /\ Booting(ps).pc = "load" /\ Booting(ps).answer = None
<1> DEFINE r == [Idle EXCEPT !.op = "boot", !.p = First(ps), !.queue = After(ps, First(ps))]
           x == Ask(r, "load")
<1>1. x = Booting(ps) BY DEF Booting
<1>2. First(ps) \in Printers /\ After(ps, First(ps)) \subseteq Printers BY FirstIsOne
<1>3. r \in Request /\ r.op = "boot" /\ r.p = First(ps) /\ r.token = None
  BY <1>2 DEF Idle, Request, Image
<1> HIDE DEF r
<1>4. Ready(r) /\ Suits(r.op, "load") /\ "load" \in Calls
  BY <1>2, <1>3, NoneIsNoValue DEF Ready, Suits, ThumbnailCalls, Calls, FileCalls, Listings
<1>5. Legal(x) BY <1>3, <1>4, AskLegal
<1>6. x \in Request /\ x.token = None /\ x.op = "boot" /\ x.pc = "load" /\ x.answer = None
  BY <1>3, <1>4, AskShaped
<1> QED BY <1>1, <1>5, <1>6

\* A process that has just started.
Started(r) ==
  \E s \in Slots, x \in Request :
    /\ r = [[t \in Slots |-> Idle] EXCEPT ![s] = x]
    /\ Legal(x) /\ x.token = None /\ x.op = "boot" /\ x.pc = "load" /\ x.answer = None

LEMMA StartedFounded ==
  ASSUME NEW rs, Started(rs)
  PROVE  /\ rs \in [Slots -> Request]
         /\ \A r \in Slots : Legal(rs[r]) /\ rs[r].token = None /\ ~Waits(rs[r])
         /\ {rs[r].token : r \in Slots} \ {None} = {} /\ {r \in Slots : Waits(rs[r])} = {}
         /\ Cardinality({}) + Cardinality({}) <= Sessions
<1>1. PICK s \in Slots, x \in Request :
        /\ rs = [[t \in Slots |-> Idle] EXCEPT ![s] = x]
        /\ Legal(x) /\ x.token = None /\ x.op = "boot" /\ x.pc = "load" /\ x.answer = None
  BY DEF Started
<1>2. rs \in [Slots -> Request] /\ (\A r \in Slots : Legal(rs[r]))
      /\ (\A r \in Slots : rs[r].token = None) /\ (\A r \in Slots : rs[r].op # "upload")
  BY <1>1, IdleShaped, NoneIsNoValue DEF Legal, Ops
<1>3. Cardinality({}) = 0 BY FS_EmptySet
<1> QED BY <1>2, <1>3, BoundsAreFinite DEF Waits

LEMMA InitStarted == ASSUME Init PROVE Started(req)
<1> DEFINE ps == Listed({"enabled"})
           s == CHOOSE s \in mode.slots : TRUE
           x == Booting(ps)
<1>1. mode.printers \subseteq Printers /\ mode.printers # {} /\ mode.slots \subseteq Slots
      /\ mode.slots # {}
  BY ClientsAreValid DEF Init
<1>2. ps = mode.printers BY <1>1 DEF Init, Listed
<1>3. /\ x \in Request /\ Legal(x) /\ x.token = None
      /\ x.op = "boot" /\ x.pc = "load" /\ x.answer = None
  BY <1>1, <1>2, BootingShaped
<1>4. s \in Slots BY <1>1
<1>5. req = [[t \in Slots |-> Idle] EXCEPT ![s] = x] BY DEF Init
<1> HIDE DEF x, s
<1> QED BY <1>3, <1>4, <1>5 DEF Started

LEMMA RestartStarted == ASSUME Shape, Restart PROVE Started(req')
<1> DEFINE ps == Listed({"enabled", "disabled"})
           s == CHOOSE s \in mode.slots : TRUE
           x == Booting(ps)
<1>1. mode.slots \subseteq Slots /\ mode.slots # {} BY ClientsAreValid DEF Shape, TypeOK
<1>2. ps \in SUBSET Printers /\ ps # {} BY DEF Restart, Listed
<1>3. /\ x \in Request /\ Legal(x) /\ x.token = None
      /\ x.op = "boot" /\ x.pc = "load" /\ x.answer = None
  BY <1>2, BootingShaped
<1>4. s \in Slots BY <1>1
<1>5. req' = [[t \in Slots |-> Idle] EXCEPT ![s] = x] BY DEF Restart
<1> HIDE DEF x, s
<1> QED BY <1>3, <1>4, <1>5 DEF Started

LEMMA InitFounded == Init => Founded
<1> SUFFICES ASSUME Init PROVE Founded OBVIOUS
<1>s. Started(req) BY InitStarted
<1>0. /\ req \in [Slots -> Request]
      /\ \A r \in Slots : Legal(req[r]) /\ req[r].token = None /\ ~Waits(req[r])
      /\ Tracked = {} /\ Waiting = {}
      /\ Cardinality({}) + Cardinality({}) <= Sessions
  BY <1>s, StartedFounded DEF Tracked, Waiting
<1>1. Room /\ req \in [Slots -> Request] /\ \A r \in Slots : Legal(req[r])
  BY <1>0 DEF Init, Room
<1>2. TypeOK BY <1>1, ClientsAreValid DEF Init, TypeOK, NoThumbnails, Image
<1> QED BY <1>1, <1>2 DEF Founded, Shape

LEMMA RestartFounded ==
  ASSUME Founded, Restart, currentUploads' = {}, doubt' = {}, tangled' = tangled \ Existing,
         unloaded' = {}, alone' = {}
  PROVE  Founded'
<1>1. Started(req') BY RestartStarted DEF Founded
<1>0. /\ req' \in [Slots -> Request]
      /\ \A r \in Slots : Legal(req'[r]) /\ req'[r].token = None /\ ~Waits(req'[r])
      /\ Tracked' = {} /\ Waiting' = {}
      /\ Cardinality({}) + Cardinality({}) <= Sessions
  BY <1>1, StartedFounded DEF Tracked, Waiting
<1>2. Room' /\ req' \in [Slots -> Request] /\ \A r \in Slots : Legal(req'[r])
  BY <1>0 DEF Room
<1>3. left' \in Nat BY SpendIsNat DEF Founded, Restart
<1>4. TypeOK' BY <1>2, <1>3 DEF Founded, Shape, TypeOK, Restart, NoThumbnails, Image
<1> QED BY <1>2, <1>4 DEF Founded, Shape

LEMMA FoundedNext == Founded /\ [Next]_vars => Founded'
<1> SUFFICES ASSUME Founded, [Next]_vars PROVE Founded' OBVIOUS
<1>1. CASE Step /\ TrackUploads /\ Bookkeeping BY <1>1, FoundedStep
<1>2. CASE Restart /\ currentUploads' = {} /\ doubt' = {} /\ tangled' = tangled \ Existing
            /\ unloaded' = {} /\ alone' = {}
  BY <1>2, RestartFounded
<1>3. CASE UNCHANGED vars BY <1>3 DEF vars, Founded, Shape, TypeOK, Room, Tracked, Waiting
<1> QED BY <1>1, <1>2, <1>3 DEF Next

\* The requests, the sessions and the lists have the values of TypeOK, and every upload under
\* way the session that it was given, for all numbers of printers, files and requests.
THEOREM FilesFounded == Spec => []Founded
<1>1. Init => Founded BY InitFounded
<1>2. Founded /\ [Next]_vars => Founded' BY FoundedNext
<1> QED BY <1>1, <1>2, PTL DEF Spec

\* TypeOK holds of every state.
THEOREM FilesTypeCorrect == Spec => []TypeOK
<1>1. Founded => TypeOK BY DEF Founded, Shape
<1> QED BY <1>1, FilesFounded, PTL

\* Clients are never shown an upload that is not under way (FileUploadTrackerCache).
THEOREM UploadsEnd == Spec => []NoStuckUploads
<1>1. Founded => NoStuckUploads
  <2> SUFFICES ASSUME Founded PROVE NoStuckUploads OBVIOUS
  <2>1. \A t \in Tracked : \E s \in Slots :
          req[s].token = t /\ req[s].pc = "upload" /\ \A r \in Slots \ {s} : req[r].token # t
    <3> SUFFICES ASSUME NEW t \in Tracked
                 PROVE  \E s \in Slots : req[s].token = t /\ req[s].pc = "upload"
                                         /\ \A r \in Slots \ {s} : req[r].token # t
      OBVIOUS
    <3>1. PICK s \in Slots : req[s].token = t /\ t # None BY DEF Tracked
    <3>2. req[s].pc = "upload" BY <3>1, IdleShaped DEF Founded, Shape, Legal
    <3>3. \A r \in Slots \ {s} : req[r].token # t BY <3>1 DEF Founded, Room
    <3> QED BY <3>1, <3>2, <3>3
  <2> QED BY <2>1 DEF Founded, Room, NoStuckUploads
<1> QED BY <1>1, FilesFounded, PTL

---------------------------------------------------------------------------
(***************************************************************************)
(* The cached lists follow the files of the printers (Fits), the clean-up  *)
(* goes by such a list, and the cached thumbnails follow their files       *)
(* (Draws). Each is an invariant of the printers that are in no doubt,     *)
(* kept by what Bookkeeping remembers.                                     *)
(***************************************************************************)

(* The lists: what a request at a printer knows of it                      *)

\* Calls before which the cached list of the printer is that of its files, or missing.
Listless(q) ==
  \/ q.pc \in {"load", "scan"}
  \/ q.pc = "upload" /\ q.answer # "ok"
  \/ q.pc = "delete" /\ q.op = "delete" /\ q.answer # "ok"

\* Request q, the cached list c and the files d of its printer; known are the printers that
\* exist. A listing that was answered is that of the files; a file that was deleted is all that
\* the cache has still to forget; a clean-up has no recent file left to delete.
Sound(q, c, d, known) ==
  /\ q.pc \in Listings /\ q.answer = "ok" => q.listing = d
  /\ q.p \in known /\ Listless(q) => c = None \/ c = d
  /\ q.p \in known /\ q.pc = "delete" /\ q.op = "delete" /\ q.answer = "ok" =>
       c = None \/ [c EXCEPT ![q.f] = None] = d
  /\ q.pc = "delete" /\ q.op \in {"clean", "upload"} => \A f \in q.todo : d[f] # "recent"

\* No two requests have calls about the files of printer p.
Single(rs, p) == \A s, r \in Slots : FilesAt(rs[s], p) /\ FilesAt(rs[r], p) => s = r

\* The requests rs, the cached list c and the files d of printer p fit together.
Fit(rs, p, c, d, known) ==
  /\ Single(rs, p)
  /\ p \in known /\ (\A s \in Slots : ~FilesAt(rs[s], p)) => c = None \/ c = d
  /\ \A s \in Slots : FilesAt(rs[s], p) => Sound(rs[s], c, d, known)

\* A request that has its printer to itself, with files d.
Lone(rs, s, d) == rs[s].pc \in FileCalls =>
  /\ \A r \in Slots : FilesAt(rs[r], rs[s].p) => r = s
  /\ rs[s].pc \in Listings /\ rs[s].answer = "ok" => rs[s].listing = d

Fits ==
  /\ \A p \in Printers \ doubt : Fit(req, p, cache[p], disk[p], Existing)
  /\ \A s \in alone : Lone(req, s, disk[req[s].p])

LEMMA CallsDiffer ==
  /\ Listings \subseteq FileCalls /\ "delete" \in FileCalls /\ "upload" \in FileCalls
  /\ FileCalls \cap (ThumbnailCalls \cup {"idle", "start"}) = {}
  /\ ThumbnailCalls \cap {"idle", "start"} = {}
  /\ "delete" \notin Listings /\ "upload" \notin Listings
  BY DEF FileCalls, Listings, ThumbnailCalls

\* A call not yet answered knows what the list says.
LEMMA AskedSound ==
  ASSUME NEW x, NEW c, NEW d, NEW known, Asked(x, c, x.p \in known),
         x.p \in known => c = None \/ c = d
  PROVE  Sound(x, c, d, known)
  BY CallsDiffer DEF Asked, Sound

\* A request that was the only one at the printer, or came to one with none, leaves the cached
\* list right.
LEMMA AfterFit ==
  ASSUME NEW rs \in [Slots -> Request], NEW s \in Slots, NEW x, NEW p, NEW c, NEW d, NEW known,
         \A r \in Slots \ {s} : ~FilesAt(rs[r], p), p \in known => c = None \/ c = d,
         FilesAt(x, p) => Asked(x, c, p \in known)
  PROVE  Fit([rs EXCEPT ![s] = x], p, c, d, known)
<1> DEFINE rt == [rs EXCEPT ![s] = x]
<1>1. rt[s] = x /\ \A r \in Slots \ {s} : ~FilesAt(rt[r], p) OBVIOUS
<1>2. FilesAt(x, p) => Sound(x, c, d, known) BY AskedSound DEF FilesAt
<1> HIDE DEF rt
<1>3. Fit(rt, p, c, d, known) BY <1>1, <1>2 DEF Fit, Single
<1> QED BY <1>3 DEF rt

\* A printer the request was not at.
LEMMA JoinFit ==
  ASSUME NEW rs \in [Slots -> Request], NEW s \in Slots, NEW x, NEW p, NEW c, NEW d, NEW known,
         Fit(rs, p, c, d, known), Single([rs EXCEPT ![s] = x], p), ~FilesAt(rs[s], p),
         FilesAt(x, p) => Asked(x, c, p \in known)
  PROVE  Fit([rs EXCEPT ![s] = x], p, c, d, known)
<1> DEFINE rt == [rs EXCEPT ![s] = x]
<1>1. rt[s] = x /\ \A r \in Slots \ {s} : rt[r] = rs[r] OBVIOUS
<1>2. CASE FilesAt(x, p)
  <2>1. \A r \in Slots \ {s} : ~FilesAt(rs[r], p)
    <3>1. Single(rt, p) OBVIOUS
    <3> HIDE DEF rt
    <3> QED BY <1>1, <1>2, <3>1 DEF Single
  <2>2. p \in known => c = None \/ c = d BY <2>1 DEF Fit
  <2> QED BY <1>2, <2>1, <2>2, AfterFit
<1>3. CASE ~FilesAt(x, p)
  <2> HIDE DEF rt
  <2>1. \A r \in Slots : FilesAt(rt[r], p) => r # s /\ FilesAt(rs[r], p) /\ rt[r] = rs[r]
    BY <1>1, <1>3
  <2>2. (\A r \in Slots : ~FilesAt(rt[r], p)) => \A r \in Slots : ~FilesAt(rs[r], p) BY <1>1
  <2>3. Fit(rt, p, c, d, known) BY <2>1, <2>2 DEF Fit, Single
  <2> QED BY <2>3 DEF rt
<1> QED BY <1>2, <1>3

\* The only request at the printer.
LEMMA OnlyFit ==
  ASSUME NEW rs \in [Slots -> Request], NEW s \in Slots, NEW x, NEW p, NEW c, NEW d, NEW known,
         Single([rs EXCEPT ![s] = x], p), FilesAt(x, p), Sound(x, c, d, known)
  PROVE  Fit([rs EXCEPT ![s] = x], p, c, d, known)
<1> DEFINE rt == [rs EXCEPT ![s] = x]
<1>1. rt[s] = x /\ Single(rt, p) OBVIOUS
<1> HIDE DEF rt
<1>2. \A r \in Slots : FilesAt(rt[r], p) => r = s BY <1>1 DEF Single
<1>3. Fit(rt, p, c, d, known) BY <1>1, <1>2 DEF Fit
<1> QED BY <1>3 DEF rt

\* A list that is forgotten and a printer that is deleted fit.
LEMMA LessFit ==
  ASSUME NEW rs, NEW p, NEW c, NEW d, NEW known, NEW b, NEW some, Fit(rs, p, c, d, known),
         b = c \/ b = None, p \in some => p \in known
  PROVE  Fit(rs, p, b, d, some)
<1>1. ASSUME NEW s \in Slots, FilesAt(rs[s], p) PROVE Sound(rs[s], b, d, some)
  BY <1>1 DEF Fit, Sound, FilesAt
<1> QED BY <1>1 DEF Fit

---------------------------------------------------------------------------
(* The lists: what the steps do                                            *)

\* What a printer may make of its files, d before and e after, when it acts on request q.
Effect(q, x, d, e) ==
  /\ q.pc \in Listings => e = d /\ (x.answer = "ok" => x.listing = d)
  /\ q.pc = "delete" =>
       \/ e = d /\ x.answer # "ok"
       \/ x.answer \in {"ok", "failed"} /\ \E f \in q.todo : e = [d EXCEPT ![f] = None]
  /\ q.pc = "upload" =>
       \/ e = d /\ x.answer # "ok"
       \/ x.answer \in {"ok", "failed"} /\ e = [d EXCEPT ![q.f] = "recent"]

LEMMA OutsideFiles ==
  ASSUME Shape, NEW s \in Slots, Outside(s)
  PROVE  /\ \A p \in Printers : ~FilesAt(req[s], p) => disk'[p] = disk[p]
         /\ req[s].pc \in FileCalls => Effect(req[s], req'[s], disk[req[s].p], disk'[req[s].p])
<1> DEFINE q == req[s]
           x == req'[s]
<1>t. /\ req \in [Slots -> Request] /\ disk \in [Printers -> Listing] /\ None # "ok"
      /\ q.pc # "idle" => q.p \in Printers /\ q.todo \subseteq Files /\ Suits(q.op, q.pc)
                          /\ (q.op = "upload" => q.f \in Files)
  BY SlotShaped, NoneIsNoValue DEF Shape, TypeOK
<1>r. q \in Request BY <1>t
<1>m. OutsideMoves(s) BY OutsideShaped
<1>a. ASSUME NEW answer, Acted(s, answer) PROVE x.answer = answer
  <2>1. req' = [req EXCEPT ![s] = [q EXCEPT !.answer = answer]] BY <1>a, <1>t DEF Acted
  <2> QED BY <1>r, <1>t, <2>1 DEF Request
<1>1. CASE disk' = disk /\ x.answer # "ok" BY <1>1, CallsDiffer DEF Effect
<1>2. CASE PrinterLists(s)
  <2>1. q.pc \in Listings /\ disk' = disk /\ x = [q EXCEPT !.answer = "ok", !.listing = disk[q.p]]
    BY <1>2, <1>t DEF PrinterLists
  <2>2. x.listing = disk[q.p] BY <1>r, <2>1 DEF Request
  <2> QED BY <2>1, <2>2, CallsDiffer DEF Effect
<1>3. CASE PrinterDeletes(s)
  <2>1. q.pc = "delete" /\ q.p \in Printers BY <1>3, <1>t DEF PrinterDeletes
  <2>2. PICK f \in q.todo, answer \in {"ok", "failed"} :
          /\ disk' = [disk EXCEPT ![q.p][f] = None]
          /\ Becomes(s, [q EXCEPT !.answer = answer, !.todo = @ \ {f}])
    BY <1>3 DEF PrinterDeletes
  <2>3. x.answer = answer BY <1>r, <1>t, <2>2 DEF Becomes, Request
  <2>4. f \in Files BY <1>t, <2>1, <2>2
  <2>5. disk'[q.p] = [disk[q.p] EXCEPT ![f] = None] /\ \A p \in Printers \ {q.p} : disk'[p] = disk[p]
    BY <1>t, <2>1, <2>2, <2>4, DiskSet
  <2>6. Effect(q, x, disk[q.p], disk'[q.p])
    BY <2>1, <2>2, <2>3, <2>5, CallsDiffer DEF Effect
  <2> QED BY <2>1, <2>5, <2>6, CallsDiffer DEF FilesAt
<1>4. CASE PrinterStores(s)
  <2>1. q.pc = "upload" /\ q.p \in Printers /\ q.f \in Files
    BY <1>4, <1>t DEF PrinterStores, Suits
  <2>2. disk' = [disk EXCEPT ![q.p][q.f] = "recent"] BY <1>4 DEF PrinterStores
  <2>3. x.answer \in {"ok", "failed"} BY <1>4, <1>a DEF PrinterStores, Answer
  <2>5. disk'[q.p] = [disk[q.p] EXCEPT ![q.f] = "recent"]
        /\ \A p \in Printers \ {q.p} : disk'[p] = disk[p]
    BY <1>t, <2>1, <2>2, DiskSet
  <2>6. Effect(q, x, disk[q.p], disk'[q.p]) BY <2>1, <2>3, <2>5, CallsDiffer DEF Effect
  <2> QED BY <2>1, <2>5, <2>6, CallsDiffer DEF FilesAt
<1>5. CASE CallFails(s) \/ UploadNotSent(s) \/ WriteFails(s)
  <2>1. disk' = disk /\ Acted(s, "failed") BY <1>5 DEF CallFails, UploadNotSent, WriteFails
  <2> QED BY <1>1, <1>a, <2>1
<1>6. CASE DeleteFails(s)
  <2>1. PICK f \in q.todo : Becomes(s, [q EXCEPT !.answer = "failed", !.todo = @ \ {f}])
    BY <1>6 DEF DeleteFails
  <2>2. x.answer = "failed" BY <1>r, <1>t, <2>1 DEF Becomes, Request
  <2> QED BY <1>1, <1>6, <2>2 DEF DeleteFails
<1>7. CASE UploadSent(s)
  <2>1. disk' = disk /\ q.answer = None /\ x = [q EXCEPT !.token = None]
    BY <1>7, <1>t DEF UploadSent
  <2>2. x.answer # "ok" BY <1>r, <1>t, <2>1 DEF Request
  <2> QED BY <1>1, <2>1, <2>2
<1>8. CASE PrinterStarts(s) \/ Extracted(s) \/ ThumbnailOpened(s) \/ ThumbnailWritten(s)
  <2>1. disk' = disk /\ q.pc \notin FileCalls
    BY <1>8, CallsDiffer
       DEF PrinterStarts, Extracted, ThumbnailOpened, ThumbnailWritten, ThumbnailCalls
  <2> QED BY <2>1
<1> QED BY <1>2, <1>3, <1>4, <1>5, <1>6, <1>7, <1>8 DEF Outside

\* What is made of the cached list, c before and b after, when an answer is handled.
Result(q, x, c, b) ==
  /\ q.pc \in {"load", "relist", "finish"} => b = IF q.answer = "ok" THEN q.listing ELSE c
  /\ q.pc = "scan" => b \in {c, None}
  /\ q.pc = "upload" => b = c /\ (q.answer = "ok" => x.pc = "finish" /\ x.p = q.p)
  /\ q.pc = "delete" /\ q.op = "delete" =>
       /\ b = IF q.answer = "ok" /\ c # None THEN [c EXCEPT ![q.f] = None] ELSE c
       /\ x = Idle \/ x = Ask(q, "delete")
  /\ q.pc = "delete" /\ q.op = "clear" =>
       \/ x = Ask(q, "delete") /\ b = c
       \/ x = Idle /\ (q.p \in Existing => b = None)
  /\ q.pc = "delete" /\ q.op \in {"clean", "upload"} =>
       b = c /\ (x = Ask(q, "delete") \/ (x.pc = "relist" /\ x.p = q.p))

LEMMA LoadShaped ==
  ASSUME NEW q \in Request, NEW p \in Printers, NEW pc \in Listings
  PROVE  LoadFiles(q, p, pc).pc = pc /\ LoadFiles(q, p, pc).p = p
<1> DEFINE r == [q EXCEPT !.p = p]
           y == Ask(r, pc)
<1>1. r \in Request /\ r.p = p /\ pc \in Calls BY DEF Request, Calls, FileCalls
<1>2. y \in Request /\ y.pc = pc /\ y.p = p
  <2> HIDE DEF r
  <2> QED BY <1>1, AskShaped
<1>3. LoadFiles(q, p, pc) = [y EXCEPT !.answer = IF p \in Existing THEN None ELSE "failed"]
  BY DEF LoadFiles
<1> HIDE DEF y
<1> QED BY <1>2, <1>3 DEF Request

LEMMA AnsweredFiles ==
  ASSUME Shape, NEW s \in Slots, Answered(s), req[s].pc \in FileCalls
  PROVE  Result(req[s], req'[s], cache[req[s].p], cache'[req[s].p])
<1> DEFINE q == req[s]
           x == req'[s]
<1>t. /\ req \in [Slots -> Request] /\ cache \in [Printers -> Listing \cup {None}]
      /\ q \in Request /\ q.p \in Printers /\ Suits(q.op, q.pc) /\ Ready(q)
      /\ q.op = "upload" => q.f \in Files
  BY SlotShaped, CallsDiffer DEF Shape, TypeOK
<1>b. ASSUME NEW y, Becomes(s, y) PROVE x = y BY <1>b, <1>t DEF Becomes
<1>1. CASE ListingAnswered(s)
  <2>1. q.pc \in {"load", "relist", "finish"}
        /\ cache'[q.p] = IF q.answer = "ok" THEN q.listing ELSE cache[q.p]
    BY <1>1, <1>t DEF ListingAnswered, CachePrinterFiles
  <2> QED BY <2>1 DEF Result
<1>l. ASSUME NEW pc \in {"relist", "finish"}
      PROVE  LoadFiles(q, q.p, pc).pc = pc /\ LoadFiles(q, q.p, pc).p = q.p
  BY <1>t, LoadShaped DEF Listings
<1>2. CASE DeleteAnswered(s)
  <2>1. q.pc = "delete" /\ cache' = DeletedCache(q)
        /\ x = CASE q.todo # {} -> Ask(q, "delete")
                 [] q.todo = {} /\ q.op \in {"upload", "clean"} -> LoadFiles(q, q.p, "relist")
                 [] OTHER -> Idle
    BY <1>2, <1>b DEF DeleteAnswered
  <2>2. CASE q.op = "delete"
    <3>1. cache'[q.p] = IF q.answer = "ok" /\ cache[q.p] # None
                        THEN [cache[q.p] EXCEPT ![q.f] = None] ELSE cache[q.p]
      BY <1>t, <2>1, <2>2 DEF DeletedCache, PurgeFile
    <3>2. x = Idle \/ x = Ask(q, "delete") BY <2>1, <2>2
    <3> QED BY <2>1, <2>2, <3>1, <3>2 DEF Result
  <2>3. CASE q.op = "clear"
    <3>1. q.todo # {} => x = Ask(q, "delete") /\ cache' = cache
      BY <2>1, <2>3 DEF DeletedCache
    <3>2. q.todo = {} => x = Idle /\ (q.p \in Existing => cache'[q.p] = None)
      BY <1>t, <2>1, <2>3 DEF DeletedCache, PurgePrinterId
    <3> QED BY <2>1, <2>3, <3>1, <3>2 DEF Result
  <2>4. CASE q.op \in {"clean", "upload"}
    <3>1. cache' = cache BY <2>1, <2>4 DEF DeletedCache
    <3>2. x = Ask(q, "delete") \/ x = LoadFiles(q, q.p, "relist") BY <2>1, <2>4
    <3>3. x = Ask(q, "delete") \/ (x.pc = "relist" /\ x.p = q.p) BY <1>l, <2>4, <3>2
    <3> QED BY <2>1, <2>4, <3>1, <3>3 DEF Result
  <2> QED BY <1>t, <2>1, <2>2, <2>3, <2>4 DEF Suits
<1>3. CASE ScanAnswered(s)
  <2> DEFINE y == [q EXCEPT !.todo = IF q.answer = "ok" THEN Names(q.listing) ELSE {}]
  <2>1. q.pc = "scan" /\ q.op = "clear" /\ (cache' = cache \/ cache' = DeletedCache(y))
    BY <1>3, <1>t DEF ScanAnswered, Suits
  <2>2. y.op = "clear" /\ y.p = q.p BY <1>t, <2>1 DEF Request
  <2> HIDE DEF y
  <2>3. DeletedCache(y)[q.p] \in {cache[q.p], None}
    BY <1>t, <2>2 DEF DeletedCache, PurgePrinterId
  <2> QED BY <2>1, <2>3 DEF Result
<1>4. CASE UploadAnswered(s)
  <2>1. q.pc = "upload" /\ cache' = cache
        /\ x = IF q.answer = "ok" THEN LoadFiles(q, q.p, "finish") ELSE Idle
    BY <1>4, <1>b DEF UploadAnswered
  <2>2. q.answer = "ok" => x.pc = "finish" /\ x.p = q.p BY <1>l, <1>t, <2>1 DEF Suits
  <2> QED BY <2>1, <2>2 DEF Result
<1>5. CASE StartAnswered(s) \/ ExtractAnswered(s) \/ WriteAnswered(s)
  BY <1>5, CallsDiffer DEF StartAnswered, ExtractAnswered, WriteAnswered, ThumbnailCalls
<1> QED BY <1>1, <1>2, <1>3, <1>4, <1>5 DEF Answered

\* One at a time are no more than one.
LEMMA AtMostOne ==
  ASSUME NEW S, IsFiniteSet(S), ~(Cardinality(S) > 1), NEW a \in S, NEW b \in S
  PROVE  a = b
<1> SUFFICES ASSUME a # b PROVE FALSE OBVIOUS
<1>1. IsFiniteSet({a}) /\ Cardinality({a}) = 1 BY FS_Singleton
<1>2. Cardinality({a} \cup {b}) = 2 BY <1>1, FS_AddElement
<1>3. {a} \cup {b} \in SUBSET S OBVIOUS
<1>4. Cardinality({a} \cup {b}) <= Cardinality(S) /\ Cardinality(S) \in Nat
  BY <1>3, FS_Subset, FS_CardinalityType
<1> QED BY <1>2, <1>4

LEMMA KindIs ==
  ASSUME NEW q
  PROVE  /\ Kind(q) = "files" <=> q.pc \in FileCalls
         /\ Kind(q) = "thumbnail" <=> q.pc \in ThumbnailCalls
         /\ Kind(q) = "none" <=> q.pc \notin FileCalls \cup ThumbnailCalls
  BY CallsDiffer DEF Kind

\* A printer that is in no doubt after a step.
LEMMA Doubtless ==
  ASSUME Founded, Bookkeeping, NEW p \in Printers, p \notin doubt'
  PROVE  /\ Single(req', p)
         /\ req' = req => disk'[p] = disk[p]
         /\ \A s \in Slots : req[s].p = p /\ req'[s] # req[s] =>
              /\ req'[s].answer = "failed" => disk' = disk
              /\ req[s].answer = "failed" => req[s].pc \notin {"relist", "finish"}
         /\ \/ p \notin doubt
            \/ \E s \in alone : /\ req[s].p = p /\ req'[s] # req[s] /\ req[s].answer = "ok"
                                /\ req[s].pc \in {"load", "relist", "finish"}
<1> DEFINE busy == {s \in Slots : Kind(req'[s]) = "files" /\ req'[s].p = p}
<1>1. /\ ~(Cardinality(busy) > 1)
      /\ ~(req' = req /\ disk'[p] # disk[p])
      /\ \A s \in Slots : req[s].p = p =>
           /\ ~(req'[s] # req[s] /\ req'[s].answer = "failed" /\ disk' # disk)
           /\ ~(req'[s] # req[s] /\ req[s].answer = "failed" /\ req[s].pc \in {"relist", "finish"})
      /\ \/ p \notin doubt
         \/ \E s \in alone : /\ req[s].p = p /\ req'[s] # req[s] /\ req[s].answer = "ok"
                             /\ req[s].pc \in Listings \ {"scan"}
  BY DEF Bookkeeping, Busy, AtPrinter
<1>2. IsFiniteSet(busy) BY BoundsAreFinite, FS_Subset
<1>3. Single(req', p)
  <2>1. ASSUME NEW a \in busy, NEW b \in busy PROVE a = b
    <3> HIDE DEF busy
    <3> QED BY <1>1, <1>2, AtMostOne
  <2> QED BY <2>1, KindIs DEF Single, FilesAt
<1> HIDE DEF busy
<1> QED BY <1>1, <1>3 DEF Listings

\* A request that has a printer to itself after a step.
LEMMA AloneAfter ==
  ASSUME Founded, Bookkeeping, NEW s \in alone'
  PROVE  /\ s \in Slots
         /\ \A r \in Slots : Kind(req'[r]) = Kind(req'[s]) /\ req'[r].p = req'[s].p => r = s
         /\ \/ s \in alone
            \/ /\ req'[s] # req[s] /\ req'[s].answer # "ok"
               /\ req'[s].pc \in FileCalls \cup {"extract"}
         /\ req' = req => disk'[req'[s].p] = disk[req'[s].p]
<1> DEFINE busy == {r \in Slots : Kind(req'[r]) = Kind(req'[s]) /\ req'[r].p = req'[s].p}
<1>1. /\ s \in Slots /\ busy = {s}
      /\ \/ s \in alone
         \/ /\ req'[s] # req[s] /\ req'[s].answer # "ok"
            /\ req'[s].pc \in FileCalls \cup {"extract"}
      /\ ~(req' = req /\ disk'[req'[s].p] # disk[req'[s].p])
  BY DEF Bookkeeping, Busy, AtPrinter
<1> QED BY <1>1

---------------------------------------------------------------------------
(* The lists: the invariant                                                *)

\* A printer acts on the only request at it.
LEMMA EffectSound ==
  ASSUME NEW q, Ready(q), NEW x, Answers(q, x), q.pc \in FileCalls, q.answer = None,
         NEW c \in Listing \cup {None}, NEW d \in Listing, NEW e, NEW known,
         Sound(q, c, d, known), Effect(q, x, d, e), x.answer = "failed" => e = d
  PROVE  Sound(x, c, e, known)
<1>1. /\ x.op = q.op /\ x.p = q.p /\ x.f = q.f /\ x.todo \subseteq q.todo /\ x.pc = q.pc
      /\ q.todo \subseteq Files /\ None # "ok" /\ None # "failed"
      /\ q.op = "delete" => q.todo \subseteq {q.f}
  BY CallsDiffer, NoneIsNoValue DEF Answers, Ready, Request, ThumbnailCalls
<1>2. CASE q.pc \in Listings BY <1>1, <1>2, CallsDiffer DEF Effect, Sound, Listless
<1>3. CASE q.pc = "upload" BY <1>1, <1>3, CallsDiffer DEF Effect, Sound, Listless
<1>4. CASE q.pc = "delete" /\ x.answer # "ok"
  <2>1. e = d BY <1>1, <1>4 DEF Effect
  <2> QED BY <1>1, <1>4, <2>1, CallsDiffer DEF Sound, Listless
<1>5. CASE q.pc = "delete" /\ x.answer = "ok"
  <2>1. PICK f \in q.todo : e = [d EXCEPT ![f] = None] BY <1>5 DEF Effect
  <2>2. q.op = "delete" /\ q.p \in known => c = None \/ [c EXCEPT ![q.f] = None] = e
    BY <1>1, <1>5, <2>1 DEF Sound, Listless
  <2>3. q.op \in {"clean", "upload"} => \A g \in x.todo : e[g] # "recent"
    <3>1. None # "recent" BY NoneIsNoValue
    <3>2. \A g \in Files : e[g] \in {d[g], None} BY <1>1, <2>1 DEF Listing
    <3> QED BY <1>1, <1>5, <3>1, <3>2 DEF Sound
  <2> QED BY <1>1, <1>5, <2>2, <2>3, CallsDiffer DEF Sound, Listless
<1> QED BY <1>2, <1>3, <1>4, <1>5 DEF FileCalls

\* The printers act.
LEMMA OutsideFits ==
  ASSUME Founded, Fits, Bookkeeping, NEW s \in Slots, Outside(s), OutsideMoves(s),
         NEW p \in Printers, p \notin doubt'
  PROVE  Fit(req', p, cache[p], disk'[p], Existing)
<1> DEFINE q == req[s]
           x == req'[s]
<1>t. /\ req \in [Slots -> Request] /\ disk \in [Printers -> Listing] /\ q.answer = None
      /\ cache \in [Printers -> Listing \cup {None}] /\ q.pc # "idle" /\ Ready(q)
      /\ req' = [req EXCEPT ![s] = x] /\ Answers(q, x)
  BY SlotShaped DEF Founded, Shape, TypeOK, OutsideMoves, Becomes
<1>e. /\ \A r \in Printers : ~FilesAt(q, r) => disk'[r] = disk[r]
      /\ q.pc \in FileCalls => Effect(q, x, disk[q.p], disk'[q.p])
  BY OutsideFiles DEF Founded
<1>d. /\ Single(req', p)
      /\ q.p = p /\ x # q => (x.answer = "failed" => disk' = disk)
      /\ p \notin doubt
  <2>1. (\A r \in Slots : req'[r] # req[r] => r = s) /\ alone \subseteq Slots /\ None # "ok"
    BY <1>t, NoneIsNoValue DEF Founded, Shape, TypeOK
  <2>2. p \notin doubt
    <3>1. ~\E r \in alone : req'[r] # req[r] /\ req[r].answer = "ok" BY <1>t, <2>1
    <3> QED BY <3>1, Doubtless
  <2> QED BY <2>2, Doubtless
<1>f. Fit(req, p, cache[p], disk[p], Existing) BY <1>d DEF Fits
<1>1. CASE ~FilesAt(q, p)
  <2>1. ~FilesAt(x, p) /\ disk'[p] = disk[p]
    BY <1>1, <1>t, <1>e, CallsDiffer DEF FilesAt, Answers, ThumbnailCalls
  <2>2. Single([req EXCEPT ![s] = x], p) BY <1>d, <1>t
  <2>3. Fit([req EXCEPT ![s] = x], p, cache[p], disk[p], Existing)
    BY <1>1, <1>f, <1>t, <2>1, <2>2, JoinFit
  <2> QED BY <1>t, <2>1, <2>3
<1>2. CASE FilesAt(q, p)
  <2>1. q.p = p /\ q.pc \in FileCalls /\ Sound(q, cache[p], disk[p], Existing)
    BY <1>2, <1>f DEF FilesAt, Fit
  <2>2. Effect(q, x, disk[p], disk'[p]) /\ (x.answer = "failed" => disk'[p] = disk[p])
    <3>1. CASE x = q BY <1>e, <1>t, <2>1, <3>1, NoneIsNoValue
    <3>2. CASE x # q BY <1>d, <1>e, <2>1, <3>2
    <3> QED BY <3>1, <3>2
  <2>3. Sound(x, cache[p], disk'[p], Existing) BY <1>t, <2>1, <2>2, EffectSound
  <2>4. FilesAt(x, p) BY <1>t, <2>1, CallsDiffer DEF Answers, FilesAt, ThumbnailCalls
  <2>5. Single([req EXCEPT ![s] = x], p) BY <1>d, <1>t
  <2>6. Fit([req EXCEPT ![s] = x], p, cache[p], disk'[p], Existing)
    BY <1>t, <2>3, <2>4, <2>5, OnlyFit
  <2> QED BY <1>t, <2>6
<1> QED BY <1>1, <1>2

\* An answer is handled of the only request at its printer.
LEMMA ResultFit ==
  ASSUME NEW rs \in [Slots -> Request], NEW s \in Slots, NEW x, NEW p,
         NEW c, NEW b, NEW d, Ready(rs[s]), Suits(rs[s].op, rs[s].pc),
         rs[s].p = p, rs[s].pc \in FileCalls, rs[s].answer \in {"ok", "failed"}, x.answer # "ok",
         Result(rs[s], x, c, b), Single([rs EXCEPT ![s] = x], p),
         \A r \in Slots \ {s} : ~FilesAt(rs[r], p),
         ~Retries(rs[s], x) /\ FilesAt(x, p) => Asked(x, b, p \in Existing),
         \/ Sound(rs[s], c, d, Existing)
         \/ rs[s].pc \in {"load", "relist", "finish"} /\ rs[s].answer = "ok" /\ rs[s].listing = d,
         rs[s].answer = "failed" => rs[s].pc \notin {"relist", "finish"}
  PROVE  Fit([rs EXCEPT ![s] = x], p, b, d, Existing)
<1> DEFINE q == rs[s]
<1>l. {"load", "relist", "finish", "scan"} = Listings /\ q.pc \in Listings \cup {"delete", "upload"}
  BY DEF Listings, FileCalls
<1>k. ASSUME p \in Existing => b = None \/ b = d, ~Retries(q, x)
      PROVE  Fit([rs EXCEPT ![s] = x], p, b, d, Existing)
  <2>1. FilesAt(x, p) => Asked(x, b, p \in Existing) BY <1>k DEF FilesAt
  <2> QED BY <1>k, <2>1, AfterFit
<1>o. ASSUME FilesAt(x, p), Sound(x, b, d, Existing)
      PROVE  Fit([rs EXCEPT ![s] = x], p, b, d, Existing)
  BY <1>o, OnlyFit
<1>1. CASE q.pc \in {"load", "relist", "finish"} /\ q.answer = "ok"
  <2>1. b = d BY <1>1, <1>l DEF Result, Sound
  <2> QED BY <1>1, <1>k, <2>1 DEF Retries
<1>2. CASE (q.pc = "load" /\ q.answer = "failed") \/ q.pc = "scan"
  <2>1. p \in Existing => b = None \/ b = d BY <1>2 DEF Result, Sound, Listless
  <2> QED BY <1>2, <1>k, <2>1 DEF Retries
<1>3. CASE q.pc = "upload" /\ q.answer = "failed"
  <2>1. p \in Existing => b = None \/ b = d BY <1>3 DEF Result, Sound, Listless
  <2> QED BY <1>3, <1>k, <2>1 DEF Retries
<1>4. CASE q.pc = "upload" /\ q.answer = "ok"
  <2>1. x.pc = "finish" /\ x.p = p BY <1>4 DEF Result
  <2> QED BY <1>l, <1>o, <2>1, CallsDiffer DEF FilesAt, Sound, Listless
<1>5. CASE q.pc = "delete" /\ x = Ask(q, "delete")
  <2>1. /\ x.pc = "delete" /\ x.p = p /\ x.op = q.op /\ x.f = q.f /\ x.todo = q.todo
        /\ x.answer = None
    <3>1. q \in Request /\ "delete" \in Calls BY DEF Calls, FileCalls
    <3> HIDE DEF q
    <3> QED BY <1>5, <3>1, AskShaped DEF q
  <2>2. Sound(q, c, d, Existing) BY <1>5
  <2>3. q.op = "delete" /\ p \in Existing => b = None \/ b = d
    BY <1>5, <2>2 DEF Result, Sound, Listless
  <2>4. Sound(x, b, d, Existing)
    BY <1>5, <1>l, <2>1, <2>2, <2>3, CallsDiffer, NoneIsNoValue DEF Sound, Listless
  <2> QED BY <1>o, <2>1, <2>4, CallsDiffer DEF FilesAt
<1>6. CASE q.pc = "delete" /\ x # Ask(q, "delete") /\ q.op = "delete"
  <2>1. p \in Existing => b = None \/ b = d BY <1>6 DEF Result, Sound, Listless
  <2> QED BY <1>6, <1>k, <2>1 DEF Retries
<1>7. CASE q.pc = "delete" /\ x # Ask(q, "delete") /\ q.op = "clear"
  <2>1. p \in Existing => b = None BY <1>7 DEF Result
  <2> QED BY <1>7, <1>k, <2>1 DEF Retries
<1>8. CASE q.pc = "delete" /\ x # Ask(q, "delete") /\ q.op \in {"clean", "upload"}
  <2>1. x.pc = "relist" /\ x.p = p BY <1>8 DEF Result
  <2> QED BY <1>l, <1>o, <2>1, CallsDiffer DEF FilesAt, Sound, Listless
<1>9. q.pc = "delete" => q.op \in {"delete", "clear", "clean", "upload"} BY DEF Suits
<1> QED BY <1>1, <1>2, <1>3, <1>4, <1>5, <1>6, <1>7, <1>8, <1>9, <1>l

\* The answers are handled.
LEMMA AnsweredFits ==
  ASSUME Founded, Fits, Bookkeeping, NEW s \in Slots, Answered(s), AnsweredMoves(s),
         NEW p \in Printers, p \notin doubt'
  PROVE  Fit(req', p, cache'[p], disk[p], Existing)
<1> DEFINE q == req[s]
           x == req'[s]
<1>t. /\ req \in [Slots -> Request] /\ q.pc # "idle" /\ Ready(q) /\ Suits(q.op, q.pc)
      /\ req' = [req EXCEPT ![s] = x] /\ q.answer \in {"ok", "failed"} /\ x.answer # "ok"
      /\ ~Retries(q, x) => Asked(x, cache'[x.p], x.p \in Existing)
      /\ alone \subseteq Slots
  <2>1. req \in [Slots -> Request] /\ alone \subseteq Slots BY DEF Founded, Shape, TypeOK
  <2>2. q \in Request /\ q.answer # None BY <2>1 DEF AnsweredMoves
  <2> QED BY <2>1, <2>2, SlotShaped DEF Founded, AnsweredMoves, Becomes, Request
<1>o. \A r \in Slots : req'[r] # req[r] => r = s BY <1>t
<1>u. Single([req EXCEPT ![s] = x], p)
  <2>1. Single(req', p) BY Doubtless
  <2> QED BY <1>t, <2>1
<1>1. CASE ~FilesAt(q, p)
  <2>1. cache'[p] = cache[p] BY <1>1 DEF AnsweredMoves
  <2>2. p \notin doubt
    <3>1. ~\E r \in alone : req[r].p = p /\ req'[r] # req[r] /\ req[r].pc \in {"load", "relist", "finish"}
      BY <1>1, <1>o, <1>t DEF FilesAt, FileCalls, Listings
    <3> QED BY <3>1, Doubtless
  <2>3. Fit(req, p, cache'[p], disk[p], Existing) BY <2>1, <2>2 DEF Fits
  <2>4. FilesAt(x, p) => Asked(x, cache'[p], p \in Existing)
    <3>1. Retries(q, x) => x.p = q.p /\ q.pc = "delete"
      <4>1. q \in Request /\ "delete" \in Calls BY <1>t DEF Calls, FileCalls
      <4> QED BY <4>1, AskShaped DEF Retries
    <3> QED BY <1>1, <1>t, <3>1, CallsDiffer DEF FilesAt
  <2>5. Fit([req EXCEPT ![s] = x], p, cache'[p], disk[p], Existing)
    BY <1>1, <1>t, <1>u, <2>3, <2>4, JoinFit
  <2> QED BY <1>t, <2>5
<1>2. CASE FilesAt(q, p) /\ x = q
  <2>1. req' = req /\ q.answer = "failed" /\ x # Idle BY <1>2, <1>t, IdleShaped
  <2>2. p \notin doubt BY <2>1, Doubtless
  <2>3. x # Ask(q, "delete")
    <3>1. Ask(q, "delete").answer = None
      <4>1. q \in Request /\ "delete" \in Calls BY <1>t DEF Calls, FileCalls
      <4> QED BY <4>1, AskShaped
    <3> QED BY <1>2, <2>1, <3>1, NoneIsNoValue
  <2>4. Result(q, x, cache[p], cache'[p]) BY <1>2, AnsweredFiles DEF Founded, FilesAt
  <2>5. cache'[p] = cache[p] \/ cache'[p] = None
    BY <1>2, <1>t, <2>1, <2>3, <2>4 DEF Result, FilesAt, FileCalls, Listings, Suits
  <2>6. Fit(req, p, cache'[p], disk[p], Existing) BY <2>2, <2>5, LessFit DEF Fits
  <2> QED BY <2>1, <2>6
<1>3. CASE FilesAt(q, p) /\ x # q
  <2>1. q.p = p /\ q.pc \in FileCalls BY <1>3 DEF FilesAt
  <2>2. Result(q, x, cache[p], cache'[p]) BY <2>1, AnsweredFiles DEF Founded
  <2>3. q.answer = "failed" => q.pc \notin {"relist", "finish"} BY <1>3, <2>1, Doubtless
  <2>4. /\ \A r \in Slots \ {s} : ~FilesAt(req[r], p)
        /\ \/ Sound(q, cache[p], disk[p], Existing)
           \/ q.pc \in {"load", "relist", "finish"} /\ q.answer = "ok" /\ q.listing = disk[p]
    <3>1. CASE p \notin doubt
      <4>1. Fit(req, p, cache[p], disk[p], Existing) BY <3>1 DEF Fits
      <4> QED BY <1>3, <4>1 DEF Fit, Single
    <3>2. CASE p \in doubt
      <4>1. s \in alone /\ q.answer = "ok" /\ q.pc \in {"load", "relist", "finish"}
        BY <1>o, <1>t, <3>2, Doubtless
      <4>2. Lone(req, s, disk[p]) BY <2>1, <4>1 DEF Fits
      <4> QED BY <1>3, <2>1, <4>1, <4>2 DEF Lone, Listings
    <3> QED BY <3>1, <3>2
  <2>5. ~Retries(q, x) /\ FilesAt(x, p) => Asked(x, cache'[p], p \in Existing)
    BY <1>t DEF FilesAt
  <2>6. Fit([req EXCEPT ![s] = x], p, cache'[p], disk[p], Existing)
    BY <1>t, <1>u, <2>1, <2>2, <2>3, <2>4, <2>5, ResultFit
  <2> QED BY <1>t, <2>6
<1> QED BY <1>1, <1>2, <1>3

\* Requests begin.
LEMMA BegunFits ==
  ASSUME Founded, Fits, Bookkeeping, NEW s \in Slots, BegunMoves(s), NEW p \in Printers, p \notin doubt'
  PROVE  Fit(req', p, cache[p], disk[p], Existing)
<1> DEFINE x == req'[s]
<1>t. /\ req \in [Slots -> Request] /\ req[s] = Idle /\ req' = [req EXCEPT ![s] = x]
      /\ Asked(x, cache[x.p], x.p \in Existing) /\ alone \subseteq Slots
  BY DEF Founded, Shape, TypeOK, BegunMoves, Becomes
<1>1. p \notin doubt
  <2>1. ~\E r \in alone : req'[r] # req[r] /\ req[r].answer = "ok"
    BY <1>t, IdleShaped, NoneIsNoValue
  <2> QED BY <2>1, Doubtless
<1>2. Fit(req, p, cache[p], disk[p], Existing) BY <1>1 DEF Fits
<1>3. Single([req EXCEPT ![s] = x], p)
  <2>1. Single(req', p) BY Doubtless
  <2> QED BY <1>t, <2>1
<1>4. ~FilesAt(req[s], p) BY <1>t, IdleShaped, CallsDiffer DEF FilesAt
<1>5. FilesAt(x, p) => Asked(x, cache[p], p \in Existing) BY <1>t DEF FilesAt
<1>6. Fit([req EXCEPT ![s] = x], p, cache[p], disk[p], Existing)
  BY <1>t, <1>2, <1>3, <1>4, <1>5, JoinFit
<1> QED BY <1>t, <1>6

\* Nothing else makes a list wrong unseen.
LEMMA OthersFits ==
  ASSUME Founded, Fits, Bookkeeping, Others, OthersMove, NEW p \in Printers, p \notin doubt'
  PROVE  Fit(req, p, cache'[p], disk'[p], Existing')
<1>1. req' = req /\ disk'[p] = disk[p] /\ p \notin doubt BY Doubtless DEF OthersMove
<1>2. Fit(req, p, cache[p], disk[p], Existing) BY <1>1 DEF Fits
<1>3. cache'[p] = cache[p] \/ cache'[p] = None
  BY DEF Others, PurgeFiles, Disturbed, ForeignChange, PrintersDeleted, SetEnabled,
         UpdateThumbnailSupport
<1>4. p \in Existing' => p \in Existing
  <2>1. printers \in [Printers -> {"enabled", "disabled", "deleted"}]
    BY DEF Founded, Shape, TypeOK
  <2>2. printers' = printers \/ \E r \in Existing : printers' = [printers EXCEPT ![r] = printers'[r]]
    BY <2>1 DEF Others, PurgeFiles, Disturbed, ForeignChange, PrintersDeleted, SetEnabled,
         UpdateThumbnailSupport, Existing
  <2> QED BY <2>1, <2>2 DEF Existing
<1>5. Fit(req, p, cache'[p], disk[p], Existing') BY <1>2, <1>3, <1>4, LessFit
<1> QED BY <1>1, <1>5

\* A request that has a printer to itself.
LEMMA LoneStep ==
  ASSUME Founded, Fits, Bookkeeping, Step, NEW s \in alone', disk' \in [Printers -> Listing]
  PROVE  Lone(req', s, disk'[req'[s].p])
<1> DEFINE x == req'[s]
<1>a. /\ s \in Slots /\ alone \subseteq Slots /\ req \in [Slots -> Request]
      /\ \A r \in Slots : Kind(req'[r]) = Kind(x) /\ req'[r].p = x.p => r = s
      /\ s \in alone \/ x.answer # "ok"
      /\ req' = req => disk'[x.p] = disk[x.p]
  BY AloneAfter DEF Founded, Shape, TypeOK
<1>1. x.pc \in FileCalls => \A r \in Slots : FilesAt(req'[r], x.p) => r = s
  BY <1>a, KindIs DEF FilesAt
<1> SUFFICES ASSUME x.pc \in FileCalls, x.pc \in Listings, x.answer = "ok"
             PROVE  x.listing = disk'[x.p]
  BY <1>1 DEF Lone
<1>2. s \in alone /\ Lone(req, s, disk[req[s].p]) BY <1>a DEF Fits
<1>3. CASE req'[s] = req[s] /\ disk'[x.p] = disk[x.p] BY <1>2, <1>3 DEF Lone
<1>4. ASSUME NEW r \in Slots, Requested(r) \/ CleanTaskRuns(r), BegunMoves(r)
      PROVE  x.listing = disk'[x.p]
  <2>1. r # s /\ disk' = disk /\ x = req[s] BY <1>4, <1>a DEF BegunMoves, Becomes, Asked
  <2> QED BY <1>3, <2>1
<1>5. ASSUME NEW r \in Slots, Answered(r), AnsweredMoves(r)
      PROVE  x.listing = disk'[x.p]
  <2>1. r # s /\ disk' = disk /\ x = req[s] BY <1>5, <1>a DEF AnsweredMoves, Becomes
  <2> QED BY <1>3, <2>1
<1>6. ASSUME NEW r \in Slots, Outside(r), OutsideMoves(r)
      PROVE  x.listing = disk'[x.p]
  <2>1. /\ \A p \in Printers : ~FilesAt(req[r], p) => disk'[p] = disk[p]
        /\ req[r].pc \in FileCalls => Effect(req[r], req'[r], disk[req[r].p], disk'[req[r].p])
    BY <1>6, OutsideFiles DEF Founded
  <2>2. CASE r = s
    <3>1. x.pc = req[s].pc /\ x.p = req[s].p
      BY <1>6, <2>2, CallsDiffer DEF OutsideMoves, Answers, ThumbnailCalls
    <3>2. Effect(req[s], x, disk[x.p], disk'[x.p]) BY <2>1, <2>2, <3>1
    <3> QED BY <3>1, <3>2 DEF Effect
  <2>3. CASE r # s
    <3>1. x = req[s] BY <1>6, <1>a, <2>3 DEF OutsideMoves, Becomes
    <3>2. ~FilesAt(req[r], x.p) BY <1>2, <2>3, <3>1 DEF Lone
    <3>3. x.p \in Printers
      <4>1. Legal(req[s]) /\ req[s].pc # "idle"
        BY <1>a, <3>1, CallsDiffer DEF Founded, Shape
      <4> QED BY <3>1, <4>1, LegalReady DEF Ready
    <3> QED BY <1>3, <2>1, <3>1, <3>2, <3>3
  <2> QED BY <2>2, <2>3
<1>7. ASSUME Others, OthersMove PROVE x.listing = disk'[x.p]
  BY <1>3, <1>7, <1>a DEF OthersMove
<1> QED BY <1>4, <1>5, <1>6, <1>7, StepMoves

LEMMA FitsStep ==
  ASSUME Founded, Fits, Step, Bookkeeping
  PROVE  Fits'
<1>1. ASSUME NEW p \in Printers \ doubt' PROVE Fit(req', p, cache'[p], disk'[p], Existing')
  <2>1. ASSUME NEW s \in Slots, BegunMoves(s) PROVE Fit(req', p, cache'[p], disk'[p], Existing')
    <3>1. Fit(req', p, cache[p], disk[p], Existing) BY <2>1, BegunFits
    <3>2. cache' = cache /\ disk' = disk /\ Existing' = Existing
      BY <2>1 DEF BegunMoves, Existing
    <3> QED BY <3>1, <3>2
  <2>2. ASSUME NEW s \in Slots, Answered(s), AnsweredMoves(s)
        PROVE  Fit(req', p, cache'[p], disk'[p], Existing')
    <3>1. Fit(req', p, cache'[p], disk[p], Existing) BY <2>2, AnsweredFits
    <3>2. disk' = disk /\ Existing' = Existing BY <2>2 DEF AnsweredMoves, Existing
    <3> QED BY <3>1, <3>2
  <2>3. ASSUME NEW s \in Slots, Outside(s), OutsideMoves(s)
        PROVE  Fit(req', p, cache'[p], disk'[p], Existing')
    <3>1. Fit(req', p, cache[p], disk'[p], Existing) BY <2>3, OutsideFits
    <3>2. cache' = cache /\ Existing' = Existing BY <2>3 DEF OutsideMoves, Existing
    <3> QED BY <3>1, <3>2
  <2>4. ASSUME Others, OthersMove PROVE Fit(req', p, cache'[p], disk'[p], Existing')
    <3>1. Fit(req, p, cache'[p], disk'[p], Existing') BY <2>4, OthersFits
    <3>2. req' = req BY <2>4 DEF OthersMove
    <3> QED BY <3>1, <3>2
  <2> QED BY <2>1, <2>2, <2>3, <2>4, StepMoves
<1>2. disk' \in [Printers -> Listing]
  BY StepMoves DEF Founded, Shape, TypeOK, BegunMoves, AnsweredMoves, OutsideMoves, OthersMove
<1>3. ASSUME NEW s \in alone' PROVE Lone(req', s, disk'[req'[s].p]) BY <1>2, <1>3, LoneStep
<1> QED BY <1>1, <1>3 DEF Fits

\* A process that has just started has no lists.
LEMMA StartedFit ==
  ASSUME NEW rs, Started(rs), NEW p, NEW d, NEW known
  PROVE  Fit(rs, p, None, d, known)
<1>1. PICK s \in Slots, x \in Request :
        /\ rs = [[t \in Slots |-> Idle] EXCEPT ![s] = x]
        /\ x.op = "boot" /\ x.pc = "load" /\ x.answer = None
  BY DEF Started
<1>2. rs[s] = x /\ \A r \in Slots \ {s} : ~FilesAt(rs[r], p)
  BY <1>1, IdleShaped, CallsDiffer DEF FilesAt
<1>3. Sound(x, None, d, known) BY <1>1, CallsDiffer, NoneIsNoValue DEF Sound
<1> QED BY <1>2, <1>3 DEF Fit, Single

LEMMA InitFits == Init => Fits
<1> SUFFICES ASSUME Init PROVE Fits OBVIOUS
<1>1. Started(req) /\ alone = {} /\ \A p \in Printers : cache[p] = None
  BY InitStarted DEF Init
<1>2. ASSUME NEW p \in Printers PROVE Fit(req, p, None, disk[p], Existing)
  BY <1>1, StartedFit
<1> QED BY <1>1, <1>2 DEF Fits

LEMMA RestartFits == ASSUME Founded, Restart, alone' = {} PROVE Fits'
<1>1. Started(req') /\ \A p \in Printers : cache'[p] = None
  BY RestartStarted DEF Founded, Restart
<1>2. ASSUME NEW p \in Printers PROVE Fit(req', p, None, disk'[p], Existing')
  BY <1>1, StartedFit
<1> QED BY <1>1, <1>2 DEF Fits

LEMMA FitsNext == Founded /\ Fits /\ [Next]_vars => Fits'
<1> SUFFICES ASSUME Founded, Fits, [Next]_vars PROVE Fits' OBVIOUS
<1>1. CASE Step /\ TrackUploads /\ Bookkeeping BY <1>1, FitsStep
<1>2. CASE Restart /\ currentUploads' = {} /\ doubt' = {} /\ tangled' = tangled \ Existing
            /\ unloaded' = {} /\ alone' = {}
  BY <1>2, RestartFits
<1>3. CASE UNCHANGED vars BY <1>3 DEF vars, Fits, Existing
<1> QED BY <1>1, <1>2, <1>3 DEF Next

\* Fits holds of every state.
THEOREM ListsFit == Spec => []Fits
<1>1. Init => Fits BY InitFits
<1>2. Founded /\ Fits /\ [Next]_vars => Fits' BY FitsNext
<1> QED BY <1>1, <1>2, FilesFounded, PTL DEF Spec

\* The cached list of a printer that nobody is busy with is that of its files, or there is
\* none (printer-files.store.ts), however the requests before it met, failed and were answered,
\* as long as Bookkeeping has the printer in no doubt.
THEOREM CachedListsFollow == Spec => []CacheFollows
<1>1. Fits => CacheFollows
  <2> SUFFICES ASSUME Fits, NEW p \in Existing, Busy("files", p) = {}, p \notin doubt
               PROVE  cache[p] \in {None, disk[p]}
    BY DEF CacheFollows
  <2>1. p \in Printers BY DEF Existing
  <2>2. Fit(req, p, cache[p], disk[p], Existing) BY <2>1 DEF Fits
  <2>3. \A s \in Slots : ~FilesAt(req[s], p) BY KindIs DEF Busy, FilesAt
  <2> QED BY <2>2, <2>3 DEF Fit
<1> QED BY <1>1, ListsFit, PTL

\* A clean-up deletes no recent file (printer-file-clean.task.ts, cleanPrinterFiles), at any
\* printer and whoever else asks, as long as Bookkeeping has the printer in no doubt.
THEOREM CleanUpSpares == Spec => CleanSpares
<1>1. ASSUME Founded, Fits, [Next]_vars
      PROVE  [\A s \in Slots : req[s].pc = "delete" /\ req[s].op \in {"clean", "upload"} =>
               \A p \in Printers \ doubt, f \in Files :
                 req'[s] # req[s] /\ disk[p][f] = "recent" => disk'[p][f] = "recent"]_vars
  <2> SUFFICES ASSUME NEW s \in Slots, req[s].pc = "delete", req[s].op \in {"clean", "upload"},
                      NEW p \in Printers \ doubt, NEW f \in Files,
                      req'[s] # req[s], disk[p][f] = "recent", Next
               PROVE  disk'[p][f] = "recent"
    BY <1>1 DEF vars
  <2>t. disk \in [Printers -> Listing] /\ req \in [Slots -> Request] /\ None # "recent"
    BY <1>1, NoneIsNoValue DEF Founded, Shape, TypeOK
  <2>1. CASE disk' = disk BY <2>1
  <2>2. ASSUME NEW r \in Slots, Outside(r), OutsideMoves(r) PROVE disk'[p][f] = "recent"
    <3>1. r = s BY <2>2, <2>t DEF OutsideMoves, Becomes
    <3>2. /\ ~FilesAt(req[s], p) => disk'[p] = disk[p]
          /\ Effect(req[s], req'[s], disk[req[s].p], disk'[req[s].p])
      BY <1>1, <2>2, <3>1, OutsideFiles, CallsDiffer DEF Founded
    <3>3. CASE FilesAt(req[s], p)
      <4>1. Sound(req[s], cache[p], disk[p], Existing) BY <1>1, <3>3 DEF Fits, Fit
      <4>2. f \notin req[s].todo BY <4>1 DEF Sound
      <4>3. disk'[p] = disk[p] \/ \E g \in req[s].todo : disk'[p] = [disk[p] EXCEPT ![g] = None]
        BY <3>2, <3>3 DEF Effect, FilesAt
      <4> QED BY <2>t, <4>2, <4>3 DEF Listing
    <3> QED BY <3>2, <3>3
  <2>3. ASSUME NEW r \in Slots, BegunMoves(r) \/ AnsweredMoves(r) PROVE disk' = disk
    BY <2>3 DEF BegunMoves, AnsweredMoves
  <2>4. ~OthersMove BY DEF OthersMove
  <2>5. CASE Step BY <1>1, <2>1, <2>2, <2>3, <2>4, <2>5, StepMoves
  <2>6. CASE Restart BY <2>1, <2>6 DEF Restart
  <2> QED BY <2>5, <2>6 DEF Next
<1> QED BY <1>1, FilesFounded, ListsFit, PTL DEF Spec, CleanSpares

---------------------------------------------------------------------------
(* The thumbnails: what the steps do                                       *)

Loading(q) == q.pc \in ThumbnailCalls
Drawing(q) == q.pc \in ThumbnailCalls \cup {"start"}

\* A request that begins with a thumbnail reads first, of a printer that exists.
LEMMA BegunDraws ==
  ASSUME Founded, NEW s \in Slots, Requested(s) \/ CleanTaskRuns(s), BegunMoves(s)
  PROVE  Drawing(req'[s]) => req'[s].p \in Existing /\ req'[s].pc \notin {"write", "opened"}
<1> DEFINE x == req'[s]
<1>t. req \in [Slots -> Request] BY DEF Founded, Shape, TypeOK
<1>b. ASSUME NEW y, Becomes(s, y) PROVE x = y BY <1>b, <1>t DEF Becomes
<1>p. /\ {"load", "scan"} \subseteq Listings /\ {"extract", "start", "scan", "delete"} \subseteq Calls
      /\ {"list", "clear", "delete", "upload", "reload", "print"} = Ops
  BY DEF Listings, Calls, FileCalls, ThumbnailCalls, Ops
<1>1. CASE CleanTaskRuns(s)
  <2> DEFINE ps == Listed({"enabled"})
             q == [Idle EXCEPT !.op = "clean", !.queue = After(ps, First(ps)), !.all = ps]
  <2>1. x = IF ps = {} THEN Idle ELSE LoadFiles(q, First(ps), "load")
    BY <1>1, <1>b DEF CleanTaskRuns
  <2>2. CASE ps # {}
    <3>1. First(ps) \in Printers /\ After(ps, First(ps)) \subseteq Printers
      BY <2>2, FirstIsOne, ZenonT(60) DEF Listed
    <3>2. q \in Request BY <3>1 DEF Idle, Request, Image, Listed
    <3> HIDE DEF q, ps
    <3>3. LoadFiles(q, First(ps), "load").pc = "load" BY <1>p, <3>1, <3>2, LoadShaped
    <3> QED BY <2>1, <2>2, <3>3 DEF Drawing, ThumbnailCalls
  <2> QED BY <2>1, <2>2, IdleShaped DEF Drawing, ThumbnailCalls
<1>2. CASE Requested(s)
  <2>1. PICK p \in mode.printers :
          \/ GetFiles(s, p) \/ ClearPrinterFiles(s, p)
          \/ \E f \in mode.files :
               \/ DeleteFileOrFolder(s, p, f) \/ UploadPrinterFile(s, p, f)
               \/ ReloadThumbnail(s, p, f) \/ StartPrintFile(s, p, f)
    BY <1>2 DEF Requested
  <2>2. p \in Printers /\ mode.files \subseteq Files BY <2>1, ModeValid DEF Founded
  <2>3. p \in Existing
    BY <2>1 DEF GetFiles, ClearPrinterFiles, DeleteFileOrFolder, UploadPrinterFile,
                ReloadThumbnail, StartPrintFile, Begin
  <2>a. ASSUME NEW q \in Request, q.p = p, NEW pc \in {"extract", "start", "scan", "delete"},
               x = Ask(q, pc)
        PROVE  x.p \in Existing /\ x.pc \notin {"write", "opened"}
    <3>1. pc \in Calls BY <1>p
    <3>2. Ask(q, pc).pc = pc /\ Ask(q, pc).p = q.p BY <3>1, AskShaped
    <3> QED BY <2>3, <2>a, <3>2
  <2>4. CASE GetFiles(s, p)
    <3> DEFINE q == Of("list", p, None)
    <3>1. x = LoadFiles(q, p, "load") BY <1>b, <2>4 DEF GetFiles, Begin
    <3>2. q \in Request BY <1>p, <2>2, OfReady DEF Ready
    <3> HIDE DEF q
    <3>3. x.pc = "load" BY <1>p, <2>2, <3>1, <3>2, LoadShaped
    <3> QED BY <3>3 DEF Drawing, ThumbnailCalls
  <2>5. CASE ClearPrinterFiles(s, p)
    <3>1. x = Ask(Of("clear", p, None), "scan") BY <1>b, <2>5 DEF ClearPrinterFiles, Begin
    <3> QED BY <1>p, <2>2, <2>a, <3>1, OfReady DEF Ready
  <2>6. ASSUME NEW f \in mode.files, DeleteFileOrFolder(s, p, f)
        PROVE  x.p \in Existing /\ x.pc \notin {"write", "opened"}
    <3> DEFINE r == Of("delete", p, f)
               q == [r EXCEPT !.todo = {f}]
    <3>1. x = Ask(q, "delete") BY <1>b, <2>6 DEF DeleteFileOrFolder, Begin
    <3>2. r \in Request /\ r.p = p BY <1>p, <2>2, OfReady DEF Ready
    <3> HIDE DEF r
    <3>3. q \in Request /\ q.p = p BY <2>2, <3>2 DEF Request
    <3> HIDE DEF q
    <3> QED BY <2>a, <3>1, <3>3
  <2>7. ASSUME NEW f \in mode.files, UploadPrinterFile(s, p, f)
        PROVE  Drawing(x) => x.p \in Existing /\ x.pc \notin {"write", "opened"}
    <3> DEFINE q == Of("upload", p, f)
    <3>1. x = (IF support THEN Ask(q, "extract") ELSE AfterThumbnail(q)) /\ RoomToUpload
      BY <1>b, <2>7 DEF UploadPrinterFile, RoomToUpload, Begin
    <3>2. Ready(q) /\ q.op = "upload" /\ q.token = None /\ q.pc = "idle" /\ q.p = p /\ q \in Request
      BY <1>p, <2>2, OfReady DEF Ready
    <3>3. TokenFree BY <3>1, RoomFree DEF Founded
    <3> HIDE DEF q
    <3>4. CASE support BY <2>a, <3>1, <3>2, <3>4
    <3>5. CASE ~support
      <4>1. Goes(q, AfterThumbnail(q), cache) BY <3>2, <3>3, ThumbnailGoes
      <4> QED BY <3>1, <3>5, <4>1 DEF Goes, Drawing
    <3> QED BY <3>4, <3>5
  <2>8. ASSUME NEW f \in mode.files, ReloadThumbnail(s, p, f)
        PROVE  x.p \in Existing /\ x.pc \notin {"write", "opened"}
    <3>1. x = Ask(Of("reload", p, f), "extract") BY <1>b, <2>8 DEF ReloadThumbnail, Begin
    <3> QED BY <1>p, <2>2, <2>a, <3>1, OfReady DEF Ready
  <2>9. ASSUME NEW f \in mode.files, StartPrintFile(s, p, f)
        PROVE  x.p \in Existing /\ x.pc \notin {"write", "opened"}
    <3>1. x = Ask(Of("print", p, f), "start") BY <1>b, <2>9 DEF StartPrintFile, Begin
    <3> QED BY <1>p, <2>2, <2>a, <3>1, OfReady DEF Ready
  <2> QED BY <2>1, <2>4, <2>5, <2>6, <2>7, <2>8, <2>9
<1> QED BY <1>1, <1>2

\* What becomes of a thumbnail file, d before and e after, when request q is answered.
Paint(q, x, d, e) ==
  \/ e = d /\ x.pc = q.pc /\ (x.pc \in {"write", "opened"} => x.answer = "failed")
  \/ q.pc = "write" /\ x.pc = "opened" /\ x.answer = None /\ e = "empty"
  \/ /\ q.pc = "opened" /\ x.pc = "opened" /\ x.answer = "ok"
     /\ x.image = q.image /\ e \in Filled(d, q.image)

LEMMA OutsideDraws ==
  ASSUME Founded, NEW s \in Slots, Outside(s), OutsideMoves(s)
  PROVE  /\ Paint(req[s], req'[s], data[req[s].p], data'[req[s].p])
         /\ Loading(req[s]) \/ data' = data
         /\ \A p \in Printers \ {req[s].p} : data'[p] = data[p]
<1> DEFINE q == req[s]
           x == req'[s]
<1>t. /\ req \in [Slots -> Request] /\ q \in Request /\ q.p \in Printers
      /\ data \in [Printers -> Image]
  BY SlotShaped DEF Founded, Shape, TypeOK, OutsideMoves
<1>a. ASSUME NEW answer, Acted(s, answer)
      PROVE  x.answer = answer /\ x.pc = q.pc /\ x.image = q.image
  <2>1. req' = [req EXCEPT ![s] = [q EXCEPT !.answer = answer]] BY <1>a, <1>t DEF Acted
  <2> QED BY <1>t, <2>1 DEF Request
<1>1. CASE data' = data /\ q.pc \notin {"write", "opened"}
  <2>1. x.pc = q.pc BY <1>1 DEF OutsideMoves, Answers
  <2> QED BY <1>1, <2>1 DEF Paint
<1>2. CASE WriteFails(s)
  <2>1. data' = data /\ x.answer = "failed" /\ x.pc = q.pc BY <1>2, <1>a DEF WriteFails
  <2> QED BY <2>1 DEF Paint
<1>3. CASE ThumbnailOpened(s)
  <2>1. q.pc = "write" /\ x = Ask(q, "opened") /\ data' = [data EXCEPT ![q.p] = "empty"]
    BY <1>3, <1>t DEF ThumbnailOpened, Becomes, SetThumbnail
  <2>2. x.pc = "opened" /\ x.answer = None
    <3>1. "opened" \in Calls BY DEF Calls, ThumbnailCalls
    <3> QED BY <1>t, <2>1, <3>1, AskShaped
  <2> QED BY <1>t, <2>1, <2>2 DEF Paint, Loading, ThumbnailCalls
<1>4. CASE ThumbnailWritten(s)
  <2>1. q.pc = "opened" /\ x.answer = "ok" /\ x.pc = q.pc /\ x.image = q.image
    BY <1>4, <1>a DEF ThumbnailWritten
  <2>2. PICK image \in Filled(data[q.p], q.image) : data' = SetThumbnail(data, q.p, image)
    BY <1>4 DEF ThumbnailWritten
  <2>3. data'[q.p] = image /\ \A p \in Printers \ {q.p} : data'[p] = data[p]
    BY <1>t, <2>2 DEF SetThumbnail
  <2> QED BY <2>1, <2>2, <2>3 DEF Paint, Loading, ThumbnailCalls
<1>5. CASE CallFails(s) \/ PrinterLists(s) \/ PrinterDeletes(s) \/ DeleteFails(s) \/ UploadSent(s)
           \/ UploadNotSent(s) \/ PrinterStores(s) \/ PrinterStarts(s) \/ Extracted(s)
  BY <1>1, <1>5 DEF CallFails, PrinterLists, PrinterDeletes, DeleteFails, UploadSent, UploadNotSent,
       PrinterStores, PrinterStarts, Extracted, Listings
<1> QED BY <1>2, <1>3, <1>4, <1>5 DEF Outside

\* What is stored when a load of a thumbnail ends, d the file before, e after, u the cached one.
Stored(q, d, u, e) ==
  \/ u \in {None, "empty"} /\ e = None
  \/ q.pc \in {"write", "opened"} /\ q.answer = "ok" /\ e = d /\ u = q.image

\* An answer that ends no load of a thumbnail, or goes on with one, or ends it.
Passes(s) ==
  /\ ~Drawing(req[s]) /\ ~Drawing(req'[s]) /\ data' = data
  /\ thumbs' = IF req'[s] = Idle /\ req[s].op = "boot" /\ support THEN LoadCache(data, Listed({"enabled"}))
               ELSE thumbs
GoesOn(s) ==
  /\ Drawing(req[s]) /\ req[s].pc \notin {"write", "opened"} /\ data' = data /\ thumbs' = thumbs
  /\ Loading(req[s]) => Loading(req'[s])
  /\ \/ req'[s] = Idle
     \/ req'[s].pc \in {"extract", "write"} /\ req'[s].answer = None /\ req'[s].p = req[s].p
Ends(s) == LET p == req[s].p IN
  /\ Loading(req[s]) /\ ~Drawing(req'[s])
  /\ Stored(req[s], data[p], thumbs'[p], data'[p])
  /\ \A r \in Printers \ {p} : data'[r] = data[r] /\ thumbs'[r] = thumbs[r]

LEMMA AnsweredDraws ==
  ASSUME Founded, NEW s \in Slots, Answered(s), AnsweredMoves(s)
  PROVE  Passes(s) \/ GoesOn(s) \/ Ends(s)
<1> DEFINE q == req[s]
           x == req'[s]
<1>t. /\ req \in [Slots -> Request] /\ q \in Request /\ q.p \in Printers /\ Legal(q) /\ Ready(q)
      /\ Suits(q.op, q.pc)
      /\ data \in [Printers -> Image] /\ thumbs \in [Printers -> Image]
      /\ Waits(q) => TokenFree
  BY SlotShaped, RoomFree DEF Founded, Shape, TypeOK, AnsweredMoves
<1>b. ASSUME NEW y, Becomes(s, y) PROVE x = y BY <1>b, <1>t DEF Becomes
<1>i. ~Drawing(Idle) BY IdleShaped DEF Drawing, ThumbnailCalls
<1>k. ASSUME NEW pc \in Calls
      PROVE  Ask(q, pc).pc = pc /\ Ask(q, pc).answer = None /\ Ask(q, pc).p = q.p
  BY <1>k, <1>t, AskShaped
<1>c. /\ {"delete", "extract", "write"} \subseteq Calls /\ {"relist", "finish"} \subseteq Listings
      /\ \A r : r.pc \in {"load", "relist", "finish", "delete", "scan", "upload"} => ~Drawing(r)
  BY DEF Calls, FileCalls, Listings, ThumbnailCalls, Drawing
<1>1. CASE ListingAnswered(s)
  <2>1. q.pc \in {"load", "relist", "finish"} /\ x = AfterListing(q, cache') /\ data' = data
        /\ thumbs' = IF x = Idle /\ q.op = "boot" /\ support THEN LoadCache(data, Listed({"enabled"})) ELSE thumbs
    BY <1>1, <1>b DEF ListingAnswered
  <2>2. Goes(q, AfterListing(q, cache'), cache') BY <1>t, <2>1, ListingGoes
  <2>3. ~Drawing(x) BY <2>1, <2>2 DEF Goes, Drawing
  <2> QED BY <1>c, <2>1, <2>3 DEF Passes
<1>p. ASSUME q.op # "boot", ~Drawing(q), ~Drawing(x), data' = data, thumbs' = thumbs PROVE Passes(s)
  BY <1>p DEF Passes
<1>2. CASE DeleteAnswered(s)
  <2>1. q.pc = "delete" /\ data' = data /\ thumbs' = thumbs
        /\ x \in {Ask(q, "delete"), LoadFiles(q, q.p, "relist"), Idle}
    BY <1>2, <1>b DEF DeleteAnswered
  <2>2. ~Drawing(x) BY <1>c, <1>i, <1>k, <1>t, <2>1, LoadShaped
  <2>3. q.op # "boot" BY <1>t, <2>1 DEF Suits
  <2> QED BY <1>c, <1>p, <2>1, <2>2, <2>3
<1>3. CASE ScanAnswered(s)
  <2> DEFINE names == IF q.answer = "ok" THEN Names(q.listing) ELSE {}
             y == [q EXCEPT !.todo = names]
  <2>1. q.pc = "scan" /\ data' = data /\ thumbs' = thumbs /\ x \in {Ask(y, "delete"), Idle}
    BY <1>3, <1>b DEF ScanAnswered
  <2>2. y \in Request BY <1>t DEF Names, Request
  <2>3. ~Drawing(x)
    <3> HIDE DEF y
    <3> QED BY <1>c, <1>i, <2>1, <2>2, AskShaped
  <2>4. q.op # "boot" BY <1>t, <2>1 DEF Suits
  <2> QED BY <1>c, <1>p, <2>1, <2>3, <2>4
<1>4. CASE UploadAnswered(s)
  <2>1. q.pc = "upload" /\ data' = data /\ thumbs' = thumbs
        /\ x \in {LoadFiles(q, q.p, "finish"), Idle}
    BY <1>4, <1>b DEF UploadAnswered
  <2>2. ~Drawing(x) BY <1>c, <1>i, <1>t, <2>1, LoadShaped
  <2>3. q.op # "boot" BY <1>t, <2>1 DEF Suits
  <2> QED BY <1>c, <1>p, <2>1, <2>2, <2>3
<1>5. CASE StartAnswered(s)
  <2>1. q.pc = "start" /\ data' = data /\ thumbs' = thumbs /\ x \in {Ask(q, "extract"), Idle}
    BY <1>5, <1>b DEF StartAnswered
  <2> QED BY <1>c, <1>k, <2>1 DEF GoesOn, Drawing, Loading, ThumbnailCalls
<1>d. ASSUME Loading(q), x = AfterThumbnail(q) PROVE ~Drawing(x)
  <2>1. q.token = None /\ q.pc \notin {"upload", "finish"}
    BY <1>d, <1>t, IdleShaped DEF Loading, ThumbnailCalls, Legal
  <2>2. Goes(q, AfterThumbnail(q), cache) BY <1>t, <2>1, ThumbnailGoes
  <2> QED BY <1>d, <2>2 DEF Goes, Drawing
<1>r. /\ Removed(data, q.p)[q.p] = None /\ \A r \in Printers \ {q.p} : Removed(data, q.p)[r] = data[r]
      /\ \A image : /\ SetThumbnail(thumbs, q.p, image)[q.p] = image
                    /\ \A r \in Printers \ {q.p} : SetThumbnail(thumbs, q.p, image)[r] = thumbs[r]
  BY <1>t DEF Removed, SetThumbnail
<1>6. CASE ExtractAnswered(s)
  <2>1. q.pc = "extract" BY <1>6 DEF ExtractAnswered
  <2>2. CASE q.answer = "ok" /\ q.image # "empty"
    <3>1. x = Ask(q, "write") /\ data' = data /\ thumbs' = thumbs
      BY <1>6, <1>b, <2>2 DEF ExtractAnswered
    <3> QED BY <1>c, <1>k, <2>1, <3>1 DEF GoesOn, Drawing, Loading, ThumbnailCalls
  <2>3. CASE ~(q.answer = "ok" /\ q.image # "empty")
    <3>1. x = AfterThumbnail(q) /\ data' = Removed(data, q.p)
          /\ thumbs' \in {SetThumbnail(thumbs, q.p, None), SetThumbnail(thumbs, q.p, "empty")}
      BY <1>6, <1>b, <2>3 DEF ExtractAnswered, Cleared, Removed
    <3>2. Loading(q) /\ ~Drawing(x) BY <1>d, <2>1, <3>1 DEF Loading, ThumbnailCalls
    <3>3. Stored(q, data[q.p], thumbs'[q.p], data'[q.p]) BY <1>r, <3>1 DEF Stored
    <3> QED BY <1>r, <3>1, <3>2, <3>3 DEF Ends
  <2> QED BY <2>2, <2>3
<1>7. CASE WriteAnswered(s)
  <2>1. q.pc \in {"write", "opened"} /\ x = AfterThumbnail(q)
        /\ \/ q.answer = "ok" /\ data' = data /\ thumbs' = SetThumbnail(thumbs, q.p, q.image)
           \/ data' = Removed(data, q.p) /\ thumbs' = SetThumbnail(thumbs, q.p, None)
    BY <1>7, <1>b DEF WriteAnswered, Cleared, Removed
  <2>2. Loading(q) /\ ~Drawing(x) BY <1>d, <2>1 DEF Loading, ThumbnailCalls
  <2>3. Stored(q, data[q.p], thumbs'[q.p], data'[q.p]) BY <1>r, <2>1 DEF Stored
  <2> QED BY <1>r, <2>1, <2>2, <2>3 DEF Ends
<1> QED BY <1>1, <1>2, <1>3, <1>4, <1>5, <1>6, <1>7 DEF Answered

---------------------------------------------------------------------------
(* The thumbnails: the invariant                                           *)

DrawsAt(q, p) == Loading(q) /\ q.p = p

\* The thumbnail file d as the load of a thumbnail, q, has left it.
Drawn(q, d) ==
  /\ q.pc = "write" => q.answer # "ok"
  /\ q.pc = "opened" /\ q.answer = None => d = "empty"
  /\ q.pc = "opened" /\ q.answer = "ok" => d = q.image

\* No two loads are of the thumbnail of printer p.
OneDraws(rs, p) == \A s, r \in Slots : DrawsAt(rs[s], p) /\ DrawsAt(rs[r], p) => s = r

\* The requests rs, the cached thumbnail t and the file d of printer p agree; shown says whether
\* thumbnails are cached at all. While the file is open it is ahead of the cache.
Agree(rs, p, t, d, known, shown) ==
  /\ OneDraws(rs, p)
  /\ p \in known => \A s \in Slots : DrawsAt(rs[s], p) => Drawn(rs[s], d)
  /\ p \in known /\ shown /\ (\A s \in Slots : DrawsAt(rs[s], p) => rs[s].pc # "opened") =>
       Shown(t) = Shown(d)
  /\ p \notin known => t = None /\ d = None /\ \A s \in Slots : Drawing(rs[s]) => rs[s].p # p

\* A load of a thumbnail that has its printer to itself.
LoneDraws(rs, s, d, known) == Loading(rs[s]) =>
  /\ \A r \in Slots : DrawsAt(rs[r], rs[s].p) => r = s
  /\ rs[s].p \in known => Drawn(rs[s], d)

\* While the server boots, no request is served.
BootsAlone(rs) == \A s \in Slots : rs[s].op = "boot" => \A r \in Slots \ {s} : rs[r] = Idle

Draws ==
  /\ BootsAlone(req)
  /\ \A p \in Printers \ tangled : Agree(req, p, thumbs[p], data[p], Existing, support /\ Serving /\ p \notin unloaded)
  /\ \A s \in alone : LoneDraws(req, s, data[req[s].p], Existing)
  /\ \A p \in unloaded : thumbs[p] = None

\* One request changes, and neither the file nor the cached thumbnail.
LEMMA KeepAgree ==
  ASSUME NEW rs, NEW rt, NEW s \in Slots, NEW p, NEW t, NEW d, NEW known, NEW shown, NEW still,
         \A r \in Slots \ {s} : rt[r] = rs[r],
         Agree(rs, p, t, d, known, shown), OneDraws(rt, p),
         p \in known /\ DrawsAt(rt[s], p) => Drawn(rt[s], d),
         p \notin known /\ Drawing(rt[s]) => rt[s].p # p,
         DrawsAt(rs[s], p) /\ rs[s].pc = "opened" => DrawsAt(rt[s], p) /\ rt[s].pc = "opened",
         still => shown
  PROVE  Agree(rt, p, t, d, known, still)
<1>1. p \in known => \A r \in Slots : DrawsAt(rt[r], p) => Drawn(rt[r], d) BY DEF Agree
<1>2. ASSUME p \in known, still, \A r \in Slots : DrawsAt(rt[r], p) => rt[r].pc # "opened"
      PROVE  Shown(t) = Shown(d)
  <2>1. \A r \in Slots : DrawsAt(rs[r], p) => rs[r].pc # "opened" BY <1>2
  <2> QED BY <1>2, <2>1 DEF Agree
<1>3. p \notin known => t = None /\ d = None /\ \A r \in Slots : Drawing(rt[r]) => rt[r].p # p
  BY DEF Agree
<1> QED BY <1>1, <1>2, <1>3 DEF Agree

\* A load that has opened the file.
LEMMA OpenAgree ==
  ASSUME NEW rt, NEW s \in Slots, NEW p, NEW t, NEW d, NEW known, NEW shown,
         p \in known, OneDraws(rt, p), DrawsAt(rt[s], p), rt[s].pc = "opened", Drawn(rt[s], d)
  PROVE  Agree(rt, p, t, d, known, shown)
<1>1. \A r \in Slots : DrawsAt(rt[r], p) => r = s BY DEF OneDraws
<1> QED BY <1>1 DEF Agree

\* No load is under way.
LEMMA CalmAgree ==
  ASSUME NEW rt, NEW p, NEW t, NEW d, NEW known, NEW shown, p \in known,
         \A r \in Slots : ~DrawsAt(rt[r], p), shown => Shown(t) = Shown(d)
  PROVE  Agree(rt, p, t, d, known, shown)
  BY DEF Agree, OneDraws

\* The thumbnails are read from their files.
LEMMA ReadAgree ==
  ASSUME NEW rs, NEW p, NEW t, NEW u, NEW d, NEW known, NEW shown, NEW still,
         Agree(rs, p, t, d, known, shown), p \in known /\ still => u = d, p \notin known => u = None
  PROVE  Agree(rs, p, u, d, known, still)
  BY DEF Agree

\* A printer that is not tangled after a step.
LEMMA Untangled ==
  ASSUME Founded, Bookkeeping, NEW p \in Printers, p \notin tangled'
  PROVE  /\ OneDraws(req', p)
         /\ p \in Existing /\ p \notin Existing' =>
              support /\ \A s \in Slots : Drawing(req[s]) => req[s].p # p
         /\ \/ p \notin tangled
            \/ /\ p \in Existing'
               /\ \E s \in alone : req[s].p = p /\ req'[s] # req[s] /\ Loading(req[s]) /\ ~Loading(req'[s])
<1> DEFINE busy == {s \in Slots : Kind(req'[s]) = "thumbnail" /\ req'[s].p = p}
<1>1. /\ ~(Cardinality(busy) > 1)
      /\ p \in Existing /\ p \notin Existing' =>
           support /\ ~\E s \in Slots : req[s].p = p /\ req[s].pc \in ThumbnailCalls \cup {"start"}
      /\ \/ p \notin tangled
         \/ /\ p \in Existing'
            /\ \E s \in alone : /\ req[s].p = p /\ req'[s] # req[s]
                                /\ Kind(req[s]) = "thumbnail" /\ Kind(req'[s]) # "thumbnail"
  BY DEF Bookkeeping, Busy
<1>2. IsFiniteSet(busy) BY BoundsAreFinite, FS_Subset
<1>3. OneDraws(req', p)
  <2>1. ASSUME NEW a \in busy, NEW b \in busy PROVE a = b
    <3> HIDE DEF busy
    <3> QED BY <1>1, <1>2, AtMostOne
  <2> QED BY <2>1, KindIs DEF OneDraws, DrawsAt, Loading
<1> HIDE DEF busy
<1> QED BY <1>1, <1>3, KindIs DEF Drawing, Loading

\* One request changes, which ends no load.
LEMMA StillUntangled ==
  ASSUME Founded, Bookkeeping, NEW s \in Slots, Becomes(s, req'[s]), NEW p \in Printers, p \notin tangled',
         ~(req[s].p = p /\ Loading(req[s]) /\ ~Loading(req'[s]))
  PROVE  p \notin tangled
<1>1. alone \subseteq Slots /\ \A r \in Slots : req'[r] # req[r] => r = s
  BY DEF Founded, Shape, TypeOK, Becomes
<1> QED BY <1>1, Untangled

\* One request changes, which ends neither a load of p nor the boot: p is loaded as it was.
LEMMA StillLoaded ==
  ASSUME Bookkeeping, ~UpdateThumbnailSupport(TRUE), Serving' => Serving, NEW p, NEW s \in Slots,
         \A r \in Slots \ {s} : req'[r] = req[r],
         ~(req[s].p = p /\ Loading(req[s]) /\ ~Loading(req'[s]))
  PROVE  p \in unloaded' <=> p \in unloaded
<1>1. unloaded' = {r \in unloaded : ~\E x \in Slots :
                     /\ req[x].p = r /\ req'[x] # req[x]
                     /\ Kind(req[x]) = "thumbnail" /\ Kind(req'[x]) # "thumbnail"}
  BY DEF Bookkeeping
<1>2. ~\E x \in Slots : /\ req[x].p = p /\ req'[x] # req[x]
                       /\ Kind(req[x]) = "thumbnail" /\ Kind(req'[x]) # "thumbnail"
  BY KindIs DEF Loading
<1> QED BY <1>1, <1>2

LEMMA BegunAgrees ==
  ASSUME Founded, Draws, Bookkeeping, ~UpdateThumbnailSupport(TRUE), NEW s \in Slots, Requested(s) \/ CleanTaskRuns(s), BegunMoves(s),
         NEW p \in Printers, p \notin tangled'
  PROVE  Agree(req', p, thumbs[p], data[p], Existing, support /\ Serving' /\ p \notin unloaded')
<1> DEFINE x == req'[s]
<1>t. /\ req[s] = Idle /\ Becomes(s, x) /\ Serving /\ \A r \in Slots \ {s} : req'[r] = req[r]
  BY DEF Founded, Shape, TypeOK, BegunMoves, Becomes
<1>1. p \notin tangled /\ ~Loading(req[s])
  BY <1>t, StillUntangled, IdleShaped, CallsDiffer DEF Loading
<1>2. Agree(req, p, thumbs[p], data[p], Existing, support /\ Serving /\ p \notin unloaded) /\ OneDraws(req', p)
  BY <1>1, Untangled DEF Draws
<1>3. Drawing(x) => x.p \in Existing /\ x.pc \notin {"write", "opened"} BY BegunDraws
<1>4. p \in Existing /\ DrawsAt(x, p) => Drawn(x, data[p])
  BY <1>3 DEF DrawsAt, Drawn, Drawing, Loading
<1>5. /\ p \notin Existing /\ Drawing(x) => x.p # p
      /\ ~DrawsAt(req[s], p)
  BY <1>1, <1>3 DEF DrawsAt
<1>6. p \in unloaded' <=> p \in unloaded BY <1>t, <1>1, StillLoaded
<1> QED BY <1>t, <1>2, <1>4, <1>5, <1>6, KeepAgree

LEMMA OutsideAgrees ==
  ASSUME Founded, Draws, Bookkeeping, ~UpdateThumbnailSupport(TRUE), NEW s \in Slots, Outside(s), OutsideMoves(s),
         NEW p \in Printers, p \notin tangled'
  PROVE  Agree(req', p, thumbs[p], data'[p], Existing, support /\ Serving' /\ p \notin unloaded')
<1> DEFINE q == req[s]
           x == req'[s]
<1>t. /\ Becomes(s, x) /\ Answers(q, x) /\ q.answer = None /\ (\A r \in Slots \ {s} : req'[r] = req[r])
      /\ x.p = q.p /\ x.op = q.op /\ None # "ok" /\ None # "failed"
      /\ x.pc = q.pc \/ (q.pc = "write" /\ x.pc = "opened")
  BY NoneIsNoValue DEF Founded, Shape, TypeOK, OutsideMoves, Becomes, Answers
<1>l. (Loading(q) <=> Loading(x)) /\ (Drawing(q) <=> Drawing(x))
  BY <1>t DEF Loading, Drawing, ThumbnailCalls
<1>1. p \notin tangled BY <1>l, <1>t, StillUntangled
<1>2. Agree(req, p, thumbs[p], data[p], Existing, support /\ Serving /\ p \notin unloaded) /\ OneDraws(req', p)
  BY <1>1, Untangled DEF Draws
<1>3. (Serving' => Serving) /\ (p \in unloaded' <=> p \in unloaded)
  <2>1. Serving' => Serving BY <1>t DEF Serving
  <2> QED BY <1>l, <1>t, <2>1, StillLoaded
<1>4. /\ Paint(q, x, data[q.p], data'[q.p])
      /\ Loading(q) \/ data' = data
      /\ \A r \in Printers \ {q.p} : data'[r] = data[r]
  BY OutsideDraws
<1>5. CASE ~DrawsAt(q, p)
  <2>1. data'[p] = data[p] /\ ~DrawsAt(x, p) BY <1>4, <1>5, <1>l, <1>t DEF DrawsAt
  <2>2. p \notin Existing /\ Drawing(x) => x.p # p BY <1>2, <1>l, <1>t DEF Agree
  <2>4. \A r \in Slots \ {s} : req'[r] = req[r] BY <1>t
  <2>3. Agree(req', p, thumbs[p], data[p], Existing, support /\ Serving' /\ p \notin unloaded')
    BY <1>2, <1>3, <1>5, <2>1, <2>2, <2>4, KeepAgree, ZenonT(60)
  <2> QED BY <2>1, <2>3
<1>6. CASE DrawsAt(q, p)
  <2>1. p = q.p /\ DrawsAt(x, p) /\ Paint(q, x, data[p], data'[p])
    BY <1>4, <1>6, <1>l, <1>t DEF DrawsAt
  <2>2. p \in Existing /\ Drawn(q, data[p])
    BY <1>2, <1>6 DEF Agree, DrawsAt, Loading, Drawing
  <2>3. CASE data'[p] = data[p] /\ x.pc = q.pc /\ (x.pc \in {"write", "opened"} => x.answer = "failed")
    <3>1. Drawn(x, data[p]) BY <1>t, <2>3 DEF Drawn
    <3>3. \A r \in Slots \ {s} : req'[r] = req[r] BY <1>t
    <3>4. /\ p \in Existing /\ DrawsAt(x, p) => Drawn(x, data[p])
          /\ p \notin Existing /\ Drawing(x) => x.p # p
          /\ DrawsAt(q, p) /\ q.pc = "opened" => DrawsAt(x, p) /\ x.pc = "opened"
          /\ support /\ Serving' /\ p \notin unloaded' => support /\ Serving /\ p \notin unloaded
      BY <1>3, <2>1, <2>2, <2>3, <3>1
    <3>2. Agree(req', p, thumbs[p], data[p], Existing, support /\ Serving' /\ p \notin unloaded')
      BY <1>2, <3>3, <3>4, KeepAgree
    <3> QED BY <2>3, <3>2
  <2>4. CASE x.pc = "opened" /\ x.answer = None /\ data'[p] = "empty"
    <3>1. Drawn(x, data'[p]) BY <1>t, <2>4 DEF Drawn
    <3> QED BY <1>2, <2>1, <2>2, <2>4, <3>1, OpenAgree
  <2>5. CASE q.pc = "opened" /\ x.pc = "opened" /\ x.answer = "ok" /\ x.image = q.image
             /\ data'[p] \in Filled(data[p], q.image)
    <3>1. data[p] = "empty" /\ None # "empty" BY <1>t, <2>2, <2>5, NoneIsNoValue DEF Drawn
    <3>2. data'[p] = x.image BY <2>5, <3>1 DEF Filled
    <3>3. Drawn(x, data'[p]) BY <1>t, <2>5, <3>2 DEF Drawn
    <3> QED BY <1>2, <2>1, <2>2, <2>5, <3>3, OpenAgree
  <2> QED BY <2>1, <2>3, <2>4, <2>5 DEF Paint
<1> QED BY <1>5, <1>6

LEMMA AnsweredAgrees ==
  ASSUME Founded, Draws, Bookkeeping, ~UpdateThumbnailSupport(TRUE), NEW s \in Slots, Answered(s), AnsweredMoves(s),
         NEW p \in Printers, p \notin tangled'
  PROVE  Agree(req', p, thumbs'[p], data'[p], Existing, support /\ Serving' /\ p \notin unloaded')
<1> DEFINE q == req[s]
           x == req'[s]
<1>t. /\ Becomes(s, x) /\ (\A r \in Slots \ {s} : req'[r] = req[r]) /\ alone \subseteq Slots
      /\ x = Idle \/ x.op = q.op
      /\ Existing' = Existing /\ None # "ok" /\ (q.pc # "idle" => Suits(q.op, q.pc)) /\ q.pc # "idle"
  BY NoneIsNoValue, SlotShaped
     DEF Founded, Shape, TypeOK, AnsweredMoves, Becomes, Follows, Existing
<1>o. OneDraws(req', p) BY Untangled
<1>s. q.op # "boot" \/ x # Idle => (Serving' => Serving) BY <1>t DEF Serving
<1>b. Drawing(q) => q.op # "boot" BY <1>t, CallsDiffer DEF Suits, Drawing
<1>u. ASSUME Serving' => Serving, ~(q.p = p /\ Loading(q) /\ ~Loading(x))
      PROVE  p \in unloaded' <=> p \in unloaded
  BY <1>t, <1>u, StillLoaded
<1>1. CASE Passes(s)
  <2>1. ~Drawing(q) /\ ~Drawing(x) /\ data' = data
        /\ thumbs' = IF x = Idle /\ q.op = "boot" /\ support THEN LoadCache(data, Listed({"enabled"})) ELSE thumbs
    BY <1>1 DEF Passes
  <2>2. ~DrawsAt(q, p) /\ ~DrawsAt(x, p) BY <2>1 DEF DrawsAt, Drawing, Loading
  <2>3. p \notin tangled BY <1>t, <2>2, StillUntangled DEF DrawsAt
  <2>4. Agree(req, p, thumbs[p], data[p], Existing, support /\ Serving /\ p \notin unloaded)
    BY <2>3 DEF Draws
  <2>5. CASE x = Idle /\ q.op = "boot"
    <3>4. support /\ Serving' => unloaded' = Listed({"disabled"})
      <4>1. ~Serving BY <2>5 DEF Serving
      <4> QED BY <4>1 DEF Bookkeeping
    <3>1. /\ support /\ Serving' /\ p \notin unloaded' /\ p \in Existing => thumbs'[p] = data[p]
          /\ p \notin Existing => thumbs'[p] = None
      BY <2>1, <2>4, <2>5, <3>4 DEF LoadCache, Agree, Listed, Existing
    <3>2. Agree(req, p, thumbs'[p], data[p], Existing, support /\ Serving' /\ p \notin unloaded')
      BY <2>4, <3>1, ReadAgree
    <3>3. Agree(req', p, thumbs'[p], data[p], Existing, support /\ Serving' /\ p \notin unloaded')
      BY <1>o, <1>t, <2>1, <2>2, <3>2, KeepAgree, SMTT(30)
    <3> QED BY <2>1, <3>3
  <2>6. CASE ~(x = Idle /\ q.op = "boot")
    <3>1. thumbs' = thumbs /\ (Serving' => Serving) /\ (p \in unloaded' <=> p \in unloaded)
      BY <1>s, <1>u, <2>1, <2>6 DEF Loading, Drawing
    <3>2. Agree(req', p, thumbs[p], data[p], Existing, support /\ Serving' /\ p \notin unloaded')
      BY <1>o, <1>t, <2>1, <2>2, <2>4, <3>1, KeepAgree, ZenonT(60)
    <3> QED BY <2>1, <3>1, <3>2
  <2> QED BY <2>5, <2>6
<1>2. CASE GoesOn(s)
  <2>1. /\ Drawing(q) /\ q.pc \notin {"write", "opened"} /\ data' = data /\ thumbs' = thumbs
        /\ Loading(q) => Loading(x)
        /\ \/ x = Idle
           \/ x.pc \in {"extract", "write"} /\ x.answer = None /\ x.p = q.p
    BY <1>2 DEF GoesOn
  <2>2. p \notin tangled BY <1>t, <2>1, StillUntangled
  <2>3. Agree(req, p, thumbs[p], data[p], Existing, support /\ Serving /\ p \notin unloaded)
    BY <2>2 DEF Draws
  <2>4. ~Drawing(Idle) /\ ~Loading(Idle) BY IdleShaped, CallsDiffer DEF Drawing, Loading
  <2>5. p \in Existing /\ DrawsAt(x, p) => Drawn(x, data[p])
    BY <1>t, <2>1, <2>4 DEF DrawsAt, Drawn
  <2>6. p \notin Existing /\ Drawing(x) => x.p # p BY <2>1, <2>3, <2>4 DEF Agree
  <2>7. Agree(req', p, thumbs[p], data[p], Existing, support /\ Serving' /\ p \notin unloaded')
    <3>1. (\A r \in Slots \ {s} : req'[r] = req[r]) /\ q.pc # "opened" /\ (Serving' => Serving)
          /\ (p \in unloaded' <=> p \in unloaded)
      BY <1>b, <1>s, <1>t, <1>u, <2>1
    <3> QED BY <1>o, <2>3, <2>5, <2>6, <3>1, KeepAgree, ZenonT(60)
  <2> QED BY <2>1, <2>7
<1>3. CASE Ends(s)
  <2>1. /\ Loading(q) /\ ~Drawing(x) /\ Stored(q, data[q.p], thumbs'[q.p], data'[q.p])
        /\ \A r \in Printers \ {q.p} : data'[r] = data[r] /\ thumbs'[r] = thumbs[r]
    BY <1>3 DEF Ends
  <2>2. ~DrawsAt(x, p) /\ (Serving' => Serving)
    BY <1>b, <1>s, <2>1 DEF DrawsAt, Drawing, Loading
  <2>3. CASE q.p # p
    <3>1. p \notin tangled BY <1>t, <2>3, StillUntangled
    <3>2. Agree(req, p, thumbs[p], data[p], Existing, support /\ Serving /\ p \notin unloaded)
      BY <3>1 DEF Draws
    <3>3. Agree(req', p, thumbs[p], data[p], Existing, support /\ Serving' /\ p \notin unloaded')
      <4>1. (\A r \in Slots \ {s} : req'[r] = req[r]) /\ ~DrawsAt(q, p)
        BY <1>t, <2>3 DEF DrawsAt
      <4>2. ~DrawsAt(x, p) /\ ~Drawing(x) /\ (Serving' => Serving) /\ (p \in unloaded' <=> p \in unloaded)
        BY <1>u, <2>1, <2>2, <2>3
      <4> QED BY <1>o, <3>2, <4>1, <4>2, KeepAgree, ZenonT(60)
    <3> QED BY <2>1, <2>3, <3>3
  <2>4. CASE q.p = p
    <3>1. p \in Existing /\ Drawn(q, data[p]) /\ \A r \in Slots \ {s} : ~DrawsAt(req[r], p)
      <4>1. CASE p \notin tangled
        <5>1. Agree(req, p, thumbs[p], data[p], Existing, support /\ Serving /\ p \notin unloaded)
          BY <4>1 DEF Draws
        <5>2. DrawsAt(q, p) /\ Drawing(q) BY <2>1, <2>4 DEF DrawsAt, Drawing, Loading
        <5> QED BY <2>4, <5>1, <5>2 DEF Agree, OneDraws
      <4>2. CASE p \in tangled
        <5>1. s \in alone /\ p \in Existing BY <1>t, <4>2, Untangled
        <5>2. LoneDraws(req, s, data[p], Existing) BY <2>4, <5>1 DEF Draws
        <5> QED BY <2>1, <2>4, <5>1, <5>2 DEF LoneDraws
      <4> QED BY <4>1, <4>2
    <3>2. \A r \in Slots : ~DrawsAt(req'[r], p) BY <1>t, <2>2, <3>1
    <3>3. Shown(thumbs'[p]) = Shown(data'[p]) BY <2>1, <2>4, <3>1 DEF Stored, Drawn, Shown
    <3> QED BY <3>1, <3>2, <3>3, CalmAgree
  <2> QED BY <2>3, <2>4
<1> QED BY <1>1, <1>2, <1>3, AnsweredDraws

LEMMA OthersAgree ==
  ASSUME Founded, Draws, Bookkeeping, Others, OthersMove, NEW p \in Printers, p \notin tangled'
  PROVE  Agree(req, p, thumbs'[p], data'[p], Existing', support' /\ Serving' /\ p \notin unloaded')
<1>t. /\ req' = req /\ alone \subseteq Slots /\ (Serving' <=> Serving)
      /\ printers \in [Printers -> {"enabled", "disabled", "deleted"}]
      /\ data \in [Printers -> Image] /\ thumbs \in [Printers -> Image] /\ support \in BOOLEAN
  BY DEF Founded, Shape, TypeOK, OthersMove, Serving
<1>1. p \notin tangled BY <1>t, Untangled
<1>2. Agree(req, p, thumbs[p], data[p], Existing, support /\ Serving /\ p \notin unloaded)
  BY <1>1 DEF Draws
<1>3. ASSUME thumbs'[p] = thumbs[p], data'[p] = data[p], support' = support,
             p \in unloaded' <=> p \in unloaded, p \in Existing' <=> p \in Existing
      PROVE  Agree(req, p, thumbs'[p], data'[p], Existing', support' /\ Serving' /\ p \notin unloaded')
  BY <1>2, <1>3, <1>t DEF Agree
<1>u. /\ UpdateThumbnailSupport(TRUE) => unloaded' = Listed({"disabled"})
      /\ ~UpdateThumbnailSupport(TRUE) => unloaded' = unloaded
  <2>1. (~UpdateThumbnailSupport(TRUE)) =>
          unloaded' = {r \in unloaded : ~\E x \in Slots :
                         /\ req[x].p = r /\ req'[x] # req[x]
                         /\ Kind(req[x]) = "thumbnail" /\ Kind(req'[x]) # "thumbnail"}
    BY <1>t DEF Bookkeeping
  <2>2. \A x \in Slots : req'[x] = req[x] BY <1>t
  <2>3. UpdateThumbnailSupport(TRUE) => unloaded' = Listed({"disabled"}) BY DEF Bookkeeping
  <2> QED BY <2>1, <2>2, <2>3
<1>8. ASSUME NEW enabled \in BOOLEAN, UpdateThumbnailSupport(enabled)
      PROVE  Agree(req, p, thumbs'[p], data'[p], Existing', support' /\ Serving' /\ p \notin unloaded')
  <2>1. /\ Existing' = Existing /\ data' = data
        /\ p \notin Existing => thumbs'[p] = None
    BY <1>8 DEF UpdateThumbnailSupport, LoadCache, NoThumbnails, Existing, Listed
  <2>2. support' /\ p \notin unloaded' /\ p \in Existing => thumbs'[p] = data[p]
    <3>1. CASE enabled = TRUE
      <4>1. unloaded' = Listed({"disabled"}) /\ thumbs' = LoadCache(data, Listed({"enabled"}))
        BY <1>8, <1>u, <3>1 DEF UpdateThumbnailSupport
      <4> QED BY <4>1 DEF LoadCache, Listed, Existing
    <3>2. CASE enabled = FALSE BY <1>8, <3>2 DEF UpdateThumbnailSupport
    <3> QED BY <3>1, <3>2
  <2>3. Agree(req, p, thumbs'[p], data[p], Existing, support' /\ Serving' /\ p \notin unloaded')
    BY <1>2, <2>1, <2>2, ReadAgree
  <2> QED BY <2>1, <2>3
<1> SUFFICES ASSUME ~UpdateThumbnailSupport(TRUE)
             PROVE  Agree(req, p, thumbs'[p], data'[p], Existing', support' /\ Serving' /\ p \notin unloaded')
  BY <1>8
<1>9. p \in unloaded' <=> p \in unloaded BY <1>u
<1>4. CASE PurgeFiles BY <1>3, <1>9, <1>4 DEF PurgeFiles, Existing
<1>5. ASSUME NEW r \in Printers, ForeignChange(r)
      PROVE  Agree(req, p, thumbs'[p], data'[p], Existing', support' /\ Serving' /\ p \notin unloaded')
  BY <1>3, <1>9, <1>5 DEF ForeignChange, Existing
<1>6. ASSUME NEW r \in Printers, NEW state \in {"enabled", "disabled"}, SetEnabled(r, state)
      PROVE  Agree(req, p, thumbs'[p], data'[p], Existing', support' /\ Serving' /\ p \notin unloaded')
  BY <1>3, <1>9, <1>6, <1>t DEF SetEnabled, Existing
<1>7. ASSUME NEW r \in Printers, PrintersDeleted(r)
      PROVE  Agree(req, p, thumbs'[p], data'[p], Existing', support' /\ Serving' /\ p \notin unloaded')
  <2>1. Existing' = Existing \ {r} /\ r \in Existing /\ support' = support
        /\ \/ support /\ Cleared(r)
           \/ ~support /\ data' = data /\ thumbs' = thumbs
    BY <1>7, <1>t DEF PrintersDeleted, Existing
  <2>2. CASE r # p
    <3>1. thumbs'[p] = thumbs[p] /\ data'[p] = data[p]
      BY <1>t, <2>1, <2>2 DEF Cleared, Removed, SetThumbnail
    <3> QED BY <1>3, <1>9, <2>1, <2>2, <3>1
  <2>3. CASE r = p
    <3>1. support /\ \A s \in Slots : Drawing(req[s]) => req[s].p # p
      BY <2>1, <2>3, Untangled
    <3>2. thumbs'[p] = None /\ data'[p] = None
      BY <1>t, <2>1, <2>3, <3>1 DEF Cleared, Removed, SetThumbnail
    <3> QED BY <1>2, <2>1, <2>3, <3>1, <3>2 DEF Agree
  <2> QED BY <2>2, <2>3
<1> QED BY <1>4, <1>5, <1>6, <1>7, <1>8 DEF Others, Disturbed

\* A load that has its printer to itself.
LEMMA LoneDrawsStep ==
  ASSUME Founded, Draws, Bookkeeping, Step, NEW s \in alone'
  PROVE  LoneDraws(req', s, data'[req'[s].p], Existing')
<1> DEFINE x == req'[s]
           q == req[s]
<1>a. /\ s \in Slots /\ alone \subseteq Slots /\ req \in [Slots -> Request]
      /\ \A r \in Slots : Kind(req'[r]) = Kind(x) /\ req'[r].p = x.p => r = s
      /\ s \in alone \/ x.pc \in FileCalls \cup {"extract"}
      /\ printers \in [Printers -> {"enabled", "disabled", "deleted"}]
      /\ data \in [Printers -> Image]
  BY AloneAfter DEF Founded, Shape, TypeOK
<1>1. Loading(x) => \A r \in Slots : DrawsAt(req'[r], x.p) => r = s
  BY <1>a, KindIs DEF DrawsAt, Loading
<1> SUFFICES ASSUME Loading(x), x.p \in Existing', x.pc \in {"write", "opened"}
             PROVE  Drawn(x, data'[x.p])
  BY <1>1 DEF LoneDraws, Drawn
<1>2. s \in alone /\ LoneDraws(req, s, data[q.p], Existing)
  BY <1>a, CallsDiffer DEF Draws, ThumbnailCalls
<1>3. Drawn(x, data'[x.p]) \/ (x.p \in Existing /\ \A r \in Slots : DrawsAt(req[r], q.p) => r = s)
  \* x writes, so its request was loading before.
  <2>1. ASSUME NEW r \in Slots, Requested(r) \/ CleanTaskRuns(r), BegunMoves(r)
        PROVE  Loading(q) /\ Existing' = Existing
    <3>1. r # s BY <2>1, BegunDraws DEF Loading, Drawing
    <3> QED BY <2>1, <1>a, <3>1 DEF BegunMoves, Becomes, Existing
  <2>2. ASSUME NEW r \in Slots, Outside(r), OutsideMoves(r)
        PROVE  Loading(q) /\ Existing' = Existing
    BY <2>2, <1>a DEF OutsideMoves, Becomes, Answers, Existing, Loading, ThumbnailCalls
  <2>3. ASSUME NEW r \in Slots, Answered(r), AnsweredMoves(r)
        PROVE  Existing' = Existing /\ (Loading(q) \/ Drawn(x, data'[x.p]))
    <3>1. Existing' = Existing BY <2>3 DEF AnsweredMoves, Existing
    <3>2. CASE r # s BY <1>a, <2>3, <3>1, <3>2 DEF AnsweredMoves, Becomes
    <3>3. CASE r = s
      BY <2>3, <3>1, <3>3, AnsweredDraws, IdleShaped, CallsDiffer, NoneIsNoValue
         DEF Passes, GoesOn, Ends, Drawing, Loading, Drawn
    <3> QED BY <3>2, <3>3
  <2>4. ASSUME Others, OthersMove PROVE Loading(q) /\ Existing' \subseteq Existing
    <3>1. Existing' \subseteq Existing
      BY <1>a, <2>4 DEF Others, PurgeFiles, Disturbed, ForeignChange, PrintersDeleted, SetEnabled,
           UpdateThumbnailSupport, Existing
    <3> QED BY <2>4, <3>1 DEF OthersMove
  <2> QED BY <1>2, <2>1, <2>2, <2>3, <2>4, StepMoves DEF LoneDraws
<1>4. CASE Drawn(x, data'[x.p]) BY <1>4
<1>5. CASE x.p \in Existing /\ \A r \in Slots : DrawsAt(req[r], q.p) => r = s
  <2>1. CASE x = q /\ data'[x.p] = data[x.p] BY <1>2, <1>5, <2>1 DEF LoneDraws
  <2>2. ASSUME NEW r \in Slots, Requested(r) \/ CleanTaskRuns(r), BegunMoves(r)
        PROVE  Drawn(x, data'[x.p])
    <3>1. r # s BY <2>2, BegunDraws DEF Loading, Drawing
    <3>2. x = q /\ data' = data BY <2>2, <1>a, <3>1 DEF BegunMoves, Becomes
    <3> QED BY <2>1, <3>2
  <2>3. ASSUME NEW r \in Slots, Outside(r), OutsideMoves(r) PROVE Drawn(x, data'[x.p])
    <3>1. /\ Paint(req[r], req'[r], data[req[r].p], data'[req[r].p])
          /\ Loading(req[r]) \/ data' = data
          /\ \A p \in Printers \ {req[r].p} : data'[p] = data[p]
      BY <2>3, OutsideDraws
    <3>2. x.p \in Printers BY <1>5 DEF Existing
    <3>3. CASE r # s
      <4>1. x = q BY <1>a, <2>3, <3>3 DEF OutsideMoves, Becomes
      <4>2. ~DrawsAt(req[r], x.p) BY <1>5, <3>3, <4>1
      <4>3. data'[x.p] = data[x.p] BY <3>1, <3>2, <4>2 DEF DrawsAt
      <4> QED BY <2>1, <4>1, <4>3
    <3>4. CASE r = s
      <4>0. OutsideMoves(s) /\ None \notin {"ok", "failed", "empty"}
        BY <2>3, <3>4, NoneIsNoValue
      <4>1. x.p = q.p /\ q.answer = None /\ (x.pc = q.pc \/ (q.pc = "write" /\ x.pc = "opened"))
        BY <4>0 DEF OutsideMoves, Answers
      <4>2. Loading(q) /\ Drawn(q, data[x.p])
        BY <1>2, <1>5, <4>1 DEF LoneDraws, Loading, ThumbnailCalls
      <4>3. Paint(q, x, data[x.p], data'[x.p]) BY <3>1, <3>4, <4>1
      <4> QED BY <4>0, <4>1, <4>2, <4>3 DEF Paint, Drawn, Filled
    <3> QED BY <3>3, <3>4
  <2>4. ASSUME NEW r \in Slots, Answered(r), AnsweredMoves(r) PROVE Drawn(x, data'[x.p])
    <3>1. Passes(r) \/ GoesOn(r) \/ Ends(r) BY <2>4, AnsweredDraws
    <3>2. CASE r # s
      <4>1. x = q BY <1>a, <2>4, <3>2 DEF AnsweredMoves, Becomes
      <4>2. ~DrawsAt(req[r], x.p) /\ x.p \in Printers BY <1>5, <3>2, <4>1 DEF Existing
      <4>3. data'[x.p] = data[x.p] BY <3>1, <4>2 DEF Passes, GoesOn, Ends, DrawsAt
      <4> QED BY <2>1, <4>1, <4>3
    <3>3. CASE r = s
      BY <3>1, <3>3, IdleShaped, CallsDiffer, NoneIsNoValue
         DEF Passes, GoesOn, Ends, Drawing, Loading, Drawn
    <3> QED BY <3>2, <3>3
  <2>5. ASSUME Others, OthersMove PROVE Drawn(x, data'[x.p])
    <3>1. data' = data \/ \E r \in Printers : r \notin Existing' /\ data' = Removed(data, r)
      <4>1. ASSUME NEW r \in Printers, PrintersDeleted(r)
            PROVE  r \notin Existing' /\ (data' = data \/ data' = Removed(data, r))
        BY <1>a, <4>1 DEF PrintersDeleted, Cleared, Existing
      <4> QED BY <2>5, <4>1 DEF Others, PurgeFiles, Disturbed, ForeignChange, SetEnabled,
                UpdateThumbnailSupport
    <3>2. data'[x.p] = data[x.p]
      <4>1. ASSUME NEW r \in Printers, r \notin Existing', data' = Removed(data, r)
            PROVE  data'[x.p] = data[x.p]
        <5>1. x.p # r /\ x.p \in Printers BY <1>5, <4>1 DEF Existing
        <5> QED BY <1>a, <4>1, <5>1 DEF Removed, SetThumbnail
      <4> QED BY <3>1, <4>1
    <3> QED BY <2>1, <2>5, <3>2 DEF OthersMove
  <2> QED BY <2>2, <2>3, <2>4, <2>5, StepMoves
<1> QED BY <1>3, <1>4, <1>5

\* A printer left out has no cached thumbnail.
LEMMA UnloadedStep ==
  ASSUME Founded, Draws, Bookkeeping, Step, NEW p \in unloaded'
  PROVE  thumbs'[p] = None
<1>t. /\ req \in [Slots -> Request] /\ thumbs \in [Printers -> Image] /\ unloaded \subseteq Printers
  BY DEF Founded, Shape, TypeOK
<1>1. CASE UpdateThumbnailSupport(TRUE)
  <2>1. unloaded' = Listed({"disabled"}) /\ thumbs' = LoadCache(data, Listed({"enabled"}))
    BY <1>1 DEF Bookkeeping, UpdateThumbnailSupport
  <2> QED BY <2>1 DEF LoadCache, Listed
<1>2. CASE support /\ ~Serving /\ Serving' /\ ~UpdateThumbnailSupport(TRUE)
  <2>1. unloaded' = Listed({"disabled"}) /\ req' # req BY <1>2 DEF Bookkeeping, Serving
  <2>2. PICK b \in Slots : req[b].op = "boot" BY <1>2 DEF Serving
  <2>3. ASSUME NEW s \in Slots, Answered(s), AnsweredMoves(s) PROVE thumbs'[p] = None
    <3>1. /\ Becomes(s, req'[s]) /\ (req'[s] = Idle \/ req'[s].op = req[s].op) /\ req[s].pc # "idle"
          /\ Suits(req[s].op, req[s].pc)
      BY <2>3, SlotShaped DEF Founded, Shape, AnsweredMoves, Follows
    <3>2. s = b /\ req'[s] = Idle BY <1>2, <1>t, <2>2, <3>1 DEF Becomes, Serving
    <3>3. ~Drawing(req[s]) BY <2>2, <3>1, <3>2, CallsDiffer DEF Suits, Drawing
    <3>4. thumbs' = LoadCache(data, Listed({"enabled"}))
      BY <1>2, <2>2, <2>3, <3>2, <3>3, AnsweredDraws DEF Passes, GoesOn, Ends, Drawing, Loading
    <3> QED BY <2>1, <3>4 DEF LoadCache, Listed
  <2>4. ASSUME NEW s \in Slots, BegunMoves(s) PROVE FALSE BY <1>2, <2>4 DEF BegunMoves
  <2>5. ASSUME NEW s \in Slots, OutsideMoves(s) PROVE FALSE
    BY <1>2, <1>t, <2>5 DEF OutsideMoves, Answers, Becomes, Serving
  <2>6. ~OthersMove BY <2>1 DEF OthersMove
  <2> QED BY <2>3, <2>4, <2>5, <2>6, StepMoves
<1>3. CASE ~(support /\ ~Serving /\ Serving') /\ ~UpdateThumbnailSupport(TRUE)
  <2>1. /\ p \in unloaded
        /\ \A x \in Slots : ~(/\ req[x].p = p /\ req'[x] # req[x]
                             /\ Kind(req[x]) = "thumbnail" /\ Kind(req'[x]) # "thumbnail")
    BY <1>3 DEF Bookkeeping
  <2>2. thumbs[p] = None /\ p \in Printers BY <1>t, <2>1 DEF Draws
  <2>3. ASSUME NEW s \in Slots, BegunMoves(s) \/ OutsideMoves(s) PROVE thumbs'[p] = None
    BY <2>2, <2>3 DEF BegunMoves, OutsideMoves
  <2>4. ASSUME NEW s \in Slots, Answered(s), AnsweredMoves(s) PROVE thumbs'[p] = None
    <3>0. Becomes(s, req'[s]) /\ \A r \in Slots \ {s} : req'[r] = req[r]
      BY <1>t, <2>4 DEF AnsweredMoves, Becomes
    <3>1. CASE req'[s] = Idle /\ req[s].op = "boot" /\ support
      <4>1. ~Serving /\ Serving'
        BY <3>0, <3>1, IdleShaped, NoneIsNoValue DEF Draws, BootsAlone, Serving
      <4> QED BY <1>3, <3>1, <4>1
    <3>2. CASE Passes(s) /\ ~(req'[s] = Idle /\ req[s].op = "boot" /\ support)
      BY <2>2, <3>2 DEF Passes
    <3>3. CASE GoesOn(s) BY <2>2, <3>3 DEF GoesOn
    <3>4. CASE Ends(s)
      <4>1. req[s].p # p BY <2>1, <3>4, KindIs DEF Ends, Loading, Drawing
      <4> QED BY <2>2, <3>4, <4>1 DEF Ends
    <3> QED BY <2>4, <3>1, <3>2, <3>3, <3>4, AnsweredDraws
  <2>5. ASSUME Others PROVE thumbs'[p] = None
    <3>1. ASSUME NEW r \in Printers, PrintersDeleted(r) PROVE thumbs'[p] = None
      <4>1. thumbs' = thumbs \/ thumbs' = [thumbs EXCEPT ![r] = None]
        BY <3>1 DEF PrintersDeleted, Cleared, Removed, SetThumbnail
      <4> QED BY <1>t, <2>2, <4>1
    <3>2. ASSUME NEW enabled \in BOOLEAN, UpdateThumbnailSupport(enabled) PROVE thumbs'[p] = None
      BY <1>3, <2>2, <3>2 DEF UpdateThumbnailSupport, NoThumbnails
    <3>3. CASE thumbs' = thumbs BY <2>2, <3>3
    <3> QED BY <2>5, <3>1, <3>2, <3>3 DEF Others, PurgeFiles, Disturbed, ForeignChange, SetEnabled
  <2> QED BY <2>3, <2>4, <2>5, StepMoves
<1> QED BY <1>1, <1>2, <1>3

LEMMA DrawsStep ==
  ASSUME Founded, Draws, Step, Bookkeeping
  PROVE  Draws'
<1>t. req \in [Slots -> Request] BY DEF Founded, Shape, TypeOK
<1>1. ASSUME NEW p \in Printers \ tangled'
      PROVE  Agree(req', p, thumbs'[p], data'[p], Existing', support' /\ Serving' /\ p \notin unloaded')
  <2>0. ASSUME Others, OthersMove
        PROVE  Agree(req', p, thumbs'[p], data'[p], Existing', support' /\ Serving' /\ p \notin unloaded')
    <3>1. Agree(req, p, thumbs'[p], data'[p], Existing', support' /\ Serving' /\ p \notin unloaded')
      BY <2>0, OthersAgree
    <3>2. req' = req BY <2>0 DEF OthersMove
    <3> QED BY <3>1, <3>2
  <2> SUFFICES ASSUME ~UpdateThumbnailSupport(TRUE)
               PROVE  Agree(req', p, thumbs'[p], data'[p], Existing', support' /\ Serving' /\ p \notin unloaded')
    BY <2>0, OthersShaped DEF Others, Founded
  <2>1. ASSUME NEW s \in Slots, Requested(s) \/ CleanTaskRuns(s), BegunMoves(s)
        PROVE  Agree(req', p, thumbs'[p], data'[p], Existing', support' /\ Serving' /\ p \notin unloaded')
    <3>1. Agree(req', p, thumbs[p], data[p], Existing, support /\ Serving' /\ p \notin unloaded')
      BY <2>1, BegunAgrees
    <3>2. thumbs' = thumbs /\ data' = data /\ Existing' = Existing /\ support' = support
      BY <2>1 DEF BegunMoves, Existing
    <3> QED BY <3>1, <3>2
  <2>2. ASSUME NEW s \in Slots, Outside(s), OutsideMoves(s)
        PROVE  Agree(req', p, thumbs'[p], data'[p], Existing', support' /\ Serving' /\ p \notin unloaded')
    <3>1. Agree(req', p, thumbs[p], data'[p], Existing, support /\ Serving' /\ p \notin unloaded')
      BY <2>2, OutsideAgrees
    <3>2. thumbs' = thumbs /\ Existing' = Existing /\ support' = support
      BY <2>2 DEF OutsideMoves, Existing
    <3> QED BY <3>1, <3>2
  <2>3. ASSUME NEW s \in Slots, Answered(s), AnsweredMoves(s)
        PROVE  Agree(req', p, thumbs'[p], data'[p], Existing', support' /\ Serving' /\ p \notin unloaded')
    <3>1. Agree(req', p, thumbs'[p], data'[p], Existing, support /\ Serving' /\ p \notin unloaded')
      BY <2>3, AnsweredAgrees
    <3>2. Existing' = Existing /\ support' = support BY <2>3 DEF AnsweredMoves, Existing
    <3> QED BY <3>1, <3>2
  <2> QED BY <2>0, <2>1, <2>2, <2>3, StepMoves
<1>2. ASSUME NEW s \in alone' PROVE LoneDraws(req', s, data'[req'[s].p], Existing')
  BY <1>2, LoneDrawsStep
<1>3. BootsAlone(req')
  <2>1. ASSUME NEW s \in Slots, BegunMoves(s) PROVE BootsAlone(req')
    BY <1>t, <2>1 DEF BegunMoves, Becomes, Serving, BootsAlone
  <2>2. ASSUME NEW s \in Slots, Becomes(s, req'[s]), req[s].pc # "idle",
               req'[s] = Idle \/ req'[s].op = req[s].op
        PROVE  BootsAlone(req')
    <3>1. BootsAlone(req) /\ req[s] # Idle /\ \A r \in Slots \ {s} : req'[r] = req[r]
      BY <1>t, <2>2, IdleShaped DEF Draws, Becomes
    <3>2. ASSUME NEW r \in Slots, req'[r].op = "boot" PROVE r = s /\ req[s].op = "boot"
      BY <2>2, <3>1, <3>2, IdleShaped, NoneIsNoValue DEF BootsAlone
    <3> QED BY <3>1, <3>2 DEF BootsAlone
  <2>3. ASSUME NEW s \in Slots, OutsideMoves(s) \/ AnsweredMoves(s) PROVE BootsAlone(req')
    BY <2>2, <2>3 DEF OutsideMoves, AnsweredMoves, Answers, Follows
  <2>4. ASSUME OthersMove PROVE BootsAlone(req') BY <2>4 DEF OthersMove, Draws
  <2> QED BY <2>1, <2>3, <2>4, StepMoves
<1>4. ASSUME NEW p \in unloaded' PROVE thumbs'[p] = None BY <1>4, UnloadedStep
<1> QED BY <1>1, <1>2, <1>3, <1>4 DEF Draws

\* A process that has just started loads no thumbnail and serves no request.
LEMMA StartedDraws ==
  ASSUME NEW rs, Started(rs)
  PROVE  /\ \A r \in Slots : ~Drawing(rs[r])
         /\ \E s \in Slots : rs[s].op = "boot"
         /\ BootsAlone(rs)
<1>1. PICK s \in Slots, x \in Request :
        /\ rs = [[t \in Slots |-> Idle] EXCEPT ![s] = x]
        /\ x.op = "boot" /\ x.pc = "load" /\ x.answer = None
  BY DEF Started
<1>2. rs[s] = x /\ (\A r \in Slots \ {s} : rs[r] = Idle) /\ Idle.op # "boot"
  BY <1>1, IdleShaped, NoneIsNoValue
<1>3. \A r \in Slots : ~Drawing(rs[r]) BY <1>1, <1>2, IdleShaped DEF Drawing, ThumbnailCalls
<1> QED BY <1>1, <1>2, <1>3 DEF BootsAlone

LEMMA InitDraws == Init => Draws
<1> SUFFICES ASSUME Init PROVE Draws OBVIOUS
<1>1. Started(req) /\ alone = {} /\ \A p \in Printers : thumbs[p] = None /\ data[p] = None
  BY InitStarted DEF Init, NoThumbnails
<1>2. (\A r \in Slots : ~Drawing(req[r])) /\ BootsAlone(req) BY <1>1, StartedDraws
<1>3. ASSUME NEW p \in Printers
      PROVE  Agree(req, p, thumbs[p], data[p], Existing, support /\ Serving /\ p \notin unloaded)
  BY <1>1, <1>2 DEF Agree, OneDraws, DrawsAt, Drawing, Loading
<1>4. unloaded = {} BY DEF Init
<1> QED BY <1>1, <1>2, <1>3, <1>4 DEF Draws

LEMMA RestartDraws ==
  ASSUME Founded, Draws, Restart, tangled' = tangled \ Existing, unloaded' = {}, alone' = {}
  PROVE  Draws'
<1>1. Started(req') /\ data' = data /\ Existing' = Existing /\ \A p \in Printers : thumbs'[p] = None
  BY RestartStarted DEF Founded, Restart, NoThumbnails, Existing
<1>2. (\A r \in Slots : ~Drawing(req'[r])) /\ BootsAlone(req') /\ ~Serving'
  BY <1>1, StartedDraws DEF Serving
<1>3. ASSUME NEW p \in Printers \ tangled'
      PROVE  Agree(req', p, thumbs'[p], data'[p], Existing', support' /\ Serving' /\ p \notin unloaded')
  <2>1. p \notin Existing => data[p] = None
    <3>1. p \notin Existing => Agree(req, p, thumbs[p], data[p], Existing, support /\ Serving /\ p \notin unloaded)
      BY <1>3 DEF Draws
    <3> QED BY <3>1 DEF Agree
  <2> QED BY <1>1, <1>2, <2>1 DEF Agree, OneDraws, DrawsAt, Drawing, Loading
<1> QED BY <1>2, <1>3 DEF Draws

LEMMA DrawsNext == Founded /\ Draws /\ [Next]_vars => Draws'
<1> SUFFICES ASSUME Founded, Draws, [Next]_vars PROVE Draws' OBVIOUS
<1>1. CASE Step /\ TrackUploads /\ Bookkeeping BY <1>1, DrawsStep
<1>2. CASE Restart /\ currentUploads' = {} /\ doubt' = {} /\ tangled' = tangled \ Existing
            /\ unloaded' = {} /\ alone' = {}
  BY <1>2, RestartDraws
<1>3. CASE UNCHANGED vars BY <1>3 DEF vars, Draws, Existing, Serving
<1> QED BY <1>1, <1>2, <1>3 DEF Next

\* Draws holds of every state.
THEOREM ThumbnailsDrawn == Spec => []Draws
<1>1. Init => Draws BY InitDraws
<1>2. Founded /\ Draws /\ [Next]_vars => Draws' BY DrawsNext
<1> QED BY <1>1, <1>2, FilesFounded, PTL DEF Spec

\* The cached thumbnail of a printer is its file's, a printer that loadCache left out because it
\* was disabled has none until its next load, and a deleted printer leaves neither
\* (printer-thumbnail.cache.ts), whatever failed while the G-code was read and the file written,
\* as long as Bookkeeping knows of no loads that met.
THEOREM ThumbnailsAgree == Spec => []ThumbnailAgrees
<1>1. Draws => ThumbnailAgrees
  <2> SUFFICES ASSUME Draws, NEW p \in Printers \ tangled
               PROVE  /\ Busy("thumbnail", p) = {} /\ support /\ Serving /\ p \in Existing =>
                           Shown(thumbs[p]) = IF p \in unloaded THEN None ELSE Shown(data[p])
                      /\ p \notin Existing => thumbs[p] = None /\ data[p] = None
    BY DEF ThumbnailAgrees
  <2>1. Agree(req, p, thumbs[p], data[p], Existing, support /\ Serving /\ p \notin unloaded)
    BY DEF Draws
  <2>2. Busy("thumbnail", p) = {} => \A s \in Slots : ~DrawsAt(req[s], p)
    BY KindIs DEF Busy, DrawsAt, Loading
  <2>3. p \in unloaded => Shown(thumbs[p]) = None BY DEF Draws, Shown
  <2> QED BY <2>1, <2>2, <2>3 DEF Agree
<1> QED BY <1>1, ThumbnailsDrawn, PTL
===============================================================================
