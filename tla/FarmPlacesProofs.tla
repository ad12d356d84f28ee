-------------------------- MODULE FarmPlacesProofs --------------------------
(***************************************************************************)
(* Proof that no request of Farm undoes a place that another one has       *)
(* given. It goes on from FarmProofs: with SQLite an operation changes the *)
(* places of one floor as its caller asked, and with MongoDB the version   *)
(* of a floor's document keeps a request that read it earlier from saving  *)
(* what others have changed since.                                         *)
(***************************************************************************)
EXTENDS FarmProofs

---------------------------------------------------------------------------
(* Places, when requests overlap                                           *)

\* What a request may rely on. An id that it gives a floor is not in use, ...
IdUnused(s, r) == r.cmd = "insertFloor" /\ r.ans = Pending => r.f \notin DOMAIN s.floors

\* ... the printer whose places it removes is gone, ...
Gone(s, r) ==
  r.op = "delete" /\ (r.cmd = "pull" \/ (r.cmd = "deletePrinters" /\ r.ans # Pending)) =>
    The(r.ps) \notin DOMAIN s.printers

\* ... and the places of its floor are the ones it read, unless the version says
\* otherwise; some may be gone with their printers.
Holds(r) ==
  /\ r.op \in {"place", "remove"} /\ ~r.stale
  /\ \/ r.cmd = "findFloor" /\ Changed(r)
     \/ r.cmd = "savePlaces" /\ r.ans = Pending

Read(r) == IF r.cmd = "findFloor" THEN r.ans ELSE r.arg.read

ReadStill(s, r) == Holds(r) /\ r.f \in DOMAIN s.floors =>
  /\ s.floors[r.f].printers \subseteq Read(r).printers
  /\ \A pos \in Read(r).printers \ s.floors[r.f].printers : pos.printer \notin DOMAIN s.printers

\* A document to be saved is one of those that the request may make of what it read.
Saving(r) ==
  /\ r \in PlaceSaves => r.arg.doc.printers \in Placed(r.arg.read.printers, The(r.ps), r.arg.cell)
  /\ r \in RemoveSaves => r.arg.doc.printers \in Removed(r.arg.read.printers, The(r.ps))

Good(s, r) == IdUnused(s, r) /\ Gone(s, r) /\ ReadStill(s, r) /\ Saving(r)

\* A create is alone, ...
CreateAlone == \A c, d \in Slots : req[c].op = "create" /\ c # d => req[d] = Idle

\* ... and an id that a floor is to get is nobody else's, nor shown.
Inserts(c) == req[c] # Idle /\ req[c].cmd = "insertFloor"

OwnId == \A c \in Slots : Inserts(c) => \A d \in Slots : c # d => req[d].f # req[c].f

NotShown == \A c \in Slots : ~disturbed /\ Inserts(c) => req[c].f \notin DOMAIN farm.store

MongoPlaces == mode.db = "mongo" =>
  /\ \A c \in Slots : req[c] # Idle => Good(farm, req[c])
  /\ CreateAlone /\ OwnId /\ NotShown

FarmInv == CacheInv /\ MongoPlaces

\* The kinds of requests that rely on something.
LEMMA IdleGood ==
  ASSUME NEW s, NEW r, r.op # "delete", r.cmd \notin {"insertFloor", "findFloor", "savePlaces"}
  PROVE  Good(s, r)
BY Kinds DEF Good, IdUnused, Gone, ReadStill, Holds, Saving

\* Nothing appears, and places only go with their printers.
Shrinks(s, t) ==
  /\ DOMAIN t.printers \subseteq DOMAIN s.printers
  /\ DOMAIN t.floors \subseteq DOMAIN s.floors
  /\ \A f \in DOMAIN t.floors :
       /\ t.floors[f].printers \subseteq s.floors[f].printers
       /\ \A pos \in s.floors[f].printers \ t.floors[f].printers : pos.printer \notin DOMAIN t.printers

LEMMA GoodShrinks ==
  ASSUME NEW s, NEW r, Good(s, r), NEW t, Shrinks(s, t)
  PROVE  Good(t, r)
<1>1. IdUnused(t, r) BY DEF Good, IdUnused, Shrinks
<1>2. Gone(t, r) BY DEF Good, Gone, Shrinks
<1>3. ReadStill(t, r) BY DEF Good, ReadStill, Shrinks
<1>4. QED BY <1>1, <1>2, <1>3 DEF Good

\* Another floor appears.
LEMMA GoodInserted ==
  ASSUME NEW s, NEW r, Good(s, r), NEW f, r.f # f, NEW floor, NEW t,
         t.printers = s.printers, t.floors = Put(s.floors, f, floor)
  PROVE  Good(t, r)
<1>1. /\ DOMAIN t.floors = DOMAIN s.floors \cup {f}
      /\ r.f \in DOMAIN t.floors => r.f \in DOMAIN s.floors /\ t.floors[r.f] = s.floors[r.f]
  BY DEF Put
<1>2. IdUnused(t, r) BY <1>1 DEF Good, IdUnused
<1>3. Gone(t, r) BY DEF Good, Gone
<1>4. ReadStill(t, r) BY <1>1 DEF Good, ReadStill
<1>5. QED BY <1>2, <1>3, <1>4 DEF Good

\* The places of another floor change, ...
SavedPlaces(s, f, t) ==
  /\ t.printers = s.printers /\ DOMAIN t.floors = DOMAIN s.floors
  /\ \A g \in DOMAIN s.floors : g # f => t.floors[g].printers = s.floors[g].printers

LEMMA GoodElsewhere ==
  ASSUME NEW s, NEW r, Good(s, r), NEW f, r.f # f \/ ~Holds(r), NEW t, SavedPlaces(s, f, t)
  PROVE  Good(t, r)
<1>1. IdUnused(t, r) BY DEF Good, IdUnused, SavedPlaces
<1>2. Gone(t, r) BY DEF Good, Gone, SavedPlaces
<1>3. ReadStill(t, r) BY DEF Good, ReadStill, SavedPlaces
<1>4. QED BY <1>1, <1>2, <1>3 DEF Good

\* ... or of the floor of a request, which is told.
LEMMA GoodMarked ==
  ASSUME NEW s, NEW r, Good(s, r), Legal(r), r # Idle, NEW f, NEW t, SavedPlaces(s, f, t)
  PROVE  Good(t, Marked(r))
<1> DEFINE m == Marked(r)
<1>1. /\ m.op = r.op /\ m.cmd = r.cmd /\ m.ps = r.ps /\ m.f = r.f
      /\ m.arg = r.arg /\ m.ans = r.ans /\ m.stale = TRUE /\ Legal(m)
  BY MarkedLegal
<1> HIDE DEF m
<1>2. IdUnused(t, m) BY <1>1 DEF Good, IdUnused, SavedPlaces
<1>3. Gone(t, m) BY <1>1 DEF Good, Gone, SavedPlaces
<1>4. ReadStill(t, m) BY <1>1 DEF ReadStill, Holds
<1>5. Saving(m)
  <2>1. m \in PlaceSaves => r \in PlaceSaves BY <1>1, Kinds, LegalIs
  <2>2. m \in RemoveSaves => r \in RemoveSaves BY <1>1, Kinds, LegalIs
  <2>3. QED BY <1>1, <2>1, <2>2 DEF Good, Saving
<1>6. QED BY <1>2, <1>3, <1>4, <1>5 DEF Good, m

\* A step of one request.
LEMMA PlacesStep ==
  ASSUME MongoTypes, MongoCaches, MongoPlaces, mode.db = "mongo", NEW c \in Slots, NEW t, NEW r2, Stepped(c, t, r2),
         req[c] # Idle, r2 # Idle => r2.op = req[c].op /\ Good(t, r2),
         \A d \in Slots : d # c /\ req[d] # Idle =>
           /\ req'[d].op = req[d].op /\ req'[d].cmd = req[d].cmd /\ req'[d].f = req[d].f
           /\ Good(t, req'[d]),
         r2 # Idle /\ r2.f # req[c].f => \A d \in Slots : req[d].f # r2.f,
         r2 # Idle /\ r2.cmd = "insertFloor" =>
           /\ r2.f \in FloorIds
           /\ req[c].cmd = "insertFloor" \/ \A d \in Slots : d # c => req[d].f # r2.f
           /\ ~disturbed => r2.f \notin DOMAIN t.store
  PROVE  MongoPlaces'
<1>1. /\ farm' = t /\ req'[c] = r2 /\ disturbed' = disturbed /\ mode' = mode
      /\ \A d \in Slots : d # c => Legal(req'[d]) /\ (req[d] = Idle => req'[d] = Idle)
  BY DEF Stepped
<1>2. /\ \A d \in Slots : req[d] # Idle => Good(farm, req[d])
      /\ CreateAlone /\ OwnId /\ NotShown
  BY DEF MongoPlaces
<1>3. \A d \in Slots : d # c /\ req'[d] # Idle => req[d] # Idle BY <1>1
<1>4. (\A d \in Slots : req[d] # Idle => Good(farm, req[d]))' BY <1>1, <1>3
<1>5. CreateAlone'
  <2>1. ASSUME NEW d \in Slots, req'[d].op = "create" PROVE req[d].op = "create"
    <3>1. req'[d] # Idle BY <2>1, IdleIs
    <3>2. QED BY <1>1, <1>3, <2>1, <3>1
  <2>2. ASSUME NEW d \in Slots, NEW e \in Slots, d # e, req'[d].op = "create" PROVE req'[e] = Idle
    <3>1. req[e] = Idle BY <1>2, <2>1, <2>2 DEF CreateAlone
    <3>2. e # c BY <3>1
    <3>3. QED BY <1>1, <3>1, <3>2
  <2>3. QED BY <2>2 DEF CreateAlone
<1>6. \A d \in Slots : Legal(req[d]) BY DEF MongoTypes
<1>7. ASSUME NEW d \in Slots, Inserts(d) PROVE req[d].f \in FloorIds /\ req[d].op # "patch"
  <2>1. req[d] \in DeleteInserts \/ req[d] \in ListInserts \/ req[d] \in FloorInserts
    BY <1>6, <1>7, AwaitedIs DEF Inserts
  <2>2. QED BY <2>1, DeleteInsertsAre, ListInsertsAre, FloorInsertsAre
<1>8. ASSUME NEW d \in Slots, Inserts(d)' PROVE (d # c /\ Inserts(d) /\ req'[d].f = req[d].f) \/ (d = c /\ r2 # Idle /\ r2.cmd = "insertFloor")
  BY <1>1, <1>3, <1>8 DEF Inserts
<1>9. \A d \in Slots : req'[d] = Idle \/ req'[d].f = req[d].f \/ (d = c /\ r2.f # req[c].f)
  BY <1>1, <1>3
<1>10. OwnId'
  <2>1. ASSUME NEW d \in Slots, Inserts(d)', NEW e \in Slots, d # e PROVE req'[e].f # req'[d].f
    <3>1. CASE d # c
      <4>1. Inserts(d) /\ req'[d].f = req[d].f /\ req[d].f \in FloorIds
        BY <1>7, <1>8, <2>1, <3>1
      <4>2. req[e].f # req[d].f BY <1>2, <2>1, <4>1 DEF OwnId
      <4>3. CASE req'[e] = Idle BY <4>1, <4>3, IdleIs, NoValues
      <4>4. CASE req'[e].f = req[e].f BY <4>1, <4>2, <4>4
      <4>5. CASE e = c /\ r2.f # req[c].f
        <5>1. CASE r2 = Idle BY <1>1, <4>1, <4>5, <5>1, IdleIs, NoValues
        <5>2. CASE r2 # Idle BY <1>1, <4>1, <4>5, <5>2
        <5>3. QED BY <5>1, <5>2
      <4>6. QED BY <1>9, <4>3, <4>4, <4>5
    <3>2. CASE d = c
      <4>1. r2 # Idle /\ r2.cmd = "insertFloor" /\ r2.f \in FloorIds /\ req'[d] = r2
        BY <1>1, <1>8, <2>1, <3>2
      <4>2. req[e].f # r2.f
        <5>1. CASE \A x \in Slots : x # c => req[x].f # r2.f BY <2>1, <3>2, <5>1
        <5>2. CASE req[c].cmd = "insertFloor"
          <6>1. Inserts(c) BY <5>2 DEF Inserts
          <6>2. req[e].f # req[c].f BY <1>2, <2>1, <3>2, <6>1 DEF OwnId
          <6>3. QED BY <4>1, <6>2
        <5>3. QED BY <4>1, <5>1, <5>2
      <4>3. CASE req'[e] = Idle BY <4>1, <4>3, IdleIs, NoValues
      <4>4. CASE req'[e] # Idle
        <5>1. req'[e].f = req[e].f BY <1>3, <2>1, <3>2, <4>4
        <5>2. QED BY <4>1, <4>2, <5>1
      <4>5. QED BY <4>3, <4>4
    <3>3. QED BY <3>1, <3>2
  <2>2. QED BY <2>1 DEF OwnId
<1>11. NotShown'
  <2>1. ASSUME NEW d \in Slots, ~disturbed, Inserts(d)' PROVE req'[d].f \notin DOMAIN t.store
    <3>1. CASE d = c BY <1>1, <1>8, <2>1, <3>1
    <3>2. CASE d # c
      <4>1. Inserts(d) /\ req[d].op # "patch" BY <1>7, <1>8, <2>1, <3>2
      <4>2. ~Patching BY <4>1 DEF Patching, Inserts
      <4>3. PICK e \in Slots : Alone(e) BY <2>1, <4>2 DEF MongoCaches
      <4>4. QED BY <3>2, <4>1, <4>3 DEF Alone, Inserts
    <3>3. QED BY <3>1, <3>2
  <2>2. QED BY <1>1, <2>1 DEF NotShown
<1>12. QED BY <1>4, <1>5, <1>10, <1>11 DEF MongoPlaces

\* A request is a record of these fields.
Shaped(r) == DOMAIN r = {"op", "ps", "f", "arg", "cmd", "ans", "stale"}

LEMMA RequestShape ==
  ASSUME NEW op, NEW cmd, NEW pss, NEW fs, NEW args, NEW answers,
         NEW r \in Request(op, cmd, pss, fs, args, answers)
  PROVE  Shaped(r)
BY DEF Request, Shaped

LEMMA LegalShape ==
  ASSUME NEW r, Legal(r)
  PROVE  Shaped(r)
<1>0. r = Idle => Shaped(r) BY DEF Idle, Shaped
<1>1. r \in Creates => Shaped(r) BY RequestShape DEF Creates
<1>2. r \in UpdateFinds => Shaped(r) BY RequestShape DEF UpdateFinds
<1>3. r \in UpdateSaves => Shaped(r) BY RequestShape DEF UpdateSaves
<1>4. r \in PatchFinds => Shaped(r) BY RequestShape DEF PatchFinds
<1>5. r \in PatchSaves => Shaped(r) BY RequestShape DEF PatchSaves
<1>6. r \in Deletes => Shaped(r) BY RequestShape DEF Deletes
<1>7. r \in DeletePulls => Shaped(r) BY RequestShape DEF DeletePulls
<1>8. r \in DeleteAlls => Shaped(r) BY RequestShape DEF DeleteAlls
<1>9. r \in DeleteLists => Shaped(r) BY RequestShape DEF DeleteLists
<1>10. r \in DeleteInserts => Shaped(r) BY RequestShape DEF DeleteInserts
<1>11. r \in Lists => Shaped(r) BY RequestShape DEF Lists
<1>12. r \in ListInserts => Shaped(r) BY RequestShape DEF ListInserts
<1>13. r \in FloorInserts => Shaped(r) BY RequestShape DEF FloorInserts
<1>14. r \in DeleteFloorFinds => Shaped(r) BY RequestShape DEF DeleteFloorFinds
<1>15. r \in DeleteFloors => Shaped(r) BY RequestShape DEF DeleteFloors
<1>16. r \in TitleFinds => Shaped(r) BY RequestShape DEF TitleFinds
<1>17. r \in TitleSaves => Shaped(r) BY RequestShape DEF TitleSaves
<1>18. r \in PlaceFinds => Shaped(r) BY RequestShape DEF PlaceFinds
<1>19. r \in PlaceSaves => Shaped(r) BY RequestShape DEF PlaceSaves
<1>20. r \in RemoveFinds => Shaped(r) BY RequestShape DEF RemoveFinds
<1>21. r \in RemoveSaves => Shaped(r) BY RequestShape DEF RemoveSaves
<1>22. QED
  BY <1>0, <1>1, <1>2, <1>3, <1>4, <1>5, <1>6, <1>7, <1>8, <1>9, <1>10, <1>11, <1>12, <1>13, <1>14, <1>15, <1>16, <1>17, <1>18, <1>19, <1>20, <1>21 DEF Legal

LEMMA AnsweredShape ==
  ASSUME NEW r, Shaped(r), NEW ans, NEW t, t = AnsweredBy(r, ans)
  PROVE  /\ t.op = r.op /\ t.cmd = r.cmd /\ t.ps = r.ps /\ t.f = r.f
         /\ t.arg = r.arg /\ t.ans = ans /\ t.stale = r.stale
BY DEF Shaped, AnsweredBy

LEMMA NextShape ==
  ASSUME NEW r, Shaped(r), NEW cmd, NEW arg, NEW t, t = NextOf(r, cmd, arg)
  PROVE  /\ t.op = r.op /\ t.cmd = cmd /\ t.ps = r.ps /\ t.f = r.f
         /\ t.arg = arg /\ t.ans = Pending /\ t.stale = r.stale
BY DEF Shaped, NextOf

\* The printers that a step from s to t leaves without a place on floor f.
Left(s, t, f) ==
  {pos \in s.floors[f].printers \ t.floors[f].printers :
     /\ pos.printer \in DOMAIN t.printers
     /\ \A q \in t.floors[f].printers : q.cell # pos.cell
     /\ \A g \in DOMAIN t.floors : \A q \in t.floors[g].printers : q.printer # pos.printer}

NoLoss(s, t) == \A f \in DOMAIN s.floors \cap DOMAIN t.floors :
  Left(s, t, f) # {} =>
    /\ Cardinality(Left(s, t, f)) = 1
    /\ \A pos \in t.floors[f].printers \ s.floors[f].printers : pos.printer \notin DOMAIN t.printers

\* Who leaves is gone: nobody is left without a place.
LEMMA ShrinksNoLoss ==
  ASSUME NEW s, NEW t, Shrinks(s, t)
  PROVE  NoLoss(s, t)
BY DEF Shrinks, NoLoss, Left

\* The places are the same.
LEMMA SameNoLoss ==
  ASSUME NEW s, NEW t,
         \A f \in DOMAIN s.floors \cap DOMAIN t.floors : t.floors[f].printers = s.floors[f].printers
  PROVE  NoLoss(s, t)
BY DEF NoLoss, Left

LEMMA SameLoss ==
  ASSUME NEW s, NEW t, NoLoss(s, t), NEW u, u.floors = t.floors, u.printers = t.printers
  PROVE  NoLoss(s, u)
<1>1. \A f : Left(s, u, f) = Left(s, t, f) BY DEF Left
<1>2. QED BY <1>1 DEF NoLoss

\* Neither printers nor floors change.
LEMMA SameShrinks ==
  ASSUME NEW s, NEW t, DOMAIN t.printers \subseteq DOMAIN s.printers, t.floors = s.floors
  PROVE  Shrinks(s, t)
BY DEF Shrinks

\* A request that is answered.
LEMMA GoodAnswered ==
  ASSUME NEW s, NEW r, Legal(r), r # Idle, Good(s, r), r.ans = Pending, NEW ans, ans # Pending,
         NEW t, DOMAIN t.printers \subseteq DOMAIN s.printers,
         r.cmd = "findFloor" => ans = FindFloor(t, r.f),
         r.op = "delete" /\ r.cmd = "deletePrinters" => The(r.ps) \notin DOMAIN t.printers,
         NEW r2, r2 = AnsweredBy(r, ans)
  PROVE  Good(t, r2) /\ r2.op = r.op /\ r2.cmd = r.cmd /\ r2.f = r.f
<1>1. /\ r2.op = r.op /\ r2.cmd = r.cmd /\ r2.ps = r.ps /\ r2.f = r.f
      /\ r2.arg = r.arg /\ r2.ans = ans /\ r2.stale = r.stale
  BY LegalShape, AnsweredShape
<1>2. IdUnused(t, r2) BY <1>1 DEF IdUnused
<1>3. Gone(t, r2) BY <1>1 DEF Good, Gone
<1>4. ReadStill(t, r2) BY <1>1 DEF ReadStill, Holds, Read, FindFloor, Changed
<1>5. Saving(r2)
  <2>1. r2 \in PlaceSaves => r \in PlaceSaves BY <1>1, Kinds, LegalIs
  <2>2. r2 \in RemoveSaves => r \in RemoveSaves BY <1>1, Kinds, LegalIs
  <2>3. QED BY <1>1, <2>1, <2>2 DEF Good, Saving
<1>6. QED BY <1>1, <1>2, <1>3, <1>4, <1>5 DEF Good

\* What a request that is to insert a floor has, and the others that it meets.
LEMMA InsertsAre ==
  ASSUME MongoTypes, MongoPlaces, mode.db = "mongo", NEW c \in Slots, Inserts(c)
  PROVE  /\ req[c].f \in FloorIds /\ (~disturbed => req[c].f \notin DOMAIN farm.store)
         /\ \A d \in Slots : d # c => req[d].f # req[c].f
<1>1. req[c] \in DeleteInserts \/ req[c] \in ListInserts \/ req[c] \in FloorInserts
  BY AwaitedIs DEF MongoTypes, Inserts
<1>2. req[c].f \in FloorIds BY <1>1, DeleteInsertsAre, ListInsertsAre, FloorInsertsAre
<1>3. QED BY <1>2 DEF MongoPlaces, NotShown, OwnId

\* A command that takes places only with their printers, ...
LEMMA ServePlaces ==
  ASSUME MongoTypes, MongoCaches, MongoPlaces, mode.db = "mongo", NEW c \in Slots,
         NEW cmd, NEW t, NEW ans, Serve(c, cmd, t, ans), ans # Pending,
         Shrinks(farm, t), t.store = farm.store,
         cmd = "findFloor" => ans = FindFloor(t, req[c].f),
         cmd = "deletePrinters" /\ req[c].op = "delete" => The(req[c].ps) \notin DOMAIN t.printers
  PROVE  MongoPlaces' /\ NoLoss(farm, farm')
<1> DEFINE r == req[c]
           r2 == AnsweredBy(r, ans)
<1>1. /\ Stepped(c, t, r2) /\ \A d \in Slots : d # c => req'[d] = req[d]
      /\ farm' = t /\ r.cmd = cmd /\ r.ans = Pending /\ r # Idle /\ Legal(r)
  BY ServeSteps
<1>2. \A d \in Slots : req[d] # Idle => Good(farm, req[d]) BY DEF MongoPlaces
<1>3. DOMAIN t.printers \subseteq DOMAIN farm.printers BY DEF Shrinks
<1>4. Good(t, r2) /\ r2.op = r.op /\ r2.cmd = r.cmd /\ r2.f = r.f
  BY <1>1, <1>2, <1>3, GoodAnswered
<1> HIDE DEF r2
<1>5. r2.cmd = "insertFloor" => r2.f \in FloorIds /\ (~disturbed => r2.f \notin DOMAIN t.store)
  BY <1>1, <1>4, InsertsAre DEF Inserts
<1>6. \A d \in Slots : d # c /\ req[d] # Idle => Good(t, req'[d]) BY <1>1, <1>2, GoodShrinks
<1>7. MongoPlaces' BY <1>1, <1>4, <1>5, <1>6, PlacesStep
<1>8. QED BY <1>1, <1>7, ShrinksNoLoss

\* ... an answer that leads to the next command, ...
LEMMA AwaitPlaces ==
  ASSUME MongoTypes, MongoCaches, MongoPlaces, mode.db = "mongo", NEW c \in Slots, req[c] # Idle,
         NEW t, NEW cmd, NEW arg, Await(c, t, cmd, arg), cmd # "insertFloor",
         Shrinks(farm, t), Good(t, NextOf(req[c], cmd, arg))
  PROVE  MongoPlaces' /\ NoLoss(farm, farm')
<1> DEFINE r == req[c]
           r2 == NextOf(r, cmd, arg)
<1>1. /\ Stepped(c, t, r2) /\ \A d \in Slots : d # c => req'[d] = req[d]
      /\ farm' = t /\ Legal(r)
  BY AwaitSteps DEF MongoTypes
<1>2. \A d \in Slots : req[d] # Idle => Good(farm, req[d]) BY DEF MongoPlaces
<1>3. r2.op = r.op /\ r2.cmd = cmd /\ r2.f = r.f BY <1>1, LegalShape, NextShape
<1>4. Good(t, r2) OBVIOUS
<1> HIDE DEF r2
<1>5. \A d \in Slots : d # c /\ req[d] # Idle => Good(t, req'[d]) BY <1>1, <1>2, GoodShrinks
<1>6. MongoPlaces' BY <1>1, <1>3, <1>4, <1>5, PlacesStep
<1>7. QED BY <1>1, <1>6, ShrinksNoLoss

\* ... and one that ends the request.
LEMMA FinishPlaces ==
  ASSUME MongoTypes, MongoCaches, MongoPlaces, mode.db = "mongo", NEW c \in Slots, req[c] # Idle,
         NEW t, Finish(c, t), Shrinks(farm, t)
  PROVE  MongoPlaces' /\ NoLoss(farm, farm')
<1>1. /\ Stepped(c, t, Idle) /\ \A d \in Slots : d # c => req'[d] = req[d] BY FinishSteps
<1>2. farm' = t BY FinishSteps
<1>3. \A d \in Slots : req[d] # Idle => Good(farm, req[d]) BY DEF MongoPlaces
<1>4. \A d \in Slots : d # c /\ req[d] # Idle => Good(t, req'[d]) BY <1>1, <1>3, GoodShrinks
<1>5. MongoPlaces' BY <1>1, <1>4, PlacesStep
<1>6. QED BY <1>2, <1>5, ShrinksNoLoss

\* A set without the one that it has is a set.
LEMMA PullShrinks ==
  ASSUME NEW s \in Farms, NEW p, p \notin DOMAIN s.printers, NEW t, t = PullPrinter(s, p)
  PROVE  Shrinks(s, t) /\ t.store = s.store
<1>1. /\ t.printers = s.printers /\ t.store = s.store /\ DOMAIN t.floors = DOMAIN s.floors
      /\ \A f \in DOMAIN s.floors :
           t.floors[f].printers = {pos \in s.floors[f].printers : pos.printer # p}
  BY PullIs
<1>2. QED BY <1>1 DEF Shrinks

\* The commands on printers.
LEMMA ServePrintersPlaces ==
  ASSUME MongoTypes, MongoCaches, MongoPlaces, mode.db = "mongo", NEW c \in Slots,
         \/ ServeInsertPrinter(c) \/ ServeFindPrinter(c) \/ ServeSavePrinter(c)
         \/ ServePatchPrinter(c) \/ ServeDeletePrinters(c) \/ ServePull(c)
  PROVE  MongoPlaces' /\ NoLoss(farm, farm')
<1> DEFINE r == req[c]
<1>1. farm \in Farms /\ Legal(r) BY DEF MongoTypes
<1>2. r # Idle => Good(farm, r) BY DEF MongoPlaces
<1>3. CASE ServeInsertPrinter(c)
  <2>1. PICK p \in r.arg.todo : Serve(c, "insertPrinter", OrmInsert(farm, p, r.arg.conn), p)
    BY <1>3 DEF ServeInsertPrinter
  <2> DEFINE t == OrmInsert(farm, p, r.arg.conn)
             r2 == AnsweredBy(r, p)
  <2>2. /\ r.cmd = "insertPrinter" /\ r.ans = Pending /\ r # Idle /\ Stepped(c, t, r2)
        /\ farm' = t /\ \A d \in Slots : d # c => req'[d] = req[d]
    BY <2>1, ServeSteps
  <2>3. r \in Creates BY <1>1, <2>2, AwaitedIs
  <2>4. r.op = "create" /\ r.arg.conn \in Conns /\ p \in PrinterIds BY <2>3, CreatesAre
  <2>5. \A d \in Slots : d # c => req[d] = Idle BY <2>4 DEF MongoPlaces, CreateAlone
  <2>6. t.floors = farm.floors BY <1>1, <2>4, InsertIs
  <2>7. r2.op = r.op /\ r2.cmd = "insertPrinter" /\ r2.f = r.f
    BY <1>1, <2>2, LegalShape, AnsweredShape
  <2> HIDE DEF t, r2
  <2>8. Good(t, r2) BY <2>4, <2>7, IdleGood
  <2>9. MongoPlaces' BY <2>2, <2>5, <2>7, <2>8, PlacesStep
  <2>10. QED BY <2>2, <2>6, <2>9, SameNoLoss
<1>4. CASE ServeFindPrinter(c)
  <2> DEFINE ans == FindPrinter(farm, The(r.ps))
  <2>1. Serve(c, "findPrinter", farm, ans) BY <1>4 DEF ServeFindPrinter
  <2>2. ans # Pending
    <3>1. ans \in Printer \cup {None} BY <1>1, FindIs
    <3>2. QED BY <3>1, NoValues
  <2> HIDE DEF ans
  <2>3. Shrinks(farm, farm) BY SameShrinks
  <2>4. QED BY <2>1, <2>2, <2>3, ServePlaces
<1>5. CASE ServeSavePrinter(c)
  <2> DEFINE p == The(r.ps)
             t == SavePrinter(farm, p, r.arg.doc, r.arg.read)
             ans == IF p \in DOMAIN farm.printers THEN "saved" ELSE None
  <2>1. Serve(c, "savePrinter", t, ans) BY <1>5 DEF ServeSavePrinter
  <2>2. ans # Pending BY NoValues
  <2>3. r.cmd = "savePrinter" /\ r # Idle BY <2>1, ServeSteps
  <2>4. r \in UpdateSaves BY <1>1, <2>3, AwaitedIs
  <2>5. t.floors = farm.floors /\ t.store = farm.store /\ DOMAIN t.printers = DOMAIN farm.printers
    BY <1>1, <2>4, UpdateSavesAre, SavePrinterIs
  <2> HIDE DEF t, ans
  <2>6. Shrinks(farm, t) BY <2>5, SameShrinks
  <2>7. QED BY <2>1, <2>2, <2>5, <2>6, ServePlaces
<1>6. CASE ServePatchPrinter(c)
  <2> DEFINE p == The(r.ps)
             t == FindByIdAndUpdate(farm, p, r.arg.update)
             ans == FindPrinter(t, p)
  <2>1. Serve(c, "patchPrinter", t, ans) BY <1>6 DEF ServePatchPrinter
  <2>2. r.cmd = "patchPrinter" /\ r # Idle BY <2>1, ServeSteps
  <2>3. r \in PatchSaves BY <1>1, <2>2, AwaitedIs
  <2>4. t \in Farms /\ t.floors = farm.floors /\ t.store = farm.store /\ DOMAIN t.printers = DOMAIN farm.printers
    BY <1>1, <2>3, PatchSavesAre, PatchesFit, FindAndUpdateIs
  <2> HIDE DEF t
  <2>5. ans # Pending
    <3>1. ans \in Printer \cup {None} BY <2>4, FindIs
    <3>2. QED BY <3>1, NoValues
  <2> HIDE DEF ans
  <2>6. Shrinks(farm, t) BY <2>4, SameShrinks
  <2>7. QED BY <2>1, <2>4, <2>5, <2>6, ServePlaces
<1>7. CASE ServeDeletePrinters(c)
  <2> DEFINE ps == r.ps
             t == RemovePrinters(farm, ps)
  <2>1. Serve(c, "deletePrinters", t, "deleted") BY <1>7 DEF ServeDeletePrinters
  <2>2. r.cmd = "deletePrinters" /\ r # Idle BY <2>1, ServeSteps
  <2>3. r \in Deletes \/ r \in DeleteAlls BY <1>1, <2>2, AwaitedIs
  <2>4. /\ t \in Farms /\ t.printers = Restrict(farm.printers, DOMAIN farm.printers \ ps)
        /\ t.cache = farm.cache /\ t.floors = farm.floors /\ t.store = farm.store /\ t.groups = farm.groups
    BY <1>1, RemovePrintersIs
  <2>5. DOMAIN t.printers = DOMAIN farm.printers \ ps BY <2>4 DEF Restrict
  <2>6. r.op = "delete" => The(r.ps) \in r.ps
    <3>1. r.op = "delete" => r.ps \in One BY <2>3, DeletesAre, DeleteAllsAre
    <3>2. QED BY <3>1, TheIs
  <2> HIDE DEF t
  <2>7. Shrinks(farm, t) BY <2>4, <2>5, SameShrinks
  <2>8. "deleted" # Pending BY NoValues
  <2>9. QED BY <2>1, <2>4, <2>5, <2>6, <2>7, <2>8, ServePlaces
<1>8. CASE ServePull(c)
  <2> DEFINE p == The(r.ps)
             t == PullPrinter(farm, p)
  <2>1. Serve(c, "pull", t, "pulled") BY <1>8 DEF ServePull
  <2>2. r.cmd = "pull" /\ r # Idle BY <2>1, ServeSteps
  <2>3. r.op = "delete" BY <1>1, <2>2, AwaitedIs, DeletePullsAre
  <2>4. p \notin DOMAIN farm.printers BY <1>2, <2>2, <2>3 DEF Good, Gone
  <2>5. Shrinks(farm, t) /\ t.store = farm.store BY <1>1, <2>4, PullShrinks
  <2> HIDE DEF t
  <2>6. "pulled" # Pending BY NoValues
  <2>7. QED BY <2>1, <2>2, <2>5, <2>6, ServePlaces
<1>9. QED BY <1>3, <1>4, <1>5, <1>6, <1>7, <1>8

\* The commands on floors, but the one that other requests notice.
LEMMA ServeFloorsPlaces ==
  ASSUME MongoTypes, MongoCaches, MongoPlaces, mode.db = "mongo", NEW c \in Slots,
         \/ ServeFindFloor(c) \/ ServeListFloors(c) \/ ServeInsertFloor(c)
         \/ ServeDeleteFloor(c) \/ ServeSaveFloor(c)
  PROVE  MongoPlaces' /\ NoLoss(farm, farm')
<1> DEFINE r == req[c]
<1>1. farm \in Farms /\ Legal(r) BY DEF MongoTypes
<1>2. r # Idle => Good(farm, r) BY DEF MongoPlaces
<1>3. Shrinks(farm, farm) BY SameShrinks
<1>4. CASE ServeFindFloor(c)
  <2> DEFINE ans == FindFloor(farm, r.f)
  <2>1. Serve(c, "findFloor", farm, ans) /\ ans = FindFloor(farm, req[c].f)
    BY <1>4 DEF ServeFindFloor
  <2>2. ans # Pending
    <3>1. ans \in Floor \cup {None} BY <1>1, FindIs
    <3>2. QED BY <3>1, NoValues
  <2> HIDE DEF ans
  <2>3. QED BY <1>3, <2>1, <2>2, ServePlaces
<1>5. CASE ServeListFloors(c)
  <2> DEFINE ans == farm.floors
  <2>1. Serve(c, "listFloors", farm, ans) BY <1>5 DEF ServeListFloors
  <2>2. ans # Pending
    <3>1. farm.floors \in Table(FloorIds, Floor) BY <1>1, FarmTables DEF FloorRows
    <3>2. DOMAIN farm.floors \in SUBSET FloorIds /\ farm.floors \in [DOMAIN farm.floors -> Floor]
      BY <3>1, TableIs
    <3>3. QED BY <3>2, NoValues
  <2> HIDE DEF ans
  <2>3. QED BY <1>3, <2>1, <2>2, ServePlaces
<1>6. CASE ServeDeleteFloor(c)
  <2> DEFINE t == DeleteFloor(farm, r.f)
  <2>1. Serve(c, "deleteFloor", t, "deleted") BY <1>6 DEF ServeDeleteFloor
  <2>2. /\ t.floors = Restrict(farm.floors, DOMAIN farm.floors \ {r.f})
        /\ t.printers = farm.printers /\ t.store = farm.store
    BY <1>1, DeleteFloorIs
  <2> HIDE DEF t
  <2>3. Shrinks(farm, t) BY <2>2 DEF Shrinks, Restrict
  <2>4. "deleted" # Pending BY NoValues
  <2>5. QED BY <2>1, <2>2, <2>3, <2>4, ServePlaces
<1>7. CASE ServeSaveFloor(c)
  <2> DEFINE f == r.f
             doc == r.arg.doc
             refused == f \notin DOMAIN farm.floors \/ LevelRefused(farm, f, doc.level)
             t == IF refused THEN farm ELSE SaveFloor(farm, f, doc)
             ans == IF refused THEN None ELSE "saved"
  <2>1. Serve(c, "saveFloor", t, ans) BY <1>7 DEF ServeSaveFloor
  <2>2. r.cmd = "saveFloor" /\ r # Idle BY <2>1, ServeSteps
  <2>3. doc \in Floor BY <1>1, <2>2, AwaitedIs, TitleSavesAre
  <2>4. ans # Pending BY NoValues
  <2>5. Shrinks(farm, t) /\ t.store = farm.store
    <3>1. CASE refused BY <1>3, <3>1
    <3>2. CASE ~refused
      <4>1. f \in DOMAIN farm.floors /\ t = SaveFloor(farm, f, doc) BY <3>2
      <4> HIDE DEF t, f, doc
      <4>2. /\ DOMAIN t.floors = DOMAIN farm.floors
            /\ t.floors[f].printers = farm.floors[f].printers
            /\ \A g \in DOMAIN farm.floors : g # f => t.floors[g] = farm.floors[g]
            /\ t.printers = farm.printers /\ t.store = farm.store
        BY <1>1, <2>3, <4>1, SaveFloorIs
      <4>3. QED BY <4>2 DEF Shrinks
    <3>3. QED BY <3>1, <3>2
  <2> HIDE DEF t, ans
  <2>6. QED BY <2>1, <2>4, <2>5, ServePlaces
<1>8. CASE ServeInsertFloor(c)
  <2> DEFINE floor == r.arg
             level == floor.level
             f == r.f
             t == InsertFloor(farm, f, floor.name, level, floor.printers)
             ans == IF LevelTaken(farm, level) THEN None ELSE floor
             r2 == AnsweredBy(r, ans)
  <2>1. Serve(c, "insertFloor", t, ans) BY <1>8 DEF ServeInsertFloor
  <2>2. /\ r.cmd = "insertFloor" /\ r.ans = Pending /\ r # Idle /\ Stepped(c, t, r2)
        /\ farm' = t /\ \A d \in Slots : d # c => req'[d] = req[d]
    BY <2>1, ServeSteps
  <2>3. r \in DeleteInserts \/ r \in ListInserts \/ r \in FloorInserts
    BY <1>1, <2>2, AwaitedIs
  <2>4. floor \in Floor /\ f \in FloorIds
    BY <2>3, DeleteInsertsAre, ListInsertsAre, FloorInsertsAre
  <2>5. ans # Pending BY <2>4, NoValues
  <2>6. /\ t.floors = IF LevelTaken(farm, level) THEN farm.floors ELSE Put(farm.floors, f, floor)
        /\ t.printers = farm.printers /\ t.store = farm.store
    BY <1>1, <2>4, InsertFloorIs
  <2>7. CASE LevelTaken(farm, level)
    <3>1. t.floors = farm.floors BY <2>6, <2>7
    <3> HIDE DEF t, ans
    <3>2. Shrinks(farm, t) BY <2>6, <3>1, SameShrinks
    <3>3. QED BY <2>1, <2>5, <2>6, <3>2, ServePlaces
  <2>8. CASE ~LevelTaken(farm, level)
    <3>1. t.floors = Put(farm.floors, f, floor) BY <2>6, <2>8
    <3> HIDE DEF t, ans
    <3>2. Inserts(c) BY <2>2 DEF Inserts
    <3>3. f \notin DOMAIN farm.floors BY <1>2, <2>2 DEF Good, IdUnused
    <3>4. (~disturbed => f \notin DOMAIN farm.store) /\ \A d \in Slots : d # c => req[d].f # f
      BY <3>2, InsertsAre
    <3>5. DOMAIN t.printers \subseteq DOMAIN farm.printers BY <2>6
    <3>6. r.cmd # "findFloor" /\ r.cmd # "deletePrinters" BY <2>2
    <3>7. Good(t, r2) /\ r2.op = r.op /\ r2.cmd = r.cmd /\ r2.f = r.f
      BY <1>1, <1>2, <2>2, <2>5, <3>5, <3>6, GoodAnswered
    <3> HIDE DEF r2
    <3>8. ASSUME NEW d \in Slots, d # c, req[d] # Idle PROVE Good(t, req[d])
      <4>1. Good(farm, req[d]) /\ req[d].f # f BY <3>4, <3>8 DEF MongoPlaces
      <4>2. t.printers = farm.printers /\ t.floors = Put(farm.floors, f, floor)
        BY <2>6, <3>1
      <4> HIDE DEF f, floor
      <4>3. QED BY <4>1, <4>2, GoodInserted
    <3>9. MongoPlaces' BY <2>2, <2>4, <2>6, <3>4, <3>7, <3>8, PlacesStep
    <3>10. \A g \in DOMAIN farm.floors : t.floors[g] = farm.floors[g] BY <3>1, <3>3 DEF Put
    <3>11. QED BY <2>2, <3>9, <3>10, SameNoLoss
  <2>9. QED BY <2>7, <2>8
<1>9. QED BY <1>4, <1>5, <1>6, <1>7, <1>8

\* Who makes room for a placement lost the cell to it, or is the printer itself.
LEMMA PlacedLeaves ==
  ASSUME NEW places, NEW p, NEW cell, NEW new \in Placed(places, p, cell), NEW pos \in places, pos \notin new
  PROVE  \E q \in new : q.cell = pos.cell \/ q.printer = pos.printer
<1> DEFINE kept == {x \in places : x.cell # cell}
           own  == {x \in kept : x.printer = p}
           at   == [printer |-> p, cell |-> cell]
<1>1. at.printer = p /\ at.cell = cell OBVIOUS
<1>2. CASE own = {}
  <2>1. new = kept \cup {at} BY <1>2 DEF Placed
  <2>2. pos.cell = cell BY <2>1
  <2>3. QED BY <1>1, <2>1, <2>2
<1>3. CASE own # {}
  <2>1. PICK old \in own : new = (kept \ {old}) \cup {at} BY <1>3 DEF Placed
  <2>2. pos.cell = cell \/ pos = old BY <2>1
  <2>3. QED BY <1>1, <2>1, <2>2
<1>4. QED BY <1>2, <1>3

\* The places of one floor are saved.
LEMMA SavedNoLoss ==
  ASSUME NEW s, NEW f, NEW t, SavedPlaces(s, f, t),
         f \in DOMAIN s.floors /\ Left(s, t, f) # {} =>
           /\ Cardinality(Left(s, t, f)) = 1
           /\ \A pos \in t.floors[f].printers \ s.floors[f].printers : pos.printer \notin DOMAIN t.printers
  PROVE  NoLoss(s, t)
<1>1. \A g \in DOMAIN s.floors : g # f => Left(s, t, g) = {} BY DEF SavedPlaces, Left
<1>2. QED BY <1>1 DEF SavedPlaces, NoLoss

\* What one request saves of what it read, if nobody else changed the places since.
LEMMA ReadNoLoss ==
  ASSUME NEW s, NEW r, Good(s, r), r \in PlaceSaves \/ r \in RemoveSaves,
         ~r.stale, r.ans = Pending, NEW f, f = r.f, f \in DOMAIN s.floors,
         NEW t, SavedPlaces(s, f, t), t.floors[f].printers = r.arg.doc.printers
  PROVE  NoLoss(s, t)
<1> DEFINE old == s.floors[f].printers
           read == r.arg.read.printers
           new == r.arg.doc.printers
           p == The(r.ps)
<1>1. r.op \in {"place", "remove"} /\ r.cmd = "savePlaces" BY Kinds
<1>2. Holds(r) /\ Read(r) = r.arg.read BY <1>1 DEF Holds, Read
<1>3. old \subseteq read /\ \A pos \in read \ old : pos.printer \notin DOMAIN t.printers
  BY <1>2 DEF Good, ReadStill, SavedPlaces
<1>4. f \in DOMAIN t.floors /\ t.floors[f].printers = new BY DEF SavedPlaces
<1>5. CASE r \in PlaceSaves
  <2>1. new \in Placed(read, p, r.arg.cell) BY <1>5 DEF Good, Saving
  <2> DEFINE cell == r.arg.cell
  <2> HIDE DEF read, new, p, cell
  <2>2. ASSUME NEW pos \in old, pos \notin new
        PROVE  \E q \in new : q.cell = pos.cell \/ q.printer = pos.printer
    <3>1. new \in Placed(read, p, cell) /\ pos \in read BY <1>3, <2>1, <2>2 DEF cell
    <3>2. QED BY <2>2, <3>1, PlacedLeaves
  <2>3. Left(s, t, f) = {} BY <1>4, <2>2 DEF Left
  <2>4. QED BY <2>3, SavedNoLoss
<1>6. CASE r \in RemoveSaves
  <2>1. PICK pos \in read : new = read \ {pos} BY <1>6 DEF Good, Saving, Removed
  <2> HIDE DEF read, new
  <2>2. Left(s, t, f) \subseteq {pos} BY <1>3, <1>4, <2>1 DEF Left
  <2>3. Left(s, t, f) # {} => Left(s, t, f) = {pos} BY <2>2
  <2>4. Cardinality({pos}) = 1 BY FS_Singleton
  <2>5. \A q \in t.floors[f].printers \ old : q.printer \notin DOMAIN t.printers
    BY <1>3, <1>4, <2>1
  <2>6. QED BY <2>3, <2>4, <2>5, SavedNoLoss
<1>7. QED BY <1>5, <1>6

\* The save of places: the version is what keeps the others from losing theirs.
LEMMA ServeSavePlacesPlaces ==
  ASSUME MongoTypes, MongoCaches, MongoPlaces, mode.db = "mongo", NEW c \in Slots, ServeSavePlaces(c)
  PROVE  MongoPlaces' /\ NoLoss(farm, farm')
<1> DEFINE r == req[c]
           f == r.f
<1>1. farm \in Farms /\ Legal(r) BY DEF MongoTypes
<1>2. r.cmd = "savePlaces" /\ r.ans = Pending /\ r # Idle BY ServeSavePlacesIs, IdleIs
<1>3. r \in PlaceSaves \/ r \in RemoveSaves BY <1>1, <1>2, AwaitedIs
<1>4. f \in FloorIds /\ r.arg.doc.printers \in SUBSET Position
  BY <1>3, PlaceSavesAre, RemoveSavesAre DEF Floor
<1>5. Good(farm, r) /\ \A d \in Slots : req[d] # Idle => Good(farm, req[d])
  BY <1>2 DEF MongoPlaces
<1>6. ASSUME f \in DOMAIN farm.floors, NEW places \in SUBSET Position, Saves(c, f, places),
             NEW t, t = SavePlaces(farm, f, places)
      PROVE  /\ MongoPlaces' /\ farm' = t
             /\ SavedPlaces(farm, f, t) /\ t.floors[f].printers = places
  <2> DEFINE r2 == AnsweredBy(r, "saved")
  <2>1. Stepped(c, t, r2) /\ farm' = t BY <1>4, <1>6, SavesSteps DEF Saves
  <2>2. /\ DOMAIN t.floors = DOMAIN farm.floors
        /\ t.floors[f].printers = places
        /\ \A g \in DOMAIN farm.floors : g # f => t.floors[g] = farm.floors[g]
        /\ t.printers = farm.printers
    BY <1>1, <1>6, SavePlacesIs
  <2>3. SavedPlaces(farm, f, t) BY <2>2 DEF SavedPlaces
  <2>4. "saved" # Pending /\ DOMAIN t.printers \subseteq DOMAIN farm.printers
    BY <2>2, NoValues
  <2>5. Good(t, r2) /\ r2.op = r.op /\ r2.cmd = r.cmd /\ r2.f = r.f
    BY <1>1, <1>2, <1>5, <2>4, GoodAnswered
  <2> HIDE DEF r2
  <2>6. ASSUME NEW d \in Slots, d # c, req[d] # Idle
        PROVE  /\ req'[d].op = req[d].op /\ req'[d].cmd = req[d].cmd /\ req'[d].f = req[d].f
               /\ Good(t, req'[d])
    <3> DEFINE q == req[d]
    <3>1. Good(farm, q) /\ Legal(q) BY <1>5, <2>6 DEF MongoTypes
    <3>2. CASE q.f = f /\ (q.cmd = "findFloor" => q.ans # Pending)
      <4>1. req'[d] = Marked(q) BY <1>6, <2>6, <3>2 DEF Saves
      <4>2. Good(t, Marked(q)) BY <2>3, <2>6, <3>1, GoodMarked
      <4>3. Marked(q).op = q.op /\ Marked(q).cmd = q.cmd /\ Marked(q).f = q.f
        BY <2>6, <3>1, MarkedLegal
      <4>4. QED BY <4>1, <4>2, <4>3
    <3>3. CASE ~(q.f = f /\ (q.cmd = "findFloor" => q.ans # Pending))
      <4>1. req'[d] = q BY <1>6, <2>6, <3>3 DEF Saves
      <4>2. q.f # f \/ ~Holds(q) BY <3>3 DEF Holds, Changed
      <4>3. Good(t, q) BY <2>3, <3>1, <4>2, GoodElsewhere
      <4>4. QED BY <4>1, <4>3
    <3>4. QED BY <3>2, <3>3
  <2>7. MongoPlaces' BY <1>2, <2>1, <2>5, <2>6, PlacesStep
  <2>8. QED BY <2>1, <2>2, <2>3, <2>7
<1>7. CASE f \in DOMAIN farm.floors /\ ~r.stale /\ Saves(c, f, r.arg.doc.printers)
  <2> DEFINE places == r.arg.doc.printers
             t == SavePlaces(farm, f, places)
  <2>1. MongoPlaces' /\ farm' = t /\ SavedPlaces(farm, f, t) /\ t.floors[f].printers = places
    BY <1>4, <1>6, <1>7
  <2> HIDE DEF t
  <2>2. NoLoss(farm, t) BY <1>2, <1>3, <1>5, <1>7, <2>1, ReadNoLoss
  <2>3. QED BY <2>1, <2>2
<1>8. CASE (f \notin DOMAIN farm.floors \/ r.stale) /\ Serve(c, "savePlaces", farm, None)
  <2>1. Shrinks(farm, farm) BY SameShrinks
  <2>2. None # Pending BY NoValues
  <2>3. QED BY <1>8, <2>1, <2>2, ServePlaces
<1>9. CASE /\ f \in DOMAIN farm.floors /\ r.stale
           /\ Saves(c, f, farm.floors[f].printers \cup (r.arg.doc.printers \ r.arg.read.printers))
  <2> DEFINE places == farm.floors[f].printers \cup (r.arg.doc.printers \ r.arg.read.printers)
             t == SavePlaces(farm, f, places)
  <2>1. farm.floors[f] \in Floor BY <1>1, <1>9, FarmTables
  <2>2. places \in SUBSET Position BY <1>4, <2>1 DEF Floor
  <2>3. MongoPlaces' /\ farm' = t /\ SavedPlaces(farm, f, t) /\ t.floors[f].printers = places
    BY <1>6, <1>9, <2>2
  <2> HIDE DEF t
  <2>4. Left(farm, t, f) = {} BY <2>3 DEF Left
  <2>5. NoLoss(farm, t) BY <2>3, <2>4, SavedNoLoss
  <2>6. QED BY <2>3, <2>5
<1>10. QED BY <1>7, <1>8, <1>9, ServeSavePlacesIs

\* Requests that rely at most on a printer being gone.
LEMMA GoodOther ==
  ASSUME NEW s, NEW r, r.op \notin {"place", "remove"}, r.cmd # "insertFloor",
         r.op = "delete" /\ r.cmd \in {"pull", "deletePrinters"} => The(r.ps) \notin DOMAIN s.printers
  PROVE  Good(s, r)
BY Kinds DEF Good, IdUnused, Gone, ReadStill, Holds, Saving

LEMMA NextGood ==
  ASSUME NEW s, NEW r, Legal(r), r.op \notin {"place", "remove"}, NEW cmd, cmd # "insertFloor",
         r.op = "delete" /\ cmd \in {"pull", "deletePrinters"} => The(r.ps) \notin DOMAIN s.printers,
         NEW arg, NEW r2, r2 = NextOf(r, cmd, arg)
  PROVE  Good(s, r2)
<1>1. r2.op = r.op /\ r2.cmd = cmd /\ r2.ps = r.ps BY LegalShape, NextShape
<1>2. QED BY <1>1, GoodOther

\* A default floor's id is new.
LEMMA DefaultGood ==
  ASSUME NEW s, NEW r, Legal(r), r.op \in {"delete", "list"}, NEW f, f \notin DOMAIN s.floors,
         NEW arg, NEW r2, r2 = DefaultOf(r, f, arg)
  PROVE  Good(s, r2) /\ r2.op = r.op /\ r2.cmd = "insertFloor" /\ r2.f = f
<1>1. r2.op = r.op /\ r2.cmd = "insertFloor" /\ r2.f = f BY LegalShape DEF Shaped, DefaultOf
<1>2. QED BY <1>1, Kinds DEF Good, IdUnused, Gone, ReadStill, Holds, Saving

\* The places to be saved are made of the ones that were read.
LEMMA SavePlacesGood ==
  ASSUME NEW s \in Farms, NEW r, r \in PlaceFinds \/ r \in RemoveFinds, Good(s, r), r.ans # Pending, r.ans # None,
         NEW places \in SUBSET Position,
         r \in PlaceFinds => places \in Placed(r.ans.printers, The(r.ps), r.arg.cell),
         r \in RemoveFinds => places \in Removed(r.ans.printers, The(r.ps)),
         NEW arg, arg = ToSave(r, places), NEW r2, r2 = NextOf(r, "savePlaces", arg)
  PROVE  Good(s, r2)
<1>1. /\ Fine(s, r, s, r2)
      /\ r \in PlaceFinds => r2 \in PlaceSaves
      /\ r \in RemoveFinds => r2 \in RemoveSaves
      /\ r2.ans = Pending /\ r2.f = r.f /\ r2.ps = r.ps /\ r2.stale = r.stale
      /\ r2.arg.read = r.ans /\ r2.arg.cell = r.arg.cell /\ r2.arg.doc.printers = places
  BY SavePlacesNextFine
<1>2. r.cmd = "findFloor" /\ r.op \in {"place", "remove"} /\ r2.cmd = "savePlaces" /\ r2.op = r.op
  BY <1>1, Kinds
<1>3. IdUnused(s, r2) /\ Gone(s, r2) BY <1>2 DEF IdUnused, Gone
<1>4. ReadStill(s, r2)
  <2>1. Holds(r2) => Holds(r) /\ Read(r) = r.ans /\ Read(r2) = r.ans
    BY <1>1, <1>2 DEF Holds, Read, Changed
  <2>2. QED BY <1>1, <2>1 DEF Good, ReadStill
<1>5. Saving(r2)
  <2>1. r2 \in PlaceSaves => r \in PlaceFinds BY <1>2, Kinds
  <2>2. r2 \in RemoveSaves => r \in RemoveFinds BY <1>2, Kinds
  <2>3. QED BY <1>1, <2>1, <2>2 DEF Saving
<1>6. QED BY <1>3, <1>4, <1>5 DEF Good

\* The answers about printers.
LEMMA ResumePrintersPlaces ==
  ASSUME MongoTypes, MongoCaches, MongoPlaces, mode.db = "mongo", NEW c \in Slots,
         ResumeCreate(c) \/ ResumeUpdate(c) \/ ResumePatch(c) \/ ResumeDelete(c) \/ ResumeDeleteAll(c)
  PROVE  MongoPlaces' /\ NoLoss(farm, farm')
<1> DEFINE r == req[c]
<1>1. farm \in Farms /\ Legal(r) /\ Shrinks(farm, farm) BY SameShrinks DEF MongoTypes
<1>2. r # Idle => Good(farm, r) BY DEF MongoPlaces
<1>3. ASSUME Finish(c, farm), r.op # "idle" PROVE MongoPlaces' /\ NoLoss(farm, farm')
  BY <1>1, <1>3, IdleIs, FinishPlaces
<1>4. ASSUME NEW t, t.printers = farm.printers, t.floors = farm.floors, Finish(c, t), r.op # "idle"
      PROVE  MongoPlaces' /\ NoLoss(farm, farm')
  <2>1. Shrinks(farm, t) BY <1>4, SameShrinks
  <2>2. QED BY <1>4, <2>1, IdleIs, FinishPlaces
<1>5. ASSUME NEW cmd, NEW arg, Await(c, farm, cmd, arg), r.op \notin {"idle", "delete", "place", "remove"}, cmd # "insertFloor"
      PROVE  MongoPlaces' /\ NoLoss(farm, farm')
  <2>1. Good(farm, NextOf(r, cmd, arg)) BY <1>1, <1>5, NextGood
  <2>2. QED BY <1>1, <1>5, <2>1, IdleIs, AwaitPlaces
<1>6. CASE ResumeCreate(c)
  <2>1. r.op = "create" /\ r.cmd = "insertPrinter" /\ r.ans # Pending
    BY <1>6, AnsweredLegal DEF ResumeCreate
  <2>2. r \in Creates BY <1>1, <2>1, LegalIs
  <2> DEFINE left == r.arg.todo \ {r.ans}
             arg == [r.arg EXCEPT !.todo = left]
             ps == r.ps
             conn == r.arg.conn
             made == [p \in ps |-> NewPrinter(conn)]
             t == HandleBatchPrinterCreated(farm, made)
  <2>3. CASE left # {}
    <3>1. Await(c, farm, "insertPrinter", arg) BY <1>6, <2>3 DEF ResumeCreate
    <3> HIDE DEF arg
    <3>2. QED BY <1>5, <2>1, <3>1
  <2>4. CASE left = {}
    <3>1. Finish(c, t) BY <1>6, <2>4 DEF ResumeCreate
    <3>2. ps \in SUBSET PrinterIds /\ conn \in Conns BY <2>2, CreatesAre
    <3> HIDE DEF ps, conn
    <3>3. /\ t \in Farms /\ t.cache = Overlaid(made, farm.cache)
          /\ t.printers = farm.printers /\ t.floors = farm.floors /\ t.store = farm.store /\ t.groups = farm.groups
      BY <1>1, <3>2, CreatedIs
    <3> HIDE DEF t
    <3>4. QED BY <1>4, <2>1, <3>1, <3>3
  <2>5. QED BY <2>3, <2>4
<1>7. CASE ResumeUpdate(c)
  <2>1. CASE Answered(c, "update", "findPrinter")
    <3>1. r.op = "update" /\ r.cmd = "findPrinter" BY <2>1, AnsweredLegal
    <3> DEFINE arg == [r.arg EXCEPT !.read = r.ans, !.doc = Assign(r.arg.body, r.ans)]
    <3>2. Finish(c, farm) \/ Await(c, farm, "savePrinter", arg)
      BY <1>7, <3>1 DEF ResumeUpdate, Answered
    <3> HIDE DEF arg
    <3>3. QED BY <1>3, <1>5, <3>1, <3>2
  <2>2. CASE Answered(c, "update", "savePrinter")
    <3>1. r.op = "update" /\ r.cmd = "savePrinter" /\ r.ans # Pending BY <2>2, AnsweredLegal
    <3>2. r \in UpdateSaves BY <1>1, <3>1, LegalIs
    <3> DEFINE p == The(r.ps)
               doc == r.arg.doc
               t == HandlePrinterCreatedOrUpdated(farm, p, doc)
    <3>3. Finish(c, IF r.ans = None THEN farm ELSE t)
      BY <1>7, <3>1 DEF ResumeUpdate, Answered
    <3>4. p \in PrinterIds /\ doc \in Printer BY <3>2, UpdateSavesAre, TheIs
    <3> HIDE DEF p, doc
    <3>5. /\ t \in Farms /\ t.cache = Put(farm.cache, p, doc)
          /\ t.printers = farm.printers /\ t.floors = farm.floors /\ t.store = farm.store /\ t.groups = farm.groups
      BY <1>1, <3>4, ToldIs
    <3> HIDE DEF t
    <3>6. QED BY <1>3, <1>4, <3>1, <3>3, <3>5
  <2>3. QED BY <1>7, <2>1, <2>2 DEF ResumeUpdate
<1>8. CASE ResumePatch(c)
  <2>1. CASE Answered(c, "patch", "findPrinter")
    <3>1. r.op = "patch" /\ r.cmd = "findPrinter" BY <2>1, AnsweredLegal
    <3> DEFINE arg == r.arg
    <3>2. Finish(c, farm) \/ Await(c, farm, "patchPrinter", arg)
      BY <1>8, <3>1 DEF ResumePatch, Answered
    <3> HIDE DEF arg
    <3>3. QED BY <1>3, <1>5, <3>1, <3>2
  <2>2. CASE Answered(c, "patch", "patchPrinter")
    <3>1. r.op = "patch" /\ r.cmd = "patchPrinter" /\ r.ans # Pending BY <2>2, AnsweredLegal
    <3>2. r \in PatchSaves BY <1>1, <3>1, LegalIs
    <3> DEFINE p == The(r.ps)
               doc == r.ans
               t == HandlePrinterCreatedOrUpdated(farm, p, doc)
    <3>3. Finish(c, t) BY <1>8, <3>1 DEF ResumePatch, Answered
    <3>4. p \in PrinterIds /\ doc \in Printer \cup {None}
      BY <3>1, <3>2, PatchSavesAre, TheIs
    <3> HIDE DEF p, doc
    <3>5. t.printers = farm.printers /\ t.floors = farm.floors
      <4>1. CASE doc = None BY <4>1 DEF HandlePrinterCreatedOrUpdated
      <4>2. CASE doc # None
        <5>1. doc \in Printer BY <3>4, <4>2
        <5>2. /\ t \in Farms /\ t.cache = Put(farm.cache, p, doc)
              /\ t.printers = farm.printers /\ t.floors = farm.floors /\ t.store = farm.store /\ t.groups = farm.groups
          BY <1>1, <3>4, <5>1, ToldIs
        <5>3. QED BY <5>2
      <4>3. QED BY <4>1, <4>2
    <3> HIDE DEF t
    <3>6. QED BY <1>4, <3>1, <3>3, <3>5
  <2>3. QED BY <1>8, <2>1, <2>2 DEF ResumePatch
<1>9. ASSUME NEW ps, NEW t, t = HandlePrintersDeleted(farm, ps)
      PROVE  t.printers = farm.printers /\ t.floors = farm.floors
  <2>1. /\ t \in Farms /\ t.cache = Restrict(farm.cache, DOMAIN farm.cache \ ps)
        /\ t.printers = farm.printers /\ t.floors = farm.floors /\ t.store = farm.store /\ t.groups = farm.groups
    BY <1>1, <1>9, DeletedIs
  <2>2. QED BY <2>1
<1>10. CASE ResumeDelete(c)
  <2>1. CASE /\ Answered(c, "delete", "deletePrinters")
             /\ Await(c, HandlePrintersDeleted(farm, r.ps), "pull", None)
    <3> DEFINE ps == r.ps
               t == HandlePrintersDeleted(farm, ps)
    <3>1. r.op = "delete" /\ r.cmd = "deletePrinters" /\ r.ans # Pending /\ r # Idle
      BY <2>1, AnsweredLegal, IdleIs
    <3>2. The(ps) \notin DOMAIN farm.printers BY <1>2, <3>1 DEF Good, Gone
    <3>3. t.printers = farm.printers /\ t.floors = farm.floors BY <1>9
    <3>4. Await(c, t, "pull", None) BY <2>1
    <3> HIDE DEF t
    <3>5. Shrinks(farm, t) BY <3>3, SameShrinks
    <3>6. Good(t, NextOf(r, "pull", None)) BY <1>1, <3>1, <3>2, <3>3, NextGood
    <3>7. QED BY <3>1, <3>4, <3>5, <3>6, AwaitPlaces
  <2>2. CASE Answered(c, "delete", "pull") /\ Await(c, farm, "listFloors", None)
    <3>1. r.op = "delete" /\ r # Idle BY <2>2, AnsweredLegal, IdleIs
    <3>2. Good(farm, NextOf(r, "listFloors", None)) BY <1>1, <3>1, NextGood
    <3>3. QED BY <1>1, <2>2, <3>1, <3>2, AwaitPlaces
  <2>3. QED BY <1>10, <2>1, <2>2 DEF ResumeDelete
<1>11. CASE ResumeDeleteAll(c)
  <2> DEFINE ps == r.ps
             t == HandlePrintersDeleted(farm, ps)
  <2>1. r.op = "deleteAll" BY <1>11, AnsweredLegal DEF ResumeDeleteAll
  <2>2. Finish(c, t) BY <1>11 DEF ResumeDeleteAll
  <2>3. t.printers = farm.printers /\ t.floors = farm.floors BY <1>9
  <2> HIDE DEF t
  <2>4. QED BY <1>4, <2>1, <2>2, <2>3
<1>12. QED BY <1>6, <1>7, <1>8, <1>10, <1>11

\* The answers about floors that are read, inserted and deleted.
LEMMA ResumeNewFloorsPlaces ==
  ASSUME MongoTypes, MongoCaches, MongoPlaces, mode.db = "mongo", NEW c \in Slots,
         ResumeLoadStore(c) \/ ResumeInsertFloor(c) \/ ResumeDeleteFloor(c)
  PROVE  MongoPlaces' /\ NoLoss(farm, farm')
<1> DEFINE r == req[c]
<1>1. farm \in Farms /\ Legal(r) /\ Shrinks(farm, farm) /\ req = [d \in Slots |-> req[d]]
  BY SameShrinks DEF MongoTypes
<1>2. ASSUME NEW t, t.printers = farm.printers, t.floors = farm.floors, Finish(c, t), r.op # "idle"
      PROVE  MongoPlaces' /\ NoLoss(farm, farm')
  <2>1. Shrinks(farm, t) BY <1>2, SameShrinks
  <2>2. QED BY <1>2, <2>1, IdleIs, FinishPlaces
<1>3. CASE ResumeLoadStore(c)
  <2>1. r.op \in {"delete", "list"} /\ r.cmd = "listFloors" /\ r.ans # Pending
    BY <1>3, AnsweredLegal DEF ResumeLoadStore
  <2>2. r \in DeleteLists \/ r \in Lists BY <1>1, <2>1, LegalIs
  <2>3. CASE r.ans # <<>>
    <3> DEFINE floors == r.ans
               t == StoreFloors(farm, floors)
    <3>1. Finish(c, t) BY <1>3, <2>3 DEF ResumeLoadStore
    <3>2. floors \in FloorRows BY <2>1, <2>2, DeleteListsAre, ListsAre
    <3> HIDE DEF floors
    <3>3. /\ t \in Farms
          /\ DOMAIN farm.store = DOMAIN floors => t.store = floors
          /\ t.printers = farm.printers /\ t.cache = farm.cache /\ t.floors = farm.floors /\ t.groups = farm.groups
      BY <1>1, <3>2, AllStoredIs
    <3> HIDE DEF t
    <3>4. QED BY <1>2, <2>1, <3>1, <3>3
  <2>4. CASE r.ans = <<>>
    <3> DEFINE arg == NewFloor(DefaultName, DefaultLevel, {})
    <3>1. PICK f \in FloorIds :
            /\ FreshFloor(f)
            /\ farm' = farm
            /\ req' = [req EXCEPT ![c].cmd = "insertFloor", ![c].f = f,
                 ![c].arg = arg, ![c].ans = Pending]
            /\ UNCHANGED <<mode, disturbed, placed>>
      BY <1>3, <2>4 DEF ResumeLoadStore
    <3> HIDE DEF arg
    <3> DEFINE r2 == DefaultOf(r, f, arg)
    <3>2. Becomes(c, r2) BY <1>1, <3>1 DEF Becomes, DefaultOf
    <3>3. Stepped(c, farm, r2) /\ \A d \in Slots : d # c => req'[d] = req[d]
      BY <3>1, <3>2, OnlyOne
    <3>4. f \notin DOMAIN farm.floors /\ f \notin DOMAIN farm.store /\ \A d \in Slots : req[d].f # f
      BY <3>1 DEF FreshFloor
    <3>5. Good(farm, r2) /\ r2.op = r.op /\ r2.cmd = "insertFloor" /\ r2.f = f
      <4>1. r2 = DefaultOf(r, f, arg) OBVIOUS
      <4>2. Legal(r) /\ r.op \in {"delete", "list"} /\ f \notin DOMAIN farm.floors
        BY <1>1, <2>1, <3>4
      <4> HIDE DEF r2, r
      <4>3. QED BY <4>1, <4>2, DefaultGood
    <3> HIDE DEF r2
    <3>6. \A d \in Slots : d # c /\ req[d] # Idle => Good(farm, req'[d])
      BY <3>3 DEF MongoPlaces
    <3>7. r # Idle BY <2>1, IdleIs
    <3>8. MongoPlaces' BY <3>3, <3>4, <3>5, <3>6, <3>7, PlacesStep
    <3>9. NoLoss(farm, farm) BY SameNoLoss
    <3>10. QED BY <3>1, <3>8, <3>9
  <2>5. QED BY <2>3, <2>4
<1>4. CASE ResumeInsertFloor(c)
  <2>1. r.op \in {"createFloor", "delete", "list"} /\ r.cmd = "insertFloor" /\ r.ans # Pending
    BY <1>4, AnsweredLegal DEF ResumeInsertFloor
  <2>2. r \in DeleteInserts \/ r \in ListInserts \/ r \in FloorInserts
    BY <1>1, <2>1, LegalIs
  <2> DEFINE f == r.f
             floor == r.ans
             t == IF floor = None THEN farm ELSE StoreFloor(farm, f, floor)
  <2>3. Finish(c, t) BY <1>4 DEF ResumeInsertFloor
  <2>4. f \in FloorIds /\ floor \in Floor \cup {None}
    BY <2>1, <2>2, DeleteInsertsAre, ListInsertsAre, FloorInsertsAre
  <2> HIDE DEF f, floor
  <2>5. t.printers = farm.printers /\ t.floors = farm.floors
    <3>1. CASE floor = None BY <3>1
    <3>2. CASE floor # None
      <4> DEFINE s == StoreFloor(farm, f, floor)
      <4>1. floor \in Floor BY <2>4, <3>2
      <4>2. /\ s \in Farms /\ s.store = Put(farm.store, f, floor)
            /\ s.printers = farm.printers /\ s.cache = farm.cache /\ s.floors = farm.floors /\ s.groups = farm.groups
        BY <1>1, <2>4, <4>1, StoredIs
      <4>3. QED BY <3>2, <4>2
    <3>3. QED BY <3>1, <3>2
  <2> HIDE DEF t
  <2>6. QED BY <1>2, <2>1, <2>3, <2>5
<1>5. CASE ResumeDeleteFloor(c)
  <2>1. CASE Answered(c, "deleteFloor", "findFloor")
    <3>1. r.op = "deleteFloor" /\ r.cmd = "findFloor" /\ r # Idle
      BY <2>1, AnsweredLegal, IdleIs
    <3>2. CASE Finish(c, farm) BY <1>2, <3>1, <3>2
    <3>3. CASE Await(c, farm, "deleteFloor", None)
      <4>1. Good(farm, NextOf(r, "deleteFloor", None)) BY <1>1, <3>1, NextGood
      <4>2. QED BY <1>1, <3>1, <3>3, <4>1, AwaitPlaces
    <3>4. QED BY <1>5, <3>1, <3>2, <3>3 DEF ResumeDeleteFloor, Answered
  <2>2. CASE Answered(c, "deleteFloor", "deleteFloor")
    <3>1. r.op = "deleteFloor" /\ r.cmd = "deleteFloor" BY <2>2, AnsweredLegal
    <3> DEFINE f == r.f
               t == DropFloor(farm, f)
    <3>2. Finish(c, t) BY <1>5, <3>1 DEF ResumeDeleteFloor, Answered
    <3> HIDE DEF f
    <3>3. /\ t \in Farms /\ t.store = Restrict(farm.store, DOMAIN farm.store \ {f})
          /\ t.printers = farm.printers /\ t.cache = farm.cache /\ t.floors = farm.floors /\ t.groups = farm.groups
      BY <1>1, DropFloorIs
    <3> HIDE DEF t
    <3>4. QED BY <1>2, <3>1, <3>2, <3>3
  <2>3. QED BY <1>5, <2>1, <2>2 DEF ResumeDeleteFloor
<1>6. QED BY <1>3, <1>4, <1>5

\* The answers about floors that are saved.
LEMMA ResumeFloorsPlaces ==
  ASSUME MongoTypes, MongoCaches, MongoPlaces, mode.db = "mongo", NEW c \in Slots,
         ResumeUpdateFloor(c) \/ ResumePlace(c) \/ ResumeRemove(c) \/ ResumeSavePlaces(c)
  PROVE  MongoPlaces' /\ NoLoss(farm, farm')
<1> DEFINE r == req[c]
<1>1. farm \in Farms /\ Legal(r) /\ Shrinks(farm, farm) BY SameShrinks DEF MongoTypes
<1>2. r # Idle => Good(farm, r) BY DEF MongoPlaces
<1>3. ASSUME NEW t, t.printers = farm.printers, t.floors = farm.floors, Finish(c, t), r.op # "idle"
      PROVE  MongoPlaces' /\ NoLoss(farm, farm')
  <2>1. Shrinks(farm, t) BY <1>3, SameShrinks
  <2>2. QED BY <1>3, <2>1, IdleIs, FinishPlaces
<1>4. ASSUME Finish(c, farm), r.op # "idle"
      PROVE  MongoPlaces' /\ NoLoss(farm, farm')
  BY <1>3, <1>4
<1>5. ASSUME NEW f \in FloorIds, NEW floor \in Floor, Finish(c, StoreFloor(farm, f, floor)), r.op # "idle"
      PROVE  MongoPlaces' /\ NoLoss(farm, farm')
  <2> DEFINE t == StoreFloor(farm, f, floor)
  <2>1. /\ t \in Farms /\ t.store = Put(farm.store, f, floor)
        /\ t.printers = farm.printers /\ t.cache = farm.cache /\ t.floors = farm.floors /\ t.groups = farm.groups
    BY <1>1, StoredIs
  <2>2. Finish(c, t) BY <1>5
  <2> HIDE DEF t
  <2>3. QED BY <1>3, <1>5, <2>1, <2>2
<1>6. ASSUME NEW places \in SUBSET Position, r \in PlaceFinds \/ r \in RemoveFinds, r.ans # Pending, r.ans # None,
             r \in PlaceFinds => places \in Placed(r.ans.printers, The(r.ps), r.arg.cell),
             r \in RemoveFinds => places \in Removed(r.ans.printers, The(r.ps)),
             Await(c, farm, "savePlaces", ToSave(r, places))
      PROVE  MongoPlaces' /\ NoLoss(farm, farm')
  <2> DEFINE arg == ToSave(r, places)
             r2 == NextOf(r, "savePlaces", arg)
  <2>1. r # Idle BY <1>6, Kinds, IdleIs
  <2>2. Good(farm, r) BY <1>2, <2>1
  <2>3. Good(farm, r2) BY <1>1, <1>6, <2>2, SavePlacesGood
  <2>4. Await(c, farm, "savePlaces", arg) /\ Good(farm, NextOf(req[c], "savePlaces", arg))
    BY <1>6, <2>3
  <2> HIDE DEF arg, r2
  <2>5. QED BY <1>1, <2>1, <2>4, AwaitPlaces
<1>7. CASE ResumeUpdateFloor(c)
  <2>1. CASE Answered(c, "updateFloor", "findFloor")
    <3>1. r.op = "updateFloor" /\ r.cmd = "findFloor" /\ r # Idle
      BY <2>1, AnsweredLegal, IdleIs
    <3> DEFINE arg == [r.arg EXCEPT !.doc = Assign(r.arg.update, r.ans)]
    <3>2. Finish(c, farm) \/ Await(c, farm, "saveFloor", arg)
      BY <1>7, <3>1 DEF ResumeUpdateFloor, Answered
    <3> HIDE DEF arg
    <3>3. Good(farm, NextOf(r, "saveFloor", arg)) BY <1>1, <3>1, NextGood
    <3>4. QED BY <1>1, <1>4, <3>1, <3>2, <3>3, AwaitPlaces
  <2>2. CASE Answered(c, "updateFloor", "saveFloor")
    <3>1. r.op = "updateFloor" /\ r.cmd = "saveFloor" /\ r.ans # Pending
      BY <2>2, AnsweredLegal
    <3>2. r \in TitleSaves BY <1>1, <3>1, LegalIs
    <3>3. r.f \in FloorIds /\ r.arg.doc \in Floor BY <3>2, TitleSavesAre
    <3>4. Finish(c, farm) \/ Finish(c, StoreFloor(farm, r.f, r.arg.doc))
      BY <1>7, <3>1 DEF ResumeUpdateFloor, Answered
    <3>5. QED BY <1>4, <1>5, <3>1, <3>3, <3>4
  <2>3. QED BY <1>7, <2>1, <2>2 DEF ResumeUpdateFloor
<1>8. CASE ResumePlace(c)
  <2> DEFINE p == The(r.ps)
  <2>1. r.op = "place" /\ r.cmd = "findFloor" /\ r.ans # Pending
    BY <1>8, AnsweredLegal DEF ResumePlace
  <2>2. r \in PlaceFinds BY <1>1, <2>1, LegalIs
  <2>3. r \notin RemoveFinds BY <2>1, Kinds
  <2>4. CASE r.ans = None \/ p \notin DOMAIN farm.cache
    <3>1. Finish(c, farm) BY <1>8, <2>4 DEF ResumePlace
    <3>2. QED BY <1>4, <2>1, <3>1
  <2>5. CASE ~(r.ans = None \/ p \notin DOMAIN farm.cache)
    <3>1. PICK places \in Placed(r.ans.printers, p, r.arg.cell) :
            Await(c, farm, "savePlaces", ToSave(r, places))
      BY <1>8, <2>5 DEF ResumePlace, ToSave
    <3>2. r.ans.printers \in SUBSET Position /\ p \in PrinterIds /\ r.arg.cell \in Cells
      BY <2>1, <2>2, <2>5, PlaceFindsAre, TheIs DEF Floor
    <3>3. places \in SUBSET Position BY <3>2, PlacedIs
    <3>4. QED BY <1>6, <2>1, <2>2, <2>3, <2>5, <3>1, <3>3
  <2>6. QED BY <2>4, <2>5
<1>9. CASE ResumeRemove(c)
  <2> DEFINE p == The(r.ps)
  <2>1. r.op = "remove" /\ r.cmd = "findFloor" /\ r.ans # Pending
    BY <1>9, AnsweredLegal DEF ResumeRemove
  <2>2. r \in RemoveFinds BY <1>1, <2>1, LegalIs
  <2>3. r \notin PlaceFinds BY <2>1, Kinds
  <2>4. CASE r.ans = None \/ p \notin DOMAIN farm.cache
    <3>1. Finish(c, farm) BY <1>9, <2>4 DEF ResumeRemove
    <3>2. QED BY <1>4, <2>1, <3>1
  <2>5. CASE ~(r.ans = None \/ p \notin DOMAIN farm.cache)
    <3>1. r.ans \in Floor /\ r.f \in FloorIds BY <2>1, <2>2, <2>5, RemoveFindsAre
    <3>2. CASE Removed(r.ans.printers, p) = {}
      <4>1. Finish(c, StoreFloor(farm, r.f, r.ans)) BY <1>9, <2>5, <3>2 DEF ResumeRemove
      <4>2. QED BY <1>5, <2>1, <3>1, <4>1
    <3>3. CASE Removed(r.ans.printers, p) # {}
      <4>1. PICK places \in Removed(r.ans.printers, p) :
              Await(c, farm, "savePlaces", ToSave(r, places))
        BY <1>9, <2>5, <3>3 DEF ResumeRemove, ToSave
      <4>2. r.ans.printers \in SUBSET Position BY <3>1 DEF Floor
      <4>3. places \in SUBSET Position BY <4>2, RemovedIs
      <4>4. QED BY <1>6, <2>1, <2>2, <2>3, <2>5, <4>1, <4>3
    <3>4. QED BY <3>2, <3>3
  <2>6. QED BY <2>4, <2>5
<1>10. CASE ResumeSavePlaces(c)
  <2>1. r.op \in {"place", "remove"} /\ r.cmd = "savePlaces" /\ r.ans # Pending
    BY <1>10, AnsweredLegal DEF ResumeSavePlaces
  <2>2. r \in PlaceSaves \/ r \in RemoveSaves BY <1>1, <2>1, LegalIs
  <2>3. r.f \in FloorIds /\ r.arg.doc \in Floor BY <2>2, PlaceSavesAre, RemoveSavesAre
  <2>4. Finish(c, farm) \/ Finish(c, StoreFloor(farm, r.f, r.arg.doc))
    BY <1>10 DEF ResumeSavePlaces
  <2>5. QED BY <1>4, <1>5, <2>1, <2>3, <2>4
<1>11. QED BY <1>7, <1>8, <1>9, <1>10

\* A request that arrives has read nothing.
LEMMA SentGood ==
  ASSUME NEW s, NEW r, r.ans = Pending, r.cmd \notin {"savePlaces", "pull"},
         r.cmd = "insertFloor" => r.f \notin DOMAIN s.floors
  PROVE  Good(s, r)
BY Kinds DEF Good, IdUnused, Gone, ReadStill, Holds, Changed, Saving

\* Requests arrive.
LEMMA ArrivePlaces ==
  ASSUME MongoTypes, MongoPlaces, mode.db = "mongo", NEW News \in SUBSET Slots, UNCHANGED <<mode, farm>>,
         ~disturbed, \A d \in Slots \ News : req'[d] = req[d],
         \A d \in News : Good(farm, req'[d]) /\ (\A e \in Slots : req[e] = Idle \/ req[e].op # "create"),
         \A d \in News : req'[d].op = "create" => \A e \in Slots : d # e => req'[e] = Idle,
         \A d \in News :
           \/ req'[d].cmd # "insertFloor" /\ req'[d].f \in {None} \cup DOMAIN farm.store
           \/ /\ req'[d].cmd = "insertFloor" /\ News = {d} /\ req'[d].f \notin DOMAIN farm.store
              /\ \A e \in Slots : req[e].f # req'[d].f
  PROVE  MongoPlaces' /\ NoLoss(farm, farm')
<1>1. (\A d \in Slots : req[d] # Idle => Good(farm, req[d]))' BY DEF MongoPlaces
<1>2. ASSUME NEW d \in Slots, NEW e \in Slots, d # e, req'[d].op = "create" PROVE req'[e] = Idle
  <2>1. CASE d \in News BY <1>2, <2>1
  <2>2. CASE d \notin News
    <3>1. req'[d] = req[d] /\ req[d].op = "create" /\ req[d] # Idle BY <1>2, <2>2, IdleIs
    <3>2. News = {} BY <3>1
    <3>3. req[e] = Idle BY <1>2, <3>1 DEF MongoPlaces, CreateAlone
    <3>4. QED BY <3>2, <3>3
  <2>3. QED BY <2>1, <2>2
<1>3. ASSUME NEW d \in Slots, d \notin News, Inserts(d)'
      PROVE  Inserts(d) /\ req'[d].f = req[d].f
  BY <1>3 DEF Inserts
<1>4. ASSUME NEW d \in Slots, NEW e \in Slots, d # e, Inserts(d)' PROVE req'[e].f # req'[d].f
  <2>1. CASE d \in News
    <3>1. News = {d} /\ \A x \in Slots : req[x].f # req'[d].f BY <1>4, <2>1 DEF Inserts
    <3>2. QED BY <1>4, <3>1
  <2>2. CASE d \notin News
    <3>1. Inserts(d) /\ req'[d].f = req[d].f BY <1>3, <1>4, <2>2
    <3>2. /\ req[d].f \in FloorIds /\ req[d].f \notin DOMAIN farm.store
          /\ req[e].f # req[d].f
      BY <1>4, <3>1, InsertsAre
    <3>3. CASE e \in News
      <4>1. CASE req'[e].f \in {None} \cup DOMAIN farm.store BY <3>1, <3>2, <4>1, NoValues
      <4>2. CASE \A x \in Slots : req[x].f # req'[e].f BY <3>1, <4>2
      <4>3. QED BY <3>3, <4>1, <4>2
    <3>4. QED BY <3>1, <3>2, <3>3
  <2>3. QED BY <2>1, <2>2
<1>5. ASSUME NEW d \in Slots, Inserts(d)' PROVE req'[d].f \notin DOMAIN farm.store
  <2>1. CASE d \in News BY <1>5, <2>1 DEF Inserts
  <2>2. CASE d \notin News BY <1>3, <1>5, <2>2, InsertsAre
  <2>3. QED BY <2>1, <2>2
<1>6. CreateAlone' BY <1>2 DEF CreateAlone
<1>7. OwnId' BY <1>4 DEF OwnId
<1>8. NotShown' BY <1>5 DEF NotShown
<1>9. NoLoss(farm, farm') BY SameNoLoss
<1>10. QED BY <1>1, <1>6, <1>7, <1>8, <1>9 DEF MongoPlaces

\* One request arrives.
LEMMA StartPlaces ==
  ASSUME MongoTypes, MongoPlaces, NEW c \in Slots,
         NEW op, NEW ps, NEW f, NEW arg, NEW cmd, Start(c, op, ps, f, arg, cmd),
         cmd \notin {"savePlaces", "pull"},
         \/ cmd # "insertFloor" /\ f \in {None} \cup DOMAIN farm.store
         \/ cmd = "insertFloor" /\ FreshFloor(f)
  PROVE  MongoPlaces' /\ NoLoss(farm, farm')
<1> DEFINE r2 == Sent(op, ps, f, arg, cmd)
<1>1. /\ mode.db = "mongo" /\ req[c] = Idle /\ Admitted(op, ps, f)
      /\ req'[c] = r2 /\ \A d \in Slots : d # c => req'[d] = req[d]
      /\ UNCHANGED <<mode, farm, placed>>
  BY StartIs
<1>2. r2.op = op /\ r2.f = f /\ r2.cmd = cmd /\ r2.ans = Pending BY DEF Sent
<1> HIDE DEF r2
<1>3. ~disturbed /\ \A d \in Slots : req[d] # Idle =>
        Documents(op, ps, f) \cap Documents(req[d].op, req[d].ps, req[d].f) # {}
  BY <1>1 DEF Admitted
<1>4. \A qs, g : Documents("create", qs, g) = {} BY DEF Documents
<1>5. \A d \in Slots : req[d] = Idle \/ req[d].op # "create" BY <1>3, <1>4
<1>6. op = "create" => \A d \in Slots : req[d] = Idle BY <1>3, <1>4
<1>7. cmd = "insertFloor" => /\ f \notin DOMAIN farm.floors /\ f \notin DOMAIN farm.store
                             /\ \A d \in Slots : req[d].f # f
  BY DEF FreshFloor
<1>8. Good(farm, r2) BY <1>2, <1>7, SentGood
<1> DEFINE News == {c}
<1>9. /\ \A d \in News : Good(farm, req'[d]) /\ (\A e \in Slots : req[e] = Idle \/ req[e].op # "create")
      /\ \A d \in News : req'[d].op = "create" => \A e \in Slots : d # e => req'[e] = Idle
  BY <1>1, <1>2, <1>5, <1>6, <1>8
<1>10. \A d \in News :
         \/ req'[d].cmd # "insertFloor" /\ req'[d].f \in {None} \cup DOMAIN farm.store
         \/ /\ req'[d].cmd = "insertFloor" /\ News = {d} /\ req'[d].f \notin DOMAIN farm.store
            /\ \A e \in Slots : req[e].f # req'[d].f
  BY <1>1, <1>2, <1>7
<1>11. News \in SUBSET Slots /\ \A d \in Slots \ News : req'[d] = req[d] BY <1>1
<1> HIDE DEF News
<1>12. QED BY <1>1, <1>3, <1>9, <1>10, <1>11, ArrivePlaces

LEMMA ArrivesPlaces ==
  ASSUME MongoTypes, MongoPlaces, mode.db = "mongo", NEW c \in Slots, Arrive(c)
  PROVE  MongoPlaces' /\ NoLoss(farm, farm')
<1>1. ASSUME NEW op, NEW ps, NEW arg, NEW cmd, Start(c, op, ps, None, arg, cmd),
             cmd \in {"insertPrinter", "findPrinter", "deletePrinters", "listFloors"}
      PROVE  MongoPlaces' /\ NoLoss(farm, farm')
  BY <1>1, StartPlaces
<1>2. ASSUME NEW op, NEW ps, NEW f \in DOMAIN farm.store, NEW arg, Start(c, op, ps, f, arg, "findFloor")
      PROVE  MongoPlaces' /\ NoLoss(farm, farm')
  BY <1>2, StartPlaces
<1>3. ASSUME NEW op, NEW ps, NEW f, FreshFloor(f), NEW arg, Start(c, op, ps, f, arg, "insertFloor")
      PROVE  MongoPlaces' /\ NoLoss(farm, farm')
  BY <1>3, StartPlaces
<1>4. CASE StartCreate(c) \/ StartUpdate(c) \/ StartPatch(c) \/ StartDelete(c) \/ StartDeleteAll(c) \/ StartListFloors(c)
  BY <1>1, <1>4 DEF StartCreate, StartUpdate, StartPatch, StartDelete, StartDeleteAll, StartListFloors
<1>5. CASE StartDeleteFloor(c) \/ StartUpdateFloor(c) \/ StartPlace(c) \/ StartRemove(c)
  BY <1>2, <1>5 DEF StartDeleteFloor, StartUpdateFloor, StartPlace, StartRemove
<1>6. CASE StartCreateFloor(c) BY <1>3, <1>6 DEF StartCreateFloor
<1>7. QED BY <1>4, <1>5, <1>6 DEF Arrive

\* A batch arrives.
LEMMA StartBatchPlaces ==
  ASSUME MongoTypes, MongoPlaces, mode.db = "mongo", StartBatch
  PROVE  MongoPlaces' /\ NoLoss(farm, farm')
<1>1. PICK ps \in SUBSET PrinterIds, enabled \in BOOLEAN :
        LET toggled == Toggled(farm, ps, enabled)
            update(p) == Sent("patch", {p}, None, [update |-> EnabledUpdate(enabled)], "findPrinter")
        IN  /\ toggled # {} /\ \A p \in toggled : Admitted("patch", {p}, None)
            /\ \E slot \in Injection(toggled, {c \in Slots : req[c] = Idle}) :
                 req' = [c \in Slots |-> IF c \in Range(slot)
                           THEN update(CHOOSE p \in toggled : slot[p] = c) ELSE req[c]]
            /\ UNCHANGED <<mode, farm, placed>>
  BY DEF StartBatch
<1> DEFINE toggled == Toggled(farm, ps, enabled)
           arg == [update |-> EnabledUpdate(enabled)]
           update(p) == Sent("patch", {p}, None, arg, "findPrinter")
<1>2. /\ \E slot \in Injection(toggled, {c \in Slots : req[c] = Idle}) :
           req' = [c \in Slots |-> IF c \in Range(slot)
                     THEN update(CHOOSE p \in toggled : slot[p] = c) ELSE req[c]]
      /\ toggled # {} /\ \A p \in toggled : Admitted("patch", {p}, None)
      /\ UNCHANGED <<mode, farm, placed>>
  BY <1>1
<1> HIDE DEF toggled, arg
<1>3. PICK slot \in Injection(toggled, {c \in Slots : req[c] = Idle}) :
        req' = [c \in Slots |-> IF c \in Range(slot)
                  THEN update(CHOOSE p \in toggled : slot[p] = c) ELSE req[c]]
  BY <1>2
<1>4. slot \in [toggled -> {c \in Slots : req[c] = Idle}] BY DEF Injection
<1> DEFINE News == Range(slot)
           of(d) == CHOOSE p \in toggled : slot[p] = d
<1>5. News \in SUBSET Slots BY <1>4 DEF Range
<1>6. req' = [c \in Slots |-> IF c \in News THEN update(of(c)) ELSE req[c]] BY <1>3
<1> HIDE DEF News, of
<1>7. \A p : update(p).op = "patch" /\ update(p).f = None /\ update(p).cmd = "findPrinter" /\ update(p).ans = Pending
  BY DEF Sent
<1> HIDE DEF update
<1>8. \A d \in News : /\ req'[d].op = "patch" /\ req'[d].f = None
                      /\ req'[d].cmd = "findPrinter" /\ req'[d].ans = Pending
  BY <1>5, <1>6, <1>7
<1>9. \A d \in Slots \ News : req'[d] = req[d] BY <1>6
<1>10. PICK p \in toggled : Admitted("patch", {p}, None) BY <1>2
<1>11. \A qs, g : Documents("create", qs, g) = {} BY DEF Documents
<1>12. ~disturbed /\ \A d \in Slots : req[d] = Idle \/ req[d].op # "create"
  BY <1>10, <1>11 DEF Admitted
<1>13. \A d \in News : Good(farm, req'[d]) BY <1>8, SentGood
<1>14. QED BY <1>2, <1>5, <1>8, <1>9, <1>12, <1>13, ArrivePlaces

\* All steps with MongoDB.
LEMMA MongoNextPlaces ==
  ASSUME MongoTypes, MongoCaches, MongoPlaces, mode.db = "mongo", MongoNext
  PROVE  MongoPlaces' /\ NoLoss(farm, farm')
<1>1. ASSUME NEW c \in Slots, Database(c)
      PROVE  MongoPlaces' /\ NoLoss(farm, farm')
  BY <1>1, ServePrintersPlaces, ServeFloorsPlaces, ServeSavePlacesPlaces DEF Database
<1>2. ASSUME NEW c \in Slots, Resume(c)
      PROVE  MongoPlaces' /\ NoLoss(farm, farm')
  BY <1>2, ResumePrintersPlaces, ResumeNewFloorsPlaces, ResumeFloorsPlaces DEF Resume
<1>3. QED BY <1>1, <1>2, ArrivesPlaces, StartBatchPlaces DEF MongoNext

---------------------------------------------------------------------------
(* Places, with SQLite                                                     *)

\* The positions that a step from s to t leaves without a printer are of one,
\* and nobody is placed on its floor.
LEMMA OneLeft ==
  ASSUME NEW s, NEW t,
         \A f \in DOMAIN s.floors \cap DOMAIN t.floors :
           /\ \A a, b \in Left(s, t, f) : a = b
           /\ Left(s, t, f) # {} => t.floors[f].printers \subseteq s.floors[f].printers
  PROVE  NoLoss(s, t)
<1>1. SUFFICES ASSUME NEW f \in DOMAIN s.floors \cap DOMAIN t.floors, Left(s, t, f) # {}
               PROVE  /\ Cardinality(Left(s, t, f)) = 1
                      /\ \A pos \in t.floors[f].printers \ s.floors[f].printers :
                           pos.printer \notin DOMAIN t.printers
  BY DEF NoLoss
<1>2. PICK a : a \in Left(s, t, f) BY <1>1
<1>3. Left(s, t, f) = {a} BY <1>2
<1>4. Cardinality(Left(s, t, f)) = 1 BY <1>3, FS_Singleton
<1>5. QED BY <1>1, <1>4

\* The floors keep their printers.
LEMMA SameFloors ==
  ASSUME NEW s, NEW t, t.floors = s.floors
  PROVE  NoLoss(s, t)
BY SameNoLoss

\* loadStore.
LEMMA LoadStoreNoLoss ==
  ASSUME NEW s, NEW u \in Farms, Shrinks(s, u), DOMAIN u.floors = DOMAIN s.floors
  PROVE  NoLoss(s, SqlLoadStore(u))
<1> DEFINE t == SqlLoadStore(u)
<1>1. CASE u.floors = <<>>
  <2>1. DOMAIN s.floors = {} BY <1>1, EmptyTable
  <2> HIDE DEF t
  <2>2. NoLoss(s, t) BY <2>1, SameNoLoss
  <2>3. QED BY <2>2 DEF t
<1>2. CASE u.floors # <<>>
  <2>1. t = StoreFloors(u, u.floors) BY <1>2 DEF SqlLoadStore
  <2>2. t.printers = u.printers /\ t.floors = u.floors BY <2>1 DEF StoreFloors, Farms
  <2> HIDE DEF t
  <2>3. Shrinks(s, t) BY <2>2 DEF Shrinks
  <2>4. NoLoss(s, t) BY <2>3, ShrinksNoLoss
  <2>5. QED BY <2>4 DEF t
<1>3. QED BY <1>1, <1>2

\* DELETE of one printer or of all.
LEMMA DeleteShrinks ==
  ASSUME NEW s \in Farms, NEW ps, NEW t, t = OrmDeleteMany(s, ps)
  PROVE  /\ t \in Farms /\ Shrinks(s, t) /\ DOMAIN t.floors = DOMAIN s.floors
         /\ DOMAIN t.printers = DOMAIN s.printers \ ps
<1> DEFINE r == OrmDeleteRows(s, ps)
<1>1. t = HandlePrintersDeleted(r, ps) BY DEF OrmDeleteMany
<1> HIDE DEF r
<1>2. /\ r \in Farms
      /\ DOMAIN r.printers = DOMAIN s.printers \ ps
      /\ DOMAIN r.floors = DOMAIN s.floors
      /\ \A f \in DOMAIN s.floors :
           r.floors[f].printers = {pos \in s.floors[f].printers : pos.printer \notin ps}
  BY OrmDeleteRowsIs DEF r
<1>3. t \in Farms /\ t.printers = r.printers /\ t.floors = r.floors
  BY <1>1, <1>2, DeleteKeysIs
<1>4. Shrinks(s, t) BY <1>2, <1>3 DEF Shrinks
<1>5. QED BY <1>2, <1>3, <1>4

LEMMA SqlDeleteNoLoss ==
  ASSUME NEW s \in Farms, NEW p
  PROVE  NoLoss(s, RemovePrinterFromAnyFloor(OrmDelete(s, p), p))
<1> DEFINE t == OrmDeleteMany(s, {p})
           places == PlacesOf(t, p)
           u == TakeOff(t, places)
<1>1. /\ t \in Farms /\ Shrinks(s, t) /\ DOMAIN t.floors = DOMAIN s.floors
      /\ DOMAIN t.printers = DOMAIN s.printers \ {p}
  BY DeleteShrinks
<1> HIDE DEF t
<1>2. \A g, pos : <<g, pos>> \in places => pos.printer = p BY DEF PlacesOf
<1> HIDE DEF places
<1>3. /\ u \in Farms /\ u.printers = t.printers /\ DOMAIN u.floors = DOMAIN t.floors
      /\ \A f \in DOMAIN t.floors :
           u.floors[f].printers = {pos \in t.floors[f].printers : <<f, pos>> \notin places}
  BY <1>1, TakeOffIs
<1> HIDE DEF u
<1>4. Shrinks(s, u)
  <2>1. ASSUME NEW f \in DOMAIN s.floors, NEW pos \in s.floors[f].printers \ u.floors[f].printers
        PROVE  pos.printer \notin DOMAIN u.printers
    <3>1. CASE pos \notin t.floors[f].printers BY <1>1, <1>3, <2>1, <3>1 DEF Shrinks
    <3>2. CASE pos \in t.floors[f].printers
      <4>1. <<f, pos>> \in places BY <1>1, <1>3, <2>1, <3>2
      <4>2. QED BY <1>1, <1>2, <1>3, <4>1
    <3>3. QED BY <3>1, <3>2
  <2>2. \A f \in DOMAIN s.floors : u.floors[f].printers \subseteq s.floors[f].printers
    BY <1>1, <1>3 DEF Shrinks
  <2>3. QED BY <1>1, <1>3, <2>1, <2>2 DEF Shrinks
<1>5. NoLoss(s, SqlLoadStore(u)) BY <1>1, <1>3, <1>4, LoadStoreNoLoss
<1>6. RemovePrinterFromAnyFloor(OrmDelete(s, p), p) = SqlLoadStore(u)
  BY DEF RemovePrinterFromAnyFloor, OrmDelete, OrmDeleteMany, OrmDeletePrinterFromAnyFloor, t, u, places
<1>7. QED BY <1>5, <1>6

\* PlacePrinter: of a printer that exists, who leaves has moved or is
\* replaced; of another, only the one in its cell leaves.
LEMMA PlaceNoLoss ==
  ASSUME NEW s, Sound(s), NEW f \in DOMAIN s.floors, NEW p \in PrinterIds, NEW cell \in Cells
  PROVE  NoLoss(s, PlacePrinter(s, f, p, cell))
<1> DEFINE t == PlacePrinter(s, f, p, cell)
           occupants == {<<f, pos>> : pos \in {q \in s.floors[f].printers : q.cell = cell}}
           gone == PlacesOf(s, p) \cup occupants
           freed == TakeOff(s, gone)
           new == [printer |-> p, cell |-> cell]
           added == AddPlace(freed, f, new)
<1>0. s \in Farms BY DEF Sound
<1>1. t = IF p \in DOMAIN s.printers THEN added ELSE freed BY DEF PlacePrinter, AddPlace
<1>2. \A g, pos : <<g, pos>> \in gone => pos.printer = p \/ (g = f /\ pos.cell = cell)
  BY DEF PlacesOf
<1> HIDE DEF t, freed, gone
<1>3. /\ freed \in Farms /\ freed.printers = s.printers
      /\ DOMAIN freed.floors = DOMAIN s.floors
      /\ \A g \in DOMAIN s.floors :
           freed.floors[g].printers = {pos \in s.floors[g].printers : <<g, pos>> \notin gone}
  BY <1>0, TakeOffIs DEF freed
<1>4. ASSUME NEW g \in DOMAIN s.floors, NEW pos \in s.floors[g].printers, pos \notin freed.floors[g].printers
      PROVE  pos.printer = p \/ (g = f /\ pos.cell = cell)
  BY <1>2, <1>3, <1>4
<1>5. CASE p \in DOMAIN s.printers
  <2>1. t = added BY <1>1, <1>5
  <2>2. new \in Position /\ new.printer = p /\ new.cell = cell BY DEF Position
  <2> HIDE DEF new
  <2>3. /\ t.printers = s.printers /\ DOMAIN t.floors = DOMAIN s.floors
        /\ t.floors[f].printers = freed.floors[f].printers \cup {new}
        /\ \A g \in DOMAIN s.floors : g # f => t.floors[g] = freed.floors[g]
    BY <1>3, <2>1, <2>2, AddPlaceIs
  <2>4. new \in t.floors[f].printers BY <2>3
  <2>5. ASSUME NEW g \in DOMAIN s.floors PROVE Left(s, t, g) = {}
    <3>1. SUFFICES ASSUME NEW pos \in Left(s, t, g) PROVE FALSE OBVIOUS
    <3>2. /\ pos \in s.floors[g].printers /\ pos \notin t.floors[g].printers
          /\ \A q \in t.floors[g].printers : q.cell # pos.cell
          /\ \A h \in DOMAIN t.floors : \A q \in t.floors[h].printers : q.printer # pos.printer
      BY DEF Left
    <3>3. pos \notin freed.floors[g].printers BY <2>3, <2>5, <3>2
    <3>4. pos.printer # p BY <2>2, <2>3, <2>4, <3>2
    <3>5. ~(g = f /\ pos.cell = cell) BY <2>2, <2>4, <3>2
    <3>6. QED BY <1>4, <2>5, <3>2, <3>3, <3>4, <3>5
  <2>6. NoLoss(s, t) BY <2>5 DEF NoLoss
  <2>7. QED BY <2>6 DEF t
<1>6. CASE p \notin DOMAIN s.printers
  <2>1. t = freed BY <1>1, <1>6
  <2>2. ASSUME NEW g \in DOMAIN s.floors, NEW pos \in Left(s, t, g)
        PROVE  g = f /\ pos.cell = cell /\ pos \in s.floors[g].printers
    <3>1. /\ pos \in s.floors[g].printers /\ pos \notin t.floors[g].printers
          /\ pos.printer \in DOMAIN t.printers
      BY <2>2 DEF Left
    <3>2. pos.printer # p BY <1>3, <1>6, <2>1, <3>1
    <3>3. QED BY <1>4, <2>1, <2>2, <3>1, <3>2
  <2>3. ASSUME NEW g \in DOMAIN s.floors, NEW a \in Left(s, t, g), NEW b \in Left(s, t, g)
        PROVE  a = b
    BY <2>2, <2>3 DEF Sound, OnePlaceOn
  <2>4. \A g \in DOMAIN s.floors : t.floors[g].printers \subseteq s.floors[g].printers
    BY <1>3, <2>1
  <2>5. NoLoss(s, t) BY <2>3, <2>4, OneLeft
  <2>6. QED BY <2>5 DEF t
<1>7. QED BY <1>5, <1>6

\* The requests for printers, ...
LEMMA SqlPrintersNoLoss ==
  ASSUME SqlInv, ModeInv, mode.db = "sqlite",
         \/ SqlCreate \/ SqlCreateBatch \/ SqlUpdate \/ SqlUpdateEnabled \/ SqlBatchToggle
         \/ SqlUpdateDisabledReason \/ SqlUpdateConnection \/ SqlUpdateRate
         \/ SqlDelete \/ SqlDeleteAll
  PROVE  NoLoss(farm, farm')
<1>1. mode.conns \subseteq Conns BY ModeIs
<1>2. Tidy(farm) /\ farm \in Farms /\ InScope(farm) = DOMAIN farm.printers
  BY ScopeIs DEF SqlInv, Tidy, Sound
<1>3. ASSUME NEW p \in InScope(farm), NEW body, Fits(body), NEW op, Answer(op, OrmUpdate(farm, p, body))
      PROVE  NoLoss(farm, farm')
  <2>1. farm' = OrmUpdate(farm, p, body) BY <1>3 DEF Answer
  <2>2. farm'.floors = farm.floors BY <1>2, <1>3, <2>1, OrmUpdateKeeps
  <2>3. QED BY <2>2, SameFloors
<1>4. CASE SqlCreate
  <2>1. PICK p \in PrinterIds, conn \in mode.conns : farm' = OrmCreate(farm, p, conn)
    BY <1>4 DEF SqlCreate, Answer
  <2>2. farm'.floors = farm.floors
    BY <1>2, <2>1 DEF OrmCreate, OrmInsert, HandlePrinterCreatedOrUpdated, SetKeyValue, Farms
  <2>3. QED BY <2>2, SameFloors
<1>5. CASE SqlCreateBatch
  <2>1. PICK made : farm' = OrmBatchImport(farm, made) BY <1>5 DEF SqlCreateBatch, Answer
  <2>2. farm'.floors = farm.floors
    BY <1>2, <2>1 DEF OrmBatchImport, HandleBatchPrinterCreated, SetKeyValuesBatch, Farms
  <2>3. QED BY <2>2, SameFloors
<1>6. CASE SqlUpdate
  <2>1. PICK p \in InScope(farm), body \in UpdateBodies(mode.conns) :
          Answer("update", OrmUpdate(farm, p, body))
    BY <1>6 DEF SqlUpdate
  <2>2. Fits(body) BY <1>1, BodiesFit
  <2>3. QED BY <1>3, <2>1, <2>2
<1>7. CASE SqlUpdateEnabled
  <2>1. PICK p \in InScope(farm), enabled \in BOOLEAN :
          Answer("patch", OrmUpdate(farm, p, [enabled |-> enabled]))
    BY <1>7 DEF SqlUpdateEnabled, OrmUpdateEnabled
  <2>2. Fits([enabled |-> enabled]) BY BodiesFit
  <2>3. QED BY <1>3, <2>1, <2>2
<1>8. CASE SqlBatchToggle
  <2>1. PICK ps \in SUBSET PrinterIds, enabled \in BOOLEAN : farm' = OrmBatchToggle(farm, ps, enabled)
    BY <1>8 DEF SqlBatchToggle, Answer
  <2>2. farm'.floors = farm.floors BY <1>2, <2>1, OrmBatchToggleKeeps
  <2>3. QED BY <2>2, SameFloors
<1>9. CASE SqlUpdateDisabledReason
  <2>1. PICK p \in InScope(farm), reason \in Reasons \cup {None} :
          Answer("patch", OrmUpdate(farm, p, [reason |-> reason]))
    BY <1>9 DEF SqlUpdateDisabledReason, OrmUpdateDisabledReason
  <2>2. Fits([reason |-> reason]) BY BodiesFit
  <2>3. QED BY <1>3, <2>1, <2>2
<1>10. CASE SqlUpdateConnection
  <2>1. PICK p \in InScope(farm), conn \in mode.conns :
          Answer("patch", OrmUpdate(farm, p, [conn |-> conn]))
    BY <1>10 DEF SqlUpdateConnection, OrmUpdateConnectionSettings
  <2>2. Fits([conn |-> conn]) BY <1>1, BodiesFit
  <2>3. QED BY <1>3, <2>1, <2>2
<1>11. CASE SqlUpdateRate
  <2>1. PICK p \in InScope(farm) : Answer("patch", OrmUpdate(farm, p, [x \in {} |-> None]))
    BY <1>11 DEF SqlUpdateRate, OrmUpdateRate
  <2>2. QED BY <1>3, <2>1, BodiesFit
<1>12. CASE SqlDelete
  <2>1. PICK p \in InScope(farm) : farm' = RemovePrinterFromAnyFloor(OrmDelete(farm, p), p)
    BY <1>12 DEF SqlDelete, Answer
  <2>2. NoLoss(farm, RemovePrinterFromAnyFloor(OrmDelete(farm, p), p))
    BY <1>2, SqlDeleteNoLoss
  <2>3. QED BY <2>1, <2>2
<1>13. CASE SqlDeleteAll
  <2>1. farm' = OrmDeleteMany(farm, DOMAIN farm.cache) BY <1>13 DEF SqlDeleteAll, Answer
  <2>2. Shrinks(farm, farm') BY <1>2, <2>1, DeleteShrinks
  <2>3. QED BY <2>2, ShrinksNoLoss
<1>14. QED BY <1>4, <1>5, <1>6, <1>7, <1>8, <1>9, <1>10, <1>11, <1>12, <1>13

\* Who leaves another floor for a new one is there.
LEMMA MadeNoLoss ==
  ASSUME NEW s, NEW t, NEW f, NEW places, f \notin DOMAIN s.floors, Made(s, t, f, places),
         IsLayout(places), \A pos \in places : pos.printer \in DOMAIN s.printers,
         NEW u, u.floors = t.floors
  PROVE  NoLoss(s, u)
<1>1. /\ t.floors[f].printers = places /\ DOMAIN t.floors = DOMAIN s.floors \cup {f}
      /\ \A g \in DOMAIN s.floors : t.floors[g].printers \subseteq s.floors[g].printers
      /\ Stay(s, t, f, {pos.printer : pos \in places})
  BY DEF Made
<1>2. ASSUME NEW g \in DOMAIN s.floors PROVE Left(s, u, g) = {}
  <2>1. SUFFICES ASSUME NEW pos \in Left(s, u, g) PROVE FALSE OBVIOUS
  <2>2. /\ pos \in s.floors[g].printers /\ pos \notin t.floors[g].printers
        /\ \A h \in DOMAIN t.floors : \A q \in t.floors[h].printers : q.printer # pos.printer
    BY DEF Left
  <2>3. pos.printer \in {q.printer : q \in places} BY <1>1, <1>2, <2>2 DEF Stay
  <2>4. QED BY <1>1, <2>2, <2>3
<1>3. QED BY <1>2 DEF NoLoss

\* ... for floors, ...
LEMMA SqlFloorsNoLoss ==
  ASSUME SqlInv, ModeInv, mode.db = "sqlite",
         \/ SqlCreateFloor \/ SqlDeleteFloor \/ SqlUpdateLevel \/ SqlUpdateName
         \/ SqlCreateFloorFails \/ SqlRemovePrinter \/ SqlListFloors \/ SqlGetFloor
  PROVE  NoLoss(farm, farm')
<1>1. mode.names \subseteq FloorNames BY ModeIs
<1>2. Tidy(farm) /\ Sound(farm) /\ farm \in Farms BY DEF SqlInv, Tidy, Sound
<1>3. CASE SqlCreateFloor
  <2>1. PICK f \in FloorIds, name \in mode.names, level \in Levels, places \in mode.layouts :
          /\ FreshFloor(f) /\ ~LevelTaken(farm, level)
          /\ \A pos \in places : pos.printer \in DOMAIN farm.printers
          /\ LET s == OrmCreateFloor(farm, f, name, level, places)
             IN  farm' = StoreFloor(s, f, s.floors[f])
    BY <1>3 DEF SqlCreateFloor, Place
  <2> DEFINE s == OrmCreateFloor(farm, f, name, level, places)
  <2>2. f \notin DOMAIN farm.floors /\ IsLayout(places) /\ places \in SUBSET Position
    BY <2>1, ModeIs DEF FreshFloor
  <2>3. Made(farm, s, f, places) BY <1>1, <1>2, <2>1, <2>2, OrmCreateFloorIs
  <2>4. farm' = StoreFloor(s, f, s.floors[f]) BY <2>1
  <2> HIDE DEF s
  <2>5. s \in Farms /\ s.floors[f] \in Floor BY <2>3, FarmTables DEF Sound, Made
  <2>6. farm'.floors = s.floors BY <2>4, <2>5, StoreFloorIs
  <2>7. QED BY <2>1, <2>2, <2>3, <2>6, MadeNoLoss
<1>11. CASE SqlCreateFloorFails
  <2>1. PICK f \in FloorIds, name \in mode.names, level \in Levels, places \in mode.layouts :
          /\ FreshFloor(f) /\ ~LevelTaken(farm, level)
          /\ \E before \in SUBSET {pos \in places : pos.printer \in DOMAIN farm.printers} :
               farm' = OrmCreateFloor(farm, f, name, level, before)
    BY <1>11 DEF SqlCreateFloorFails
  <2>2. PICK before \in SUBSET {pos \in places : pos.printer \in DOMAIN farm.printers} :
          farm' = OrmCreateFloor(farm, f, name, level, before)
    BY <2>1
  <2>3. IsLayout(places) /\ places \in SUBSET Position BY ModeIs
  <2>4. /\ f \notin DOMAIN farm.floors /\ IsLayout(before) /\ before \in SUBSET Position
        /\ \A pos \in before : pos.printer \in DOMAIN farm.printers
    BY <2>1, <2>3 DEF FreshFloor, IsLayout
  <2> DEFINE t == OrmCreateFloor(farm, f, name, level, before)
  <2>5. farm' = t BY <2>2
  <2>6. Made(farm, t, f, before) BY <1>1, <1>2, <2>1, <2>4, OrmCreateFloorIs
  <2> HIDE DEF t
  <2>7. QED BY <2>4, <2>5, <2>6, MadeNoLoss
<1>12. CASE SqlGetFloor
  <2>1. PICK f \in DOMAIN farm.floors : farm' = StoreFloor(farm, f, farm.floors[f])
    BY <1>12 DEF SqlGetFloor, Answer
  <2>2. f \in FloorIds /\ farm.floors[f] \in Floor BY <1>2, FarmTables
  <2>3. farm'.floors = farm.floors BY <1>2, <2>1, <2>2, StoreFloorIs
  <2>4. QED BY <2>3, SameFloors
<1>4. CASE SqlDeleteFloor
  <2>1. PICK f \in DOMAIN farm.floors : farm' = DropFloor(OrmDeleteFloor(farm, f), f)
    BY <1>4 DEF SqlDeleteFloor, Answer
  <2>2. farm'.floors = Restrict(farm.floors, DOMAIN farm.floors \ {f})
    BY <1>2, <2>1 DEF DropFloor, OrmDeleteFloor, Farms
  <2>3. \A g \in DOMAIN farm'.floors : farm'.floors[g] = farm.floors[g] BY <2>2 DEF Restrict
  <2>4. QED BY <2>3, SameNoLoss
<1>5. ASSUME NEW f \in DOMAIN farm.floors, NEW name \in FloorNames, NEW level \in Levels, NEW s,
             s = OrmUpdateFloor(farm, f, name, level, farm.floors[f].printers),
             farm' = s \/ farm' = StoreFloor(s, f, s.floors[f])
      PROVE  NoLoss(farm, farm')
  <2>1. /\ DOMAIN s.floors = DOMAIN farm.floors
        /\ \A g \in DOMAIN farm.floors : s.floors[g].printers = farm.floors[g].printers
        /\ StoreFloor(s, f, s.floors[f]).floors = s.floors
    BY <1>2, <1>5, UpdateFloorKeeps
  <2>2. farm'.floors = s.floors BY <1>5, <2>1
  <2>3. QED BY <2>1, <2>2, SameNoLoss
<1>6. CASE SqlUpdateLevel
  <2>1. PICK f \in DOMAIN farm.floors, level \in Levels :
          LET s == OrmUpdateLevel(farm, f, level)
          IN  farm' = IF LevelRefused(farm, f, level) THEN s ELSE StoreFloor(s, f, s.floors[f])
    BY <1>6 DEF SqlUpdateLevel, Answer
  <2> DEFINE s == OrmUpdateLevel(farm, f, level)
  <2>2. farm' = s \/ farm' = StoreFloor(s, f, s.floors[f]) BY <2>1
  <2>3. farm.floors[f] \in Floor BY <1>2, FarmTables
  <2>4. farm.floors[f].name \in FloorNames BY <2>3 DEF Floor
  <2>5. s = OrmUpdateFloor(farm, f, farm.floors[f].name, level, farm.floors[f].printers)
    BY DEF OrmUpdateLevel
  <2> HIDE DEF s
  <2>6. QED BY <1>5, <2>2, <2>4, <2>5
<1>7. CASE SqlUpdateName
  <2>1. PICK f \in DOMAIN farm.floors, name \in mode.names :
          LET s == OrmUpdateName(farm, f, name)
          IN  farm' = StoreFloor(s, f, s.floors[f])
    BY <1>7 DEF SqlUpdateName, Answer
  <2> DEFINE s == OrmUpdateName(farm, f, name)
  <2>2. farm' = StoreFloor(s, f, s.floors[f]) BY <2>1
  <2>3. farm.floors[f] \in Floor BY <1>2, FarmTables
  <2>4. farm.floors[f].level \in Levels /\ name \in FloorNames BY <1>1, <2>3 DEF Floor
  <2>5. s = OrmUpdateFloor(farm, f, name, farm.floors[f].level, farm.floors[f].printers)
    BY DEF OrmUpdateName
  <2> HIDE DEF s
  <2>6. QED BY <1>5, <2>2, <2>4, <2>5
<1>8. CASE SqlRemovePrinter
  <2>1. PICK f \in DOMAIN farm.floors : \E pos \in farm.floors[f].printers :
          LET s == OrmRemovePrinter(farm, f, pos.printer)
          IN  farm' = StoreFloor(s, f, s.floors[f])
    BY <1>8 DEF SqlRemovePrinter, Answer
  <2>2. PICK at \in farm.floors[f].printers :
          LET s == OrmRemovePrinter(farm, f, at.printer)
          IN  farm' = StoreFloor(s, f, s.floors[f])
    BY <2>1
  <2> DEFINE gone == {<<f, pos>> : pos \in {q \in farm.floors[f].printers : q.printer = at.printer}}
             s == OrmRemovePrinter(farm, f, at.printer)
  <2>3. farm' = StoreFloor(s, f, s.floors[f]) BY <2>2
  <2>4. s = TakeOff(farm, gone) BY DEF OrmRemovePrinter
  <2>5. \A g, pos : <<g, pos>> \in gone => g = f /\ pos.printer = at.printer OBVIOUS
  <2> HIDE DEF s, gone
  <2>6. /\ s \in Farms /\ DOMAIN s.floors = DOMAIN farm.floors
        /\ \A g \in DOMAIN farm.floors :
             s.floors[g].printers = {pos \in farm.floors[g].printers : <<g, pos>> \notin gone}
    BY <1>2, <2>4, TakeOffIs
  <2>7. f \in FloorIds /\ s.floors[f] \in Floor BY <1>2, <2>6, FarmTables
  <2>8. farm'.floors = s.floors BY <2>3, <2>6, <2>7, StoreFloorIs
  <2>9. ASSUME NEW g \in DOMAIN farm.floors, NEW pos \in Left(farm, farm', g)
        PROVE  pos \in farm.floors[g].printers /\ pos.printer = at.printer
    <3>1. pos \in farm.floors[g].printers /\ pos \notin s.floors[g].printers
      BY <2>8, <2>9 DEF Left
    <3>2. QED BY <2>5, <2>6, <2>9, <3>1
  <2>10. ASSUME NEW g \in DOMAIN farm.floors, NEW a \in Left(farm, farm', g), NEW b \in Left(farm, farm', g)
         PROVE  a = b
    BY <1>2, <2>9, <2>10 DEF Sound, OnePlaceOn
  <2>11. \A g \in DOMAIN farm.floors : farm'.floors[g].printers \subseteq farm.floors[g].printers
    BY <2>6, <2>8
  <2>12. QED BY <2>10, <2>11, OneLeft
<1>9. CASE SqlListFloors
  <2>1. farm' = SqlLoadStore(farm) BY <1>9 DEF SqlListFloors, Answer
  <2>2. Shrinks(farm, farm) BY DEF Shrinks
  <2>3. NoLoss(farm, SqlLoadStore(farm)) BY <1>2, <2>2, LoadStoreNoLoss
  <2>4. QED BY <2>1, <2>3
<1>10. QED BY <1>3, <1>4, <1>6, <1>7, <1>8, <1>9, <1>11, <1>12

\* ... for places, ...
LEMMA SqlAddPrinterNoLoss ==
  ASSUME SqlInv, mode.db = "sqlite", SqlAddPrinter \/ SqlAddPrinterFails
  PROVE  NoLoss(farm, farm')
<1>1. PICK f \in DOMAIN farm.floors, p \in PrinterIds, cell \in Cells :
        LET s == PlacePrinter(farm, f, p, cell)
        IN  farm' = StoreFloor(s, f, s.floors[f]) \/ farm' = s
  <2>1. farm \in Farms BY DEF SqlInv, Tidy, Sound
  <2>2. DOMAIN farm.printers \subseteq PrinterIds BY <2>1, FarmTables
  <2>3. CASE SqlAddPrinter BY <2>2, <2>3 DEF SqlAddPrinter, Place
  <2>4. CASE SqlAddPrinterFails BY <2>4 DEF SqlAddPrinterFails, Answer
  <2>5. QED BY <2>3, <2>4
<1> DEFINE s == PlacePrinter(farm, f, p, cell)
<1>2. Tidy(farm) /\ Sound(farm) /\ farm \in Farms BY DEF SqlInv, Tidy, Sound
<1>3. Rearranged(farm, s, f) BY <1>2, PlacePrinterIs
<1>4. NoLoss(farm, s) BY <1>2, PlaceNoLoss
<1>5. farm' = StoreFloor(s, f, s.floors[f]) \/ farm' = s BY <1>1
<1> HIDE DEF s
<1>6. s \in Farms /\ f \in FloorIds /\ s.floors[f] \in Floor
  BY <1>2, <1>3, FarmTables DEF Rearranged
<1>7. farm'.floors = s.floors /\ farm'.printers = s.printers BY <1>5, <1>6, StoreFloorIs
<1>8. QED BY <1>4, <1>7, SameLoss

\* ... and for groups.
LEMMA SqlGroupsNoLoss ==
  ASSUME SqlInv, mode.db = "sqlite", SqlGroups
  PROVE  NoLoss(farm, farm')
<1>1. farm \in Farms BY DEF SqlInv, Tidy, Sound
<1>2. farm'.floors = farm.floors
  BY <1>1 DEF SqlGroups, Answer, CreateGroup, UpdateGroupName, DeleteGroup, AddPrinterToGroup,
     RemovePrinterFromGroup, Farms
<1>3. QED BY <1>2, SameFloors

LEMMA SqlNextNoLoss ==
  ASSUME SqlInv, ModeInv, SqlNext, "import" \notin mode.ops
  PROVE  NoLoss(farm, farm')
<1>1. mode.db = "sqlite"
  BY DEF SqlNext, Answer, SqlCreate, SqlCreateBatch, SqlUpdate, SqlUpdateEnabled, SqlBatchToggle,
     SqlUpdateDisabledReason, SqlUpdateConnection, SqlUpdateRate, SqlDelete, SqlDeleteAll,
     Place, SqlCreateFloor, SqlCreateFloorFails, SqlDeleteFloor, SqlUpdateLevel, SqlUpdateName,
     SqlAddPrinter, SqlAddPrinterFails, SqlRemovePrinter, SqlListFloors, SqlGetFloor, SqlGroups, SqlImport
<1>2. ~SqlImport BY DEF SqlImport
<1>3. QED
  BY <1>1, <1>2, SqlPrintersNoLoss, SqlFloorsNoLoss, SqlAddPrinterNoLoss, SqlGroupsNoLoss DEF SqlNext

---------------------------------------------------------------------------
(* No place is lost                                                        *)

\* A server that has just started relies on nothing.
LEMMA IdlePlaces ==
  ASSUME req = [c \in Slots |-> Idle]
  PROVE  MongoPlaces
<1>1. \A c \in Slots : req[c] = Idle OBVIOUS
<1>2. \A c \in Slots : ~Inserts(c) BY <1>1 DEF Inserts
<1>3. \A c \in Slots : req[c].op # "create" BY <1>1, IdleIs
<1>4. QED BY <1>1, <1>2, <1>3 DEF MongoPlaces, CreateAlone, OwnId, NotShown

LEMMA RestartPlaces ==
  ASSUME CacheInv, Restart
  PROVE  MongoPlaces' /\ NoLoss(farm, farm')
<1>1. farm' = Booted(farm) /\ req' = [c \in Slots |-> Idle] BY DEF Restart
<1>2. farm \in Farms BY ModeIs DEF CacheInv, SqlInv, Tidy, Sound, MongoTypes
<1>3. farm'.floors = farm.floors BY <1>1, <1>2, BootedIs
<1>4. \A c \in Slots : req'[c] = Idle BY <1>1
<1>5. \A c \in Slots : ~Inserts(c)' BY <1>4 DEF Inserts
<1>6. \A c \in Slots : req'[c].op # "create" BY <1>4, IdleIs
<1>7. MongoPlaces' BY <1>4, <1>5, <1>6 DEF MongoPlaces, CreateAlone, OwnId, NotShown
<1>8. QED BY <1>3, <1>7, SameFloors

\* Every step keeps what requests rely on, and loses no place.
LEMMA PlacesNext ==
  ASSUME FarmInv, [Next]_vars
  PROVE  MongoPlaces' /\ ("import" \notin mode.ops => NoLoss(farm, farm'))
<1>1. CacheInv /\ MongoPlaces /\ ModeInv /\ SqlInv /\ MongoTypes /\ MongoCaches
  BY DEF FarmInv, CacheInv
<1>2. CASE UNCHANGED vars
  <2>1. MongoPlaces'
    BY <1>1, <1>2 DEF MongoPlaces, vars, CreateAlone, OwnId, NotShown, Inserts
  <2>2. QED BY <1>2, <2>1, SameFloors DEF vars
<1>3. CASE Restart BY <1>1, <1>3, RestartPlaces
<1>4. CASE SqlNext
  <2>1. mode' = mode BY <1>4, ModeStays DEF Next
  <2>2. mode.db = "sqlite"
    BY <1>4 DEF SqlNext, Answer, SqlCreate, SqlCreateBatch, SqlUpdate, SqlUpdateEnabled, SqlBatchToggle,
     SqlUpdateDisabledReason, SqlUpdateConnection, SqlUpdateRate, SqlDelete, SqlDeleteAll,
     Place, SqlCreateFloor, SqlCreateFloorFails, SqlDeleteFloor, SqlUpdateLevel, SqlUpdateName,
     SqlAddPrinter, SqlAddPrinterFails, SqlRemovePrinter, SqlListFloors, SqlGetFloor, SqlGroups, SqlImport
  <2>3. MongoPlaces' BY <2>1, <2>2 DEF MongoPlaces
  <2>4. QED BY <1>1, <1>4, <2>3, SqlNextNoLoss
<1>5. CASE MongoNext
  <2>1. mode.db = "mongo" BY <1>1, <1>5, MongoOnly, ModeIs
  <2>2. QED BY <1>1, <1>5, <2>1, MongoNextPlaces
<1>6. QED BY <1>2, <1>3, <1>4, <1>5 DEF Next

\* The invariant, with what requests that overlap rely on.
THEOREM FarmInvHolds == Spec => []FarmInv
<1>1. Init => FarmInv
  <2>1. ASSUME Init PROVE FarmInv
    <3>1. req = [c \in Slots |-> Idle] BY <2>1 DEF Init
    <3>2. QED BY <2>1, <3>1, FarmInit, IdlePlaces DEF FarmInv
  <2>2. QED BY <2>1
<1>2. ASSUME FarmInv, [Next]_vars PROVE FarmInv'
  <2>1. CacheInv' /\ MongoPlaces' BY <1>2, FarmNext, PlacesNext DEF FarmInv
  <2>2. QED BY <2>1 DEF FarmInv
<1>3. QED BY <1>1, <1>2, PTL DEF Spec

\* Imports aside, no step loses the place another request gave, in either
\* database, however requests overlap.
THEOREM NoLostPlaceHolds == Spec => NoLostPlace
<1> DEFINE A == "import" \notin mode.ops => \A f \in DOMAIN farm.floors \cap DOMAIN farm'.floors :
             LeftOut(f) # {} =>
               /\ Cardinality(LeftOut(f)) = 1
               /\ \A pos \in farm'.floors[f].printers \ farm.floors[f].printers :
                    pos.printer \notin DOMAIN farm'.printers
<1>1. ASSUME FarmInv, [Next]_vars PROVE [A]_vars
  <2>1. "import" \notin mode.ops => NoLoss(farm, farm') BY <1>1, PlacesNext
  <2>2. \A f : LeftOut(f) = Left(farm, farm', f) BY DEF LeftOut, Left
  <2>3. A BY <2>1, <2>2 DEF NoLoss
  <2>4. QED BY <2>3
<1>2. QED BY <1>1, FarmInvHolds, PTL DEF Spec, NoLostPlace
===========================================================================
