---------------------------- MODULE FarmProofs ----------------------------
(***************************************************************************)
(* Proofs about Farm, for any printers, floors, groups, files and clients  *)
(* that satisfy its assumptions. What an operator makes of a farm is       *)
(* stated of the tables it changes (Tidy, CacheFollows, StoreFollows), and *)
(* what the loops of the services come to by induction along their folds.  *)
(* With MongoDB, what a request under way may be (Legal) and, as long as   *)
(* requests do not overlap, what it has still to tell the caches (Owes).   *)
(***************************************************************************)
EXTENDS Farm, FiniteSetTheorems, WellFoundedInduction, TLAPS

---------------------------------------------------------------------------
(* Induction along a fold. The folds of the community modules are          *)
(* recursive functions on the subsets of a finite set S: the result for U  *)
(* comes from the one for U without the element C[U] that is taken last.   *)
(* There is such a function, for whatever a step makes of an element and a *)
(* result; and a property of the results that every step keeps holds of    *)
(* the last one. Both follow from the least elements of sets of finite     *)
(* sets, so no induction rule with an operator parameter is needed.        *)

\* C says which element of a set is taken.
Choice(C, S) == \A U \in SUBSET S : U # {} => C[U] \in U

\* h is the fold over the subsets of T, with steps F.
IsFold(h, T, base, F, C) ==
  h = [U \in SUBSET T |-> IF U = {} THEN base ELSE F[<<C[U], h[U \ {C[U]}]>>]]

\* A set of subsets of a finite set has a least element.
LEMMA LeastSubset ==
  ASSUME NEW S, IsFiniteSet(S), NEW B \in SUBSET (SUBSET S), B # {}
  PROVE  \E x \in B : \A y \in B : ~(y \subseteq x /\ y # x)
<1>1. IsWellFoundedOn(StrictSubsetOrdering(S), FiniteSubsetsOf(S))
  BY FS_StrictSubsetOrderingWellFounded
<1>2. B \subseteq FiniteSubsetsOf(S) BY FS_Subset DEF FiniteSubsetsOf
<1>3. \E x \in B : \A y \in B : ~(<<y, x>> \in StrictSubsetOrdering(S)) BY <1>1, <1>2, WFMin
<1>4. QED BY <1>3 DEF StrictSubsetOrdering

\* A property of results that holds at first and is kept by every step holds at the end.
LEMMA FoldInduction ==
  ASSUME NEW S, IsFiniteSet(S), NEW C, Choice(C, S), NEW q, NEW I,
         q[{}] \in I[{}],
         \A U \in SUBSET S : U # {} /\ q[U \ {C[U]}] \in I[U \ {C[U]}] => q[U] \in I[U]
  PROVE  \A U \in SUBSET S : q[U] \in I[U]
<1> DEFINE B == {U \in SUBSET S : q[U] \notin I[U]}
<1> SUFFICES ASSUME B # {} PROVE FALSE OBVIOUS
<1>1. B \in SUBSET (SUBSET S) OBVIOUS
<1> HIDE DEF B
<1>2. PICK U \in B : \A V \in B : ~(V \subseteq U /\ V # U) BY <1>1, LeastSubset
<1>3. U \in SUBSET S /\ q[U] \notin I[U] /\ U # {} BY DEF B
<1>4. C[U] \in U BY <1>3 DEF Choice
<1> DEFINE V == U \ {C[U]}
<1>5. V \in SUBSET S /\ V \subseteq U /\ V # U BY <1>3, <1>4
<1>6. V \notin B BY <1>2, <1>5
<1>7. q[V] \in I[V] BY <1>5, <1>6 DEF B
<1>8. QED BY <1>3, <1>7

\* Folds over different sets agree where both are defined.
LEMMA FoldUnique ==
  ASSUME NEW S, IsFiniteSet(S), NEW C, Choice(C, S), NEW base, NEW F,
         NEW U \in SUBSET S, NEW V \in SUBSET S, NEW h, NEW g,
         IsFold(h, U, base, F, C), IsFold(g, V, base, F, C)
  PROVE  \A W \in SUBSET (U \cap V) : h[W] = g[W]
<1> DEFINE T == U \cap V
           I == [W \in SUBSET T |-> {g[W]}]
<1>1. IsFiniteSet(T) /\ Choice(C, T) BY FS_Subset, T \subseteq S DEF Choice
<1>2. h[{}] \in I[{}] BY DEF IsFold
<1>3. ASSUME NEW W \in SUBSET T, W # {}, h[W \ {C[W]}] \in I[W \ {C[W]}]
      PROVE  h[W] \in I[W]
  <2>1. W \ {C[W]} \in SUBSET T OBVIOUS
  <2>2. h[W \ {C[W]}] = g[W \ {C[W]}] BY <1>3, <2>1
  <2>3. h[W] = F[<<C[W], h[W \ {C[W]}]>>] BY <1>3, W \in SUBSET U DEF IsFold
  <2>4. g[W] = F[<<C[W], g[W \ {C[W]}]>>] BY <1>3, W \in SUBSET V DEF IsFold
  <2>5. QED BY <2>2, <2>3, <2>4
<1> HIDE DEF I, T
<1>4. \A W \in SUBSET T : h[W] \in I[W] BY <1>1, <1>2, <1>3, FoldInduction
<1>5. QED BY <1>4 DEF I, T

\* There is a fold over every finite set.
LEMMA FoldExists ==
  ASSUME NEW S, IsFiniteSet(S), NEW C, Choice(C, S), NEW base, NEW F
  PROVE  \E h : IsFold(h, S, base, F, C)
<1> DEFINE B == {W \in SUBSET S : ~ \E h : IsFold(h, W, base, F, C)}
<1> SUFFICES ASSUME B # {} PROVE FALSE OBVIOUS
<1>1. B \in SUBSET (SUBSET S) OBVIOUS
<1> HIDE DEF B
<1>2. PICK W \in B : \A V \in B : ~(V \subseteq W /\ V # W) BY <1>1, LeastSubset
<1>3. W \in SUBSET S /\ ~ \E h : IsFold(h, W, base, F, C) BY DEF B
<1> DEFINE fold(U) == CHOOSE h : IsFold(h, U, base, F, C)
           last(U) == F[<<C[U], fold(U \ {C[U]})[U \ {C[U]}]>>]
           k == [U \in SUBSET W |-> IF U = {} THEN base ELSE last(U)]
<1>4. ASSUME NEW U \in SUBSET W, U # W PROVE IsFold(fold(U), U, base, F, C)
  <2>1. U \notin B BY <1>2, <1>4
  <2>2. \E h : IsFold(h, U, base, F, C) BY <2>1, <1>3 DEF B
  <2>3. QED BY <2>2
<1> HIDE DEF fold
<1>5. ASSUME NEW U \in SUBSET W, U # W PROVE k[U] = fold(U)[U]
  <2>1. IsFold(fold(U), U, base, F, C) BY <1>4, <1>5
  <2>2. CASE U = {} BY <2>1, <2>2 DEF IsFold
  <2>3. CASE U # {}
    <3> DEFINE V == U \ {C[U]}
    <3>1. C[U] \in U BY <1>3, <2>3 DEF Choice
    <3>2. V \in SUBSET W /\ V # W /\ V \in SUBSET U /\ V \in SUBSET S /\ U \in SUBSET S
      BY <3>1, <1>3
    <3>3. fold(U)[U] = F[<<C[U], fold(U)[V]>>] BY <2>1, <2>3 DEF IsFold
    <3> HIDE DEF V
    <3>4. IsFold(fold(V), V, base, F, C) BY <3>2, <1>4
    <3>5. \A Z \in SUBSET (U \cap V) : fold(U)[Z] = fold(V)[Z]
      BY <2>1, <3>2, <3>4, FoldUnique
    <3>6. fold(U)[V] = fold(V)[V] BY <3>2, <3>5
    <3>7. k[U] = F[<<C[U], fold(V)[V]>>] BY <2>3 DEF V
    <3>8. QED BY <3>3, <3>6, <3>7
  <2>4. QED BY <2>2, <2>3
<1>6. ASSUME NEW U \in SUBSET W, U # {} PROVE k[U] = F[<<C[U], k[U \ {C[U]}]>>]
  <2> DEFINE V == U \ {C[U]}
  <2>1. C[U] \in U BY <1>3, <1>6 DEF Choice
  <2>2. V \in SUBSET W /\ V # W BY <2>1
  <2>3. k[U] = F[<<C[U], fold(V)[V]>>] BY <1>6
  <2> HIDE DEF V, k
  <2>4. k[V] = fold(V)[V] BY <1>5, <2>2
  <2>5. QED BY <2>3, <2>4 DEF V
<1>7. k[{}] = base OBVIOUS
<1>8. k = [U \in SUBSET W |-> k[U]] OBVIOUS
<1> HIDE DEF k
<1>9. k = [U \in SUBSET W |-> IF U = {} THEN base ELSE F[<<C[U], k[U \ {C[U]}]>>]]
  BY <1>6, <1>7, <1>8
<1>10. QED BY <1>3, <1>9 DEF IsFold

\* The fold of steps that are known for the elements of S and the results in I, one set
\* of them for every subset of S.
LEMMA FoldWithin ==
  ASSUME NEW S, IsFiniteSet(S), NEW C, Choice(C, S), NEW base, NEW F, NEW I,
         base \in I[{}],
         \A U \in SUBSET S : U # {} =>
           \A t \in I[U \ {C[U]}] : F[<<C[U], t>>] \in I[U]
  PROVE  \E h : IsFold(h, S, base, F, C) /\ \A U \in SUBSET S : h[U] \in I[U]
<1>1. PICK h : IsFold(h, S, base, F, C) BY FoldExists
<1>2. h[{}] \in I[{}] BY <1>1 DEF IsFold
<1>3. ASSUME NEW U \in SUBSET S, U # {}, h[U \ {C[U]}] \in I[U \ {C[U]}]
      PROVE  h[U] \in I[U]
  <2>1. h[U] = F[<<C[U], h[U \ {C[U]}]>>] BY <1>1, <1>3 DEF IsFold
  <2>2. QED BY <1>3, <2>1
<1>4. \A U \in SUBSET S : h[U] \in I[U] BY <1>2, <1>3, FoldInduction
<1>5. QED BY <1>1, <1>4

\* The choice of FoldSet and its relatives.
AnyOf(S) == [U \in SUBSET S |-> CHOOSE x \in U : TRUE]

LEMMA AnyOfChooses ==
  ASSUME NEW S
  PROVE  Choice(AnyOf(S), S)
BY DEF Choice, AnyOf

\* A non-empty set of numbers up to n has a greatest element.
LEMMA Greatest ==
  ASSUME NEW n \in Nat, NEW U \in SUBSET (1..n), U # {}
  PROVE  \E x \in U : \A y \in U : x >= y
<1> DEFINE T == 1..n
           above(x) == {y \in U : y >= x}
           B == {above(x) : x \in U}
<1>1. IsFiniteSet(T) BY FS_Interval
<1>2. U \subseteq Nat /\ U \in SUBSET T OBVIOUS
<1> HIDE DEF T
<1>3. B \in SUBSET (SUBSET T) /\ B # {} BY <1>2
<1> HIDE DEF B
<1>4. \E x \in B : \A y \in B : ~(y \subseteq x /\ y # x) BY <1>1, <1>3, LeastSubset
<1>5. PICK x \in U : \A c \in B : ~(c \subseteq above(x) /\ c # above(x)) BY <1>4 DEF B
<1>6. ASSUME NEW y \in U, ~(x >= y) PROVE FALSE
  <2>1. x \in Nat /\ y \in Nat /\ y > x BY <1>2, <1>6
  <2>2. \A z \in Nat : z >= y => z >= x BY <2>1
  <2>3. above(y) \subseteq above(x) BY <1>2, <2>2
  <2>4. x \in above(x) /\ x \notin above(y) BY <2>1
  <2>5. above(y) \in B BY DEF B
  <2>6. QED BY <1>5, <2>3, <2>4, <2>5
<1>7. QED BY <1>6

\* The choice of FoldLeft, which takes the last index last.
LastOf(S) == [U \in SUBSET S |-> CHOOSE x \in U : \A y \in U : x >= y]

LEMMA LastOfChooses ==
  ASSUME NEW n \in Nat
  PROVE  Choice(LastOf(1..n), 1..n)
BY Greatest DEF Choice, LastOf

---------------------------------------------------------------------------
(* Tables                                                                  *)

\* A table: ids of K that are in use, with values of V.
Table(K, V) == UNION {[D -> V] : D \in SUBSET K}

\* A table by its rows.
LEMMA TableIs ==
  ASSUME NEW K, NEW V, NEW f
  PROVE  f \in Table(K, V) <=>
           /\ f = [x \in DOMAIN f |-> f[x]] /\ DOMAIN f \subseteq K
           /\ \A x \in DOMAIN f : f[x] \in V
<1>1. ASSUME f \in Table(K, V)
      PROVE  /\ f = [x \in DOMAIN f |-> f[x]] /\ DOMAIN f \subseteq K
             /\ \A x \in DOMAIN f : f[x] \in V
  BY <1>1 DEF Table
<1>2. ASSUME f = [x \in DOMAIN f |-> f[x]], DOMAIN f \subseteq K, \A x \in DOMAIN f : f[x] \in V
      PROVE  f \in Table(K, V)
  <2>1. f \in [DOMAIN f -> V] BY <1>2
  <2>2. QED BY <1>2, <2>1 DEF Table
<1>3. QED BY <1>1, <1>2

\* The rows of a table.
LEMMA TableOf ==
  ASSUME NEW K, NEW V, NEW f \in Table(K, V), NEW x \in DOMAIN f
  PROVE  x \in K /\ f[x] \in V
BY TableIs

\* Tables with the same rows are the same.
LEMMA SameTable ==
  ASSUME NEW K, NEW V, NEW f \in Table(K, V), NEW g \in Table(K, V),
         DOMAIN f = DOMAIN g, \A x \in DOMAIN f : f[x] = g[x]
  PROVE  f = g
BY TableIs

\* The empty table.
LEMMA EmptyTable ==
  ASSUME NEW K, NEW V
  PROVE  <<>> \in Table(K, V) /\ DOMAIN <<>> = {}
<1>1. DOMAIN <<>> = {} /\ <<>> = [x \in {} |-> <<>>[x]] OBVIOUS
<1>2. QED BY <1>1, TableIs

\* It is the only one without rows.
LEMMA EmptyOnly ==
  ASSUME NEW K, NEW V, NEW f \in Table(K, V)
  PROVE  f = <<>> <=> DOMAIN f = {}
BY EmptyTable, SameTable

\* A table with a row added or replaced.
LEMMA PutTable ==
  ASSUME NEW K, NEW V, NEW f \in Table(K, V), NEW k \in K, NEW v \in V
  PROVE  Put(f, k, v) \in Table(K, V)
<1> DEFINE g == Put(f, k, v)
<1>1. DOMAIN f \subseteq K /\ \A x \in DOMAIN f : f[x] \in V BY TableIs
<1>2. /\ g = [x \in DOMAIN g |-> g[x]] /\ DOMAIN g = DOMAIN f \cup {k}
      /\ g[k] = v
      /\ \A x \in DOMAIN f : x # k => g[x] = f[x]
  BY DEF Put
<1> HIDE DEF g
<1>3. g \in Table(K, V) BY <1>1, <1>2, TableIs
<1>4. QED BY <1>3 DEF g

\* A table with all rows of another one.
LEMMA OverlaidTable ==
  ASSUME NEW K, NEW V, NEW f \in Table(K, V), NEW h \in Table(K, V)
  PROVE  Overlaid(h, f) \in Table(K, V)
<1> DEFINE g == Overlaid(h, f)
<1>1. /\ DOMAIN f \subseteq K /\ \A x \in DOMAIN f : f[x] \in V
      /\ DOMAIN h \subseteq K /\ \A x \in DOMAIN h : h[x] \in V
  BY TableIs
<1>2. /\ g = [x \in DOMAIN g |-> g[x]] /\ DOMAIN g = DOMAIN f \cup DOMAIN h
      /\ \A x \in DOMAIN h : g[x] = h[x]
      /\ \A x \in DOMAIN f \ DOMAIN h : g[x] = f[x]
  BY DEF Overlaid
<1> HIDE DEF g
<1>3. g \in Table(K, V) BY <1>1, <1>2, TableIs
<1>4. QED BY <1>3 DEF g

\* A table without some of its rows.
LEMMA RestrictTable ==
  ASSUME NEW K, NEW V, NEW f \in Table(K, V), NEW S, S \subseteq DOMAIN f
  PROVE  Restrict(f, S) \in Table(K, V)
<1> DEFINE g == Restrict(f, S)
<1>1. DOMAIN f \subseteq K /\ \A x \in DOMAIN f : f[x] \in V BY TableIs
<1>2. g = [x \in DOMAIN g |-> g[x]] /\ DOMAIN g = S /\ \A x \in S : g[x] = f[x]
  BY DEF Restrict
<1> HIDE DEF g
<1>3. g \in Table(K, V) BY <1>1, <1>2, TableIs
<1>4. QED BY <1>3 DEF g

\* A table with other values.
LEMMA MapTable ==
  ASSUME NEW K, NEW V, NEW f \in Table(K, V), NEW g, g = [x \in DOMAIN f |-> g[x]],
         \A x \in DOMAIN f : g[x] \in V
  PROVE  g \in Table(K, V)
BY TableIs

\* A table with one row changed.
LEMMA SetTable ==
  ASSUME NEW K, NEW V, NEW f \in Table(K, V), NEW k \in DOMAIN f, NEW v \in V
  PROVE  /\ [f EXCEPT ![k] = v] \in Table(K, V)
         /\ [f EXCEPT ![k] = v] = Put(f, k, v)
<1> DEFINE g == [f EXCEPT ![k] = v]
<1>1. DOMAIN f \subseteq K /\ (\A x \in DOMAIN f : f[x] \in V) /\ f = [x \in DOMAIN f |-> f[x]]
  BY TableIs
<1>2. /\ g = [x \in DOMAIN g |-> g[x]] /\ DOMAIN g = DOMAIN f
      /\ g[k] = v
      /\ \A x \in DOMAIN f : x # k => g[x] = f[x]
  BY <1>1
<1> HIDE DEF g
<1>3. g \in Table(K, V) BY <1>1, <1>2, TableIs
<1>4. DOMAIN f \cup {k} = DOMAIN f OBVIOUS
<1>5. g = Put(f, k, v) BY <1>2, <1>4 DEF Put
<1>6. QED BY <1>3, <1>5 DEF g

---------------------------------------------------------------------------
(* The farm                                                                *)

Printers == Table(PrinterIds, Printer)
FloorRows == Table(FloorIds, Floor)
GroupRows == Table(GroupIds, Group)
Orders == Table(PrinterIds \cup FloorIds, Nat)

Farms == [printers: Printers, cache: Printers, floors: FloorRows, store: FloorRows,
          groups: GroupRows, order: Orders]

\* OnePlace, of some floors.
OnePlaceOn(floors) ==
  \A f, g \in DOMAIN floors :
    \A a \in floors[f].printers, b \in floors[g].printers :
      /\ a.printer = b.printer => f = g /\ a = b
      /\ f = g /\ a.cell = b.cell => a = b

LevelsDiffer(floors) ==
  \A f, g \in DOMAIN floors : floors[f].level = floors[g].level => f = g

\* Only printers that exist have a place, or a group.
PlacesKnown(s) ==
  \A f \in DOMAIN s.floors : \A pos \in s.floors[f].printers : pos.printer \in DOMAIN s.printers

GroupsKnown(s) ==
  \A g \in DOMAIN s.groups : s.groups[g].printers \subseteq DOMAIN s.printers

\* The printer cache follows the database (CacheAgrees).
CacheFollows(s) ==
  /\ DOMAIN s.cache = DOMAIN s.printers
  /\ \A p \in DOMAIN s.cache :
       /\ s.cache[p].conn = s.printers[p].conn
       /\ s.cache[p].enabled = s.printers[p].enabled

\* So does the floor store (StoreShowsPlaces).
StoreShows(s, f) ==
  /\ f \in DOMAIN s.store
  /\ s.store[f].level = s.floors[f].level /\ s.store[f].name = s.floors[f].name
  /\ s.floors[f].printers \subseteq s.store[f].printers

StoreFollows(s) == \A f \in DOMAIN s.floors : StoreShows(s, f)

\* What every call of a service leaves of a farm in SQLite, ...
Sound(s) ==
  /\ s \in Farms
  /\ OnePlaceOn(s.floors)
  /\ LevelsDiffer(s.floors)
  /\ PlacesKnown(s)
  /\ GroupsKnown(s)
  /\ CacheFollows(s)

\* ... and every request.
Tidy(s) == Sound(s) /\ DOMAIN s.store \subseteq DOMAIN s.floors

\* t is tidy, its floor store follows the database if that of s does, and its rows
\* are listed in the same order.
Kept(s, t) == Tidy(t) /\ (StoreFollows(s) => StoreFollows(t)) /\ t.order = s.order

\* The tables of a farm.
LEMMA FarmTables ==
  ASSUME NEW s \in Farms
  PROVE  /\ s.printers \in Printers /\ s.cache \in Printers
         /\ s.floors \in FloorRows /\ s.store \in FloorRows
         /\ s.groups \in GroupRows /\ s.order \in Orders
         /\ DOMAIN s.printers \subseteq PrinterIds /\ DOMAIN s.cache \subseteq PrinterIds
         /\ DOMAIN s.floors \subseteq FloorIds /\ DOMAIN s.store \subseteq FloorIds
         /\ DOMAIN s.groups \subseteq GroupIds
         /\ \A p \in DOMAIN s.printers : s.printers[p] \in Printer
         /\ \A p \in DOMAIN s.cache : s.cache[p] \in Printer
         /\ \A f \in DOMAIN s.floors : s.floors[f] \in Floor
         /\ \A f \in DOMAIN s.store : s.store[f] \in Floor
         /\ \A g \in DOMAIN s.groups : s.groups[g] \in Group
<1>1. /\ s.printers \in Printers /\ s.cache \in Printers
      /\ s.floors \in FloorRows /\ s.store \in FloorRows
      /\ s.groups \in GroupRows /\ s.order \in Orders
  BY DEF Farms
<1>2. QED BY <1>1, TableIs DEF Printers, FloorRows, GroupRows

\* Farms that differ in no table are the same.
LEMMA SameFarm ==
  ASSUME NEW s \in Farms, NEW t \in Farms, t.printers = s.printers, t.cache = s.cache,
         t.floors = s.floors, t.store = s.store, t.groups = s.groups, t.order = s.order
  PROVE  t = s
BY DEF Farms

\* A request that only adds and changes printers.
LEMMA PrintersChange ==
  ASSUME NEW s, Tidy(s), NEW t \in Farms, DOMAIN s.printers \subseteq DOMAIN t.printers,
         t.floors = s.floors, t.store = s.store, t.groups = s.groups, t.order = s.order,
         CacheFollows(t)
  PROVE  Kept(s, t)
BY DEF Tidy, Sound, PlacesKnown, GroupsKnown, StoreFollows, StoreShows, Kept

\* Floors on which there are fewer places.
LEMMA FewerPlaces ==
  ASSUME NEW floors, NEW fewer, DOMAIN fewer \subseteq DOMAIN floors,
         \A f \in DOMAIN fewer : /\ fewer[f].level = floors[f].level
                                 /\ fewer[f].printers \subseteq floors[f].printers
  PROVE  /\ OnePlaceOn(floors) => OnePlaceOn(fewer)
         /\ LevelsDiffer(floors) => LevelsDiffer(fewer)
<1>1. ASSUME OnePlaceOn(floors) PROVE OnePlaceOn(fewer)
  <2>1. ASSUME NEW f \in DOMAIN fewer, NEW g \in DOMAIN fewer,
               NEW a \in fewer[f].printers, NEW b \in fewer[g].printers
        PROVE  /\ a.printer = b.printer => f = g /\ a = b
               /\ f = g /\ a.cell = b.cell => a = b
    <3>1. f \in DOMAIN floors /\ g \in DOMAIN floors /\ a \in floors[f].printers /\ b \in floors[g].printers
      OBVIOUS
    <3>2. QED BY <1>1, <3>1 DEF OnePlaceOn
  <2>2. QED BY <2>1 DEF OnePlaceOn
<1>2. LevelsDiffer(floors) => LevelsDiffer(fewer) BY DEF LevelsDiffer
<1>3. QED BY <1>1, <1>2

---------------------------------------------------------------------------
(* Printers with SQLite                                                    *)

\* The bodies of the calls: fields of a printer.
Fits(body) ==
  /\ "conn" \in DOMAIN body => body["conn"] \in Conns
  /\ "enabled" \in DOMAIN body => body["enabled"] \in BOOLEAN
  /\ "reason" \in DOMAIN body => body["reason"] \in Reasons \cup {None}

\* What Object.assign makes of a printer is a printer.
LEMMA AssignPrinter ==
  ASSUME NEW old \in Printer, NEW body, Fits(body)
  PROVE  Assign(body, old) \in Printer
<1> DEFINE new == Assign(body, old)
<1>1. DOMAIN old = {"conn", "enabled", "reason"} BY DEF Printer
<1>2. new = [x \in {"conn", "enabled", "reason"} |-> new[x]] BY <1>1 DEF Assign
<1>3. new["conn"] \in Conns /\ new["enabled"] \in BOOLEAN /\ new["reason"] \in Reasons \cup {None}
  BY <1>1 DEF Assign, Fits, Printer
<1> HIDE DEF new
<1>4. QED BY <1>2, <1>3 DEF Printer, new

\* The bodies that the services make.
LEMMA BodiesFit ==
  /\ \A conns \in SUBSET Conns : \A body \in UpdateBodies(conns) : Fits(body)
  /\ \A e \in BOOLEAN : Fits([enabled |-> e])
  /\ \A e \in Reasons \cup {None} : Fits([reason |-> e])
  /\ \A e \in Conns : Fits([conn |-> e])
  /\ Fits([x \in {} |-> None])
  /\ \A p \in Printer : Fits(p)
<1>1. \A conns \in SUBSET Conns : \A body \in UpdateBodies(conns) : Fits(body)
  BY DEF UpdateBodies, Fits
<1>2. \A p \in Printer : Fits(p) BY DEF Fits, Printer
<1>3. QED BY <1>1, <1>2 DEF Fits

\* A row in the database and the cache.
WithRows(s, rows, cache) == [s EXCEPT !.printers = rows, !.cache = cache]

LEMMA RowIn ==
  ASSUME NEW s, Tidy(s), NEW p \in PrinterIds, NEW row \in Printer, NEW shown \in Printer,
         shown.conn = row.conn, shown.enabled = row.enabled,
         NEW t, t = WithRows(s, Put(s.printers, p, row), Put(s.cache, p, shown))
  PROVE  /\ Kept(s, t)
         /\ t.floors = s.floors /\ t.store = s.store /\ t.groups = s.groups /\ t.order = s.order
         /\ DOMAIN t.printers = DOMAIN s.printers \cup {p}
<1>1. s \in Farms /\ s.printers \in Printers /\ s.cache \in Printers
  BY FarmTables DEF Tidy, Sound
<1> DEFINE rows == Put(s.printers, p, row)
           cache == Put(s.cache, p, shown)
<1>2. /\ DOMAIN rows = DOMAIN s.printers \cup {p} /\ rows[p] = row
      /\ \A x \in DOMAIN s.printers : x # p => rows[x] = s.printers[x]
      /\ DOMAIN cache = DOMAIN s.cache \cup {p} /\ cache[p] = shown
      /\ \A x \in DOMAIN s.cache : x # p => cache[x] = s.cache[x]
  BY DEF Put
<1>3. rows \in Printers /\ cache \in Printers BY <1>1, PutTable DEF Printers
<1> HIDE DEF rows, cache
<1>4. t = [s EXCEPT !.printers = rows, !.cache = cache] BY DEF rows, cache, WithRows
<1>5. /\ t \in Farms /\ t.printers = rows /\ t.cache = cache
      /\ t.floors = s.floors /\ t.store = s.store /\ t.groups = s.groups /\ t.order = s.order
  BY <1>1, <1>2, <1>3, <1>4 DEF Farms
<1>6. CacheFollows(s) BY DEF Tidy, Sound
<1>7. CacheFollows(t)
  <2>1. DOMAIN t.cache = DOMAIN t.printers BY <1>2, <1>3, <1>5, <1>6 DEF CacheFollows
  <2>2. ASSUME NEW x \in DOMAIN t.cache
        PROVE  t.cache[x].conn = t.printers[x].conn /\ t.cache[x].enabled = t.printers[x].enabled
    <3>1. CASE x = p BY <3>1, <1>2, <1>3, <1>5
    <3>2. CASE x # p
      <4>1. x \in DOMAIN s.cache /\ x \in DOMAIN s.printers
        BY <2>2, <3>2, <1>2, <1>5, <1>6 DEF CacheFollows
      <4>2. t.cache[x] = s.cache[x] /\ t.printers[x] = s.printers[x]
        BY <4>1, <3>2, <1>2, <1>3, <1>5
      <4>3. QED BY <4>1, <4>2, <1>6 DEF CacheFollows
    <3>3. QED BY <3>1, <3>2
  <2>3. QED BY <2>1, <2>2 DEF CacheFollows
<1>8. DOMAIN s.printers \subseteq DOMAIN t.printers BY <1>2, <1>5
<1>9. Kept(s, t) BY <1>5, <1>7, <1>8, PrintersChange
<1>10. QED BY <1>2, <1>5, <1>9

\* POST /printer, and a new printer of a file.
InsertPrinter(s, p, printer) ==
  HandlePrinterCreatedOrUpdated([s EXCEPT !.printers = Put(@, p, printer)], p, printer)

LEMMA OrmInsertKeeps ==
  ASSUME NEW s, Tidy(s), NEW p \in PrinterIds, NEW printer \in Printer,
         NEW t, t = InsertPrinter(s, p, printer)
  PROVE  /\ Kept(s, t)
         /\ t.floors = s.floors /\ t.store = s.store /\ t.groups = s.groups /\ t.order = s.order
         /\ DOMAIN t.printers = DOMAIN s.printers \cup {p}
<1>1. printer # None /\ s \in Farms BY NoValues DEF Tidy, Sound
<1>2. t = WithRows(s, Put(s.printers, p, printer), Put(s.cache, p, printer))
  BY <1>1 DEF InsertPrinter, HandlePrinterCreatedOrUpdated, SetKeyValue, Farms, WithRows
<1>3. Kept(s, t) BY <1>2, RowIn
<1>4. t.floors = s.floors /\ t.store = s.store /\ t.groups = s.groups /\ t.order = s.order
  BY <1>2, RowIn
<1>5. DOMAIN t.printers = DOMAIN s.printers \cup {p} BY <1>2, RowIn
<1>6. QED BY <1>3, <1>4, <1>5

\* A new printer is a printer.
LEMMA NewIsPrinter ==
  ASSUME NEW conn \in Conns
  PROVE  NewPrinter(conn) \in Printer
BY DEF NewPrinter, Printer

\* Created and told to the cache.
LEMMA OrmCreateKeeps ==
  ASSUME NEW s, Tidy(s), NEW p \in PrinterIds, NEW conn \in Conns
  PROVE  Kept(s, OrmCreate(s, p, conn))
BY NewIsPrinter, OrmInsertKeeps DEF OrmCreate, OrmInsert, InsertPrinter

\* Every update, patch and toggle.
LEMMA OrmUpdateKeeps ==
  ASSUME NEW s, Tidy(s), NEW p \in DOMAIN s.printers, NEW body, Fits(body),
         NEW t, t = OrmUpdate(s, p, body)
  PROVE  /\ Kept(s, t)
         /\ t.floors = s.floors /\ t.store = s.store /\ t.groups = s.groups /\ t.order = s.order
         /\ DOMAIN t.printers = DOMAIN s.printers
<1> DEFINE printer == Assign(body, s.printers[p])
           stored == [printer EXCEPT !.reason = s.printers[p].reason]
<1>0. s \in Farms /\ s.printers \in Printers /\ s.cache \in Printers
  BY FarmTables DEF Tidy, Sound
<1>1. p \in PrinterIds /\ s.printers[p] \in Printer BY <1>0, TableOf DEF Printers
<1>2. printer \in Printer BY <1>1, AssignPrinter
<1> HIDE DEF printer
<1>3. /\ stored \in Printer /\ printer # None
      /\ stored.conn = printer.conn /\ stored.enabled = printer.enabled
  BY <1>1, <1>2, NoValues DEF Printer
<1> HIDE DEF stored
<1>4. [s.printers EXCEPT ![p] = stored] = Put(s.printers, p, stored)
  BY <1>0, <1>3, SetTable DEF Printers
<1>5. t = [s EXCEPT !.printers = [s.printers EXCEPT ![p] = stored], !.cache = Put(s.cache, p, printer)]
  BY <1>0, <1>3 DEF OrmUpdate, HandlePrinterCreatedOrUpdated, SetKeyValue, printer, stored, Farms
<1>6. t = WithRows(s, Put(s.printers, p, stored), Put(s.cache, p, printer))
  BY <1>4, <1>5 DEF WithRows
<1>7. /\ Kept(s, t)
      /\ t.floors = s.floors /\ t.store = s.store /\ t.groups = s.groups /\ t.order = s.order
      /\ DOMAIN t.printers = DOMAIN s.printers \cup {p}
  BY <1>1, <1>2, <1>3, <1>6, RowIn
<1>8. QED BY <1>7

\* Another table of floors.
WithFloors(s, floors) == [s EXCEPT !.floors = floors]

LEMMA WithFloorsIs ==
  ASSUME NEW s \in Farms, NEW floors \in FloorRows, NEW t, t = WithFloors(s, floors)
  PROVE  /\ t \in Farms /\ t.floors = floors
         /\ t.printers = s.printers /\ t.cache = s.cache
         /\ t.store = s.store /\ t.groups = s.groups /\ t.order = s.order
BY DEF WithFloors, Farms

\* The same floors with fewer places.
LEMMA FewerKeeps ==
  ASSUME NEW s, Sound(s), NEW t \in Farms,
         t.printers = s.printers, t.cache = s.cache, t.groups = s.groups, t.order = s.order,
         DOMAIN t.floors = DOMAIN s.floors,
         \A f \in DOMAIN s.floors :
           /\ t.floors[f].level = s.floors[f].level /\ t.floors[f].name = s.floors[f].name
           /\ t.floors[f].printers \subseteq s.floors[f].printers
  PROVE  /\ Sound(t)
         /\ Tidy(s) /\ t.store = s.store => Kept(s, t)
<1>1. OnePlaceOn(t.floors) /\ LevelsDiffer(t.floors) BY FewerPlaces DEF Sound
<1>2. PlacesKnown(t) BY DEF Sound, PlacesKnown
<1>3. GroupsKnown(t) /\ CacheFollows(t) BY DEF Sound, GroupsKnown, CacheFollows
<1>4. Sound(t) BY <1>1, <1>2, <1>3 DEF Sound
<1>5. StoreFollows(s) /\ t.store = s.store => StoreFollows(t)
  BY DEF StoreFollows, StoreShows
<1>6. QED BY <1>4, <1>5 DEF Kept, Tidy

\* A floor with other places.
LEMMA FloorWith ==
  ASSUME NEW floor \in Floor, NEW places \in SUBSET Position
  PROVE  /\ [floor EXCEPT !.printers = places] \in Floor
         /\ [floor EXCEPT !.printers = places].printers = places
         /\ [floor EXCEPT !.printers = places].level = floor.level
         /\ [floor EXCEPT !.printers = places].name = floor.name
BY DEF Floor

\* Printers taken off: the floors of a farm, their places filtered.
LEMMA TakeOffIs ==
  ASSUME NEW s \in Farms, NEW places, NEW t, t = TakeOff(s, places)
  PROVE  /\ t \in Farms
         /\ t.printers = s.printers /\ t.cache = s.cache
         /\ t.store = s.store /\ t.groups = s.groups /\ t.order = s.order
         /\ DOMAIN t.floors = DOMAIN s.floors
         /\ \A f \in DOMAIN s.floors :
              /\ t.floors[f] \in Floor
              /\ t.floors[f].level = s.floors[f].level /\ t.floors[f].name = s.floors[f].name
              /\ t.floors[f].printers = {pos \in s.floors[f].printers : <<f, pos>> \notin places}
<1> DEFINE left(f) == {pos \in s.floors[f].printers : <<f, pos>> \notin places}
           floors == [f \in DOMAIN s.floors |-> [s.floors[f] EXCEPT !.printers = left(f)]]
<1>1. t = WithFloors(s, floors)
  <2>1. t = [s EXCEPT !.floors = [f \in DOMAIN s.floors |->
              [s.floors[f] EXCEPT !.printers = {pos \in s.floors[f].printers : <<f, pos>> \notin places}]]]
    BY DEF TakeOff
  <2>2. floors = [f \in DOMAIN s.floors |->
              [s.floors[f] EXCEPT !.printers = {pos \in s.floors[f].printers : <<f, pos>> \notin places}]]
    OBVIOUS
  <2>3. QED BY <2>1, <2>2 DEF WithFloors
<1>2. s.floors \in FloorRows /\ \A f \in DOMAIN s.floors : s.floors[f] \in Floor
  BY FarmTables
<1>3. ASSUME NEW f \in DOMAIN s.floors
      PROVE  /\ floors[f] \in Floor
             /\ floors[f].level = s.floors[f].level /\ floors[f].name = s.floors[f].name
             /\ floors[f].printers = left(f)
  <2>1. s.floors[f] \in Floor /\ left(f) \in SUBSET Position BY <1>2 DEF Floor
  <2>2. floors[f] = [s.floors[f] EXCEPT !.printers = left(f)] OBVIOUS
  <2> HIDE DEF floors, left
  <2>3. QED BY <2>1, <2>2, FloorWith
<1>4. DOMAIN floors = DOMAIN s.floors /\ floors = [f \in DOMAIN floors |-> floors[f]]
  OBVIOUS
<1> HIDE DEF floors
<1>5. floors \in FloorRows BY <1>2, <1>3, <1>4, MapTable DEF FloorRows
<1>6. /\ t \in Farms /\ t.floors = floors
      /\ t.printers = s.printers /\ t.cache = s.cache
      /\ t.store = s.store /\ t.groups = s.groups /\ t.order = s.order
  BY <1>1, <1>5, WithFloorsIs
<1>7. QED BY <1>3, <1>4, <1>6

LEMMA TakeOffKeeps ==
  ASSUME NEW s, Sound(s), NEW places
  PROVE  /\ Sound(TakeOff(s, places))
         /\ Tidy(s) => Kept(s, TakeOff(s, places))
<1> DEFINE t == TakeOff(s, places)
<1> HIDE DEF t
<1>1. s \in Farms BY DEF Sound
<1>2. /\ t \in Farms
      /\ t.printers = s.printers /\ t.cache = s.cache /\ t.store = s.store
      /\ t.groups = s.groups /\ t.order = s.order
      /\ DOMAIN t.floors = DOMAIN s.floors
      /\ \A f \in DOMAIN s.floors :
           /\ t.floors[f].level = s.floors[f].level /\ t.floors[f].name = s.floors[f].name
           /\ t.floors[f].printers = {pos \in s.floors[f].printers : <<f, pos>> \notin places}
  BY <1>1, TakeOffIs DEF t
<1>3. \A f \in DOMAIN s.floors : t.floors[f].printers \subseteq s.floors[f].printers BY <1>2
<1>4. Sound(t) /\ (Tidy(s) => Kept(s, t)) BY <1>2, <1>3, FewerKeeps
<1>5. QED BY <1>4 DEF t

---------------------------------------------------------------------------
(* The floor store                                                         *)

\* A floor of the database in the store.
LEMMA StoreFloorIs ==
  ASSUME NEW s \in Farms, NEW f \in FloorIds, NEW floor \in Floor, NEW t, t = StoreFloor(s, f, floor)
  PROVE  /\ t \in Farms
         /\ t.printers = s.printers /\ t.cache = s.cache
         /\ t.floors = s.floors /\ t.groups = s.groups /\ t.order = s.order
         /\ DOMAIN t.store = DOMAIN s.store \cup {f} /\ t.store[f] = floor
         /\ \A g \in DOMAIN s.store : g # f => t.store[g] = s.store[g]
<1> DEFINE store == Put(s.store, f, floor)
<1>1. /\ DOMAIN store = DOMAIN s.store \cup {f} /\ store[f] = floor
      /\ \A g \in DOMAIN s.store : g # f => store[g] = s.store[g]
  BY DEF Put
<1>2. s.store \in FloorRows BY FarmTables
<1>3. store \in FloorRows BY <1>2, PutTable DEF FloorRows
<1>4. t = [s EXCEPT !.store = store] BY DEF StoreFloor
<1> HIDE DEF store
<1>5. /\ t \in Farms /\ t.store = store
      /\ t.printers = s.printers /\ t.cache = s.cache
      /\ t.floors = s.floors /\ t.groups = s.groups /\ t.order = s.order
  BY <1>3, <1>4 DEF Farms
<1>6. QED BY <1>1, <1>5

LEMMA StoreFloorKeeps ==
  ASSUME NEW s, Sound(s), NEW f \in DOMAIN s.floors, DOMAIN s.store \subseteq DOMAIN s.floors,
         NEW t, t = StoreFloor(s, f, s.floors[f])
  PROVE  /\ Tidy(t) /\ t.order = s.order
         /\ (\A g \in DOMAIN s.floors : g # f => StoreShows(s, g)) => StoreFollows(t)
<1>1. s \in Farms /\ f \in FloorIds /\ s.floors[f] \in Floor BY FarmTables DEF Sound
<1>2. /\ t \in Farms
      /\ t.printers = s.printers /\ t.cache = s.cache
      /\ t.floors = s.floors /\ t.groups = s.groups /\ t.order = s.order
      /\ DOMAIN t.store = DOMAIN s.store \cup {f} /\ t.store[f] = s.floors[f]
      /\ \A g \in DOMAIN s.store : g # f => t.store[g] = s.store[g]
  BY <1>1, StoreFloorIs
<1>3. Tidy(t) BY <1>2 DEF Tidy, Sound, PlacesKnown, GroupsKnown, CacheFollows
<1>4. ASSUME \A g \in DOMAIN s.floors : g # f => StoreShows(s, g)
      PROVE  StoreFollows(t)
  <2>1. ASSUME NEW g \in DOMAIN t.floors PROVE StoreShows(t, g)
    <3>1. CASE g = f BY <3>1, <1>2 DEF StoreShows
    <3>2. CASE g # f
      <4>1. g \in DOMAIN s.floors BY <2>1, <1>2
      <4>2. StoreShows(s, g) /\ g \in DOMAIN s.store BY <1>4, <3>2, <4>1 DEF StoreShows
      <4>3. t.store[g] = s.store[g] /\ t.floors[g] = s.floors[g] BY <1>2, <3>2, <4>2
      <4>4. QED BY <4>2, <4>3, <1>2 DEF StoreShows
    <3>3. QED BY <3>1, <3>2
  <2>2. QED BY <2>1 DEF StoreFollows
<1>5. QED BY <1>2, <1>3, <1>4

\* loadStore with all floors of the database.
LEMMA StoreFloorsKeeps ==
  ASSUME NEW s, Sound(s), DOMAIN s.store \subseteq DOMAIN s.floors, NEW t, t = StoreFloors(s, s.floors)
  PROVE  /\ Tidy(t) /\ StoreFollows(t)
         /\ t.printers = s.printers /\ t.cache = s.cache /\ t.order = s.order
         /\ t.floors = s.floors /\ t.groups = s.groups /\ t.store = s.floors
<1>1. s \in Farms /\ s.floors \in FloorRows /\ s.store \in FloorRows BY FarmTables DEF Sound
<1> DEFINE store == Overlaid(s.floors, s.store)
<1>2. DOMAIN store = DOMAIN s.floors /\ \A f \in DOMAIN s.floors : store[f] = s.floors[f]
  BY DEF Overlaid
<1>3. store \in FloorRows BY <1>1, OverlaidTable DEF FloorRows
<1>4. t = [s EXCEPT !.store = store] BY DEF StoreFloors
<1> HIDE DEF store
<1>5. store = s.floors BY <1>1, <1>2, <1>3, SameTable DEF FloorRows
<1>6. /\ t \in Farms /\ t.store = s.floors
      /\ t.printers = s.printers /\ t.cache = s.cache /\ t.order = s.order
      /\ t.floors = s.floors /\ t.groups = s.groups
  BY <1>1, <1>4, <1>5 DEF Farms
<1>7. StoreFollows(t) BY <1>6 DEF StoreFollows, StoreShows
<1>8. Tidy(t) BY <1>6 DEF Tidy, Sound, PlacesKnown, GroupsKnown, CacheFollows
<1>9. QED BY <1>6, <1>7, <1>8

\* A floor without printers, at a level no floor has.
LEMMA AddFloorIs ==
  ASSUME NEW s, Sound(s), NEW f \in FloorIds, f \notin DOMAIN s.floors, NEW name \in FloorNames,
         NEW level \in Levels, ~LevelTaken(s, level), NEW t, t = AddFloor(s, f, NewFloor(name, level, {}))
  PROVE  /\ Sound(t)
         /\ t.printers = s.printers /\ t.cache = s.cache
         /\ t.store = s.store /\ t.groups = s.groups /\ t.order = s.order
         /\ DOMAIN t.floors = DOMAIN s.floors \cup {f} /\ t.floors[f] = NewFloor(name, level, {})
         /\ \A g \in DOMAIN s.floors : t.floors[g] = s.floors[g]
<1> DEFINE floors == Put(s.floors, f, NewFloor(name, level, {}))
<1>1. s \in Farms /\ s.floors \in FloorRows BY FarmTables DEF Sound
<1>2. NewFloor(name, level, {}) \in Floor BY DEF NewFloor, Floor
<1>3. floors \in FloorRows BY <1>1, <1>2, PutTable DEF FloorRows
<1>4. /\ DOMAIN floors = DOMAIN s.floors \cup {f} /\ floors[f] = NewFloor(name, level, {})
      /\ \A g \in DOMAIN s.floors : floors[g] = s.floors[g]
  BY DEF Put
<1>5. t = WithFloors(s, floors) BY DEF AddFloor, WithFloors
<1> HIDE DEF floors
<1>6. /\ t \in Farms /\ t.floors = floors
      /\ t.printers = s.printers /\ t.cache = s.cache
      /\ t.store = s.store /\ t.groups = s.groups /\ t.order = s.order
  BY <1>1, <1>3, <1>5, WithFloorsIs
<1>7. floors[f].printers = {} /\ floors[f].level = level BY <1>4 DEF NewFloor
<1>8. LevelsDiffer(t.floors)
  <2>1. ASSUME NEW g \in DOMAIN floors, NEW h \in DOMAIN floors, floors[g].level = floors[h].level
        PROVE  g = h
    <3>1. LevelsDiffer(s.floors) /\ \A k \in DOMAIN s.floors : s.floors[k].level # level
      BY DEF Sound, LevelTaken
    <3>2. QED BY <2>1, <3>1, <1>4, <1>7 DEF LevelsDiffer
  <2>2. QED BY <2>1, <1>6 DEF LevelsDiffer
<1>9. OnePlaceOn(t.floors)
  <2>1. ASSUME NEW g \in DOMAIN floors, NEW h \in DOMAIN floors,
               NEW a \in floors[g].printers, NEW b \in floors[h].printers
        PROVE  /\ a.printer = b.printer => g = h /\ a = b
               /\ g = h /\ a.cell = b.cell => a = b
    <3>1. /\ g \in DOMAIN s.floors /\ h \in DOMAIN s.floors
          /\ a \in s.floors[g].printers /\ b \in s.floors[h].printers
      BY <2>1, <1>4, <1>7
    <3>2. QED BY <3>1 DEF Sound, OnePlaceOn
  <2>2. QED BY <2>1, <1>6 DEF OnePlaceOn
<1>10. PlacesKnown(t) BY <1>4, <1>6, <1>7 DEF PlacesKnown, Sound
<1>11. GroupsKnown(t) /\ CacheFollows(t) BY <1>6 DEF Sound, GroupsKnown, CacheFollows
<1>12. QED BY <1>4, <1>6, <1>8, <1>9, <1>10, <1>11 DEF Sound

\* The mode of a run, and the names that the server gives.
LEMMA DefaultFloor ==
  DefaultName \in FloorNames /\ DefaultLevel \in Levels
BY WhatClientsSend DEF DefaultName, DefaultLevel

\* DELETE /floor.
LEMMA OrmDeleteFloorKeeps ==
  ASSUME NEW s, Tidy(s), NEW f
  PROVE  Kept(s, DropFloor(OrmDeleteFloor(s, f), f))
<1> DEFINE t == DropFloor(OrmDeleteFloor(s, f), f)
           floors == Restrict(s.floors, DOMAIN s.floors \ {f})
           store == Restrict(s.store, DOMAIN s.store \ {f})
<1>1. s \in Farms /\ s.floors \in FloorRows /\ s.store \in FloorRows /\ DOMAIN s.store \subseteq DOMAIN s.floors
  BY FarmTables DEF Sound, Tidy
<1>2. /\ DOMAIN floors = DOMAIN s.floors \ {f} /\ DOMAIN store = DOMAIN s.store \ {f}
      /\ \A g \in DOMAIN s.floors \ {f} : floors[g] = s.floors[g]
      /\ \A g \in DOMAIN s.store \ {f} : store[g] = s.store[g]
  BY DEF Restrict
<1>3. floors \in FloorRows /\ store \in FloorRows BY <1>1, RestrictTable DEF FloorRows
<1>4. t = [[s EXCEPT !.floors = floors] EXCEPT !.store = store]
  BY <1>1 DEF OrmDeleteFloor, DropFloor, Farms
<1> HIDE DEF t, floors, store
<1>5. /\ t \in Farms /\ t.floors = floors /\ t.store = store
      /\ t.printers = s.printers /\ t.cache = s.cache /\ t.groups = s.groups /\ t.order = s.order
  BY <1>1, <1>3, <1>4 DEF Farms
<1>6. OnePlaceOn(t.floors) /\ LevelsDiffer(t.floors)
  <2>1. DOMAIN floors \subseteq DOMAIN s.floors BY <1>2
  <2>2. \A g \in DOMAIN floors : floors[g].level = s.floors[g].level /\ floors[g].printers \subseteq s.floors[g].printers
    BY <1>2
  <2>3. QED BY <1>5, <2>1, <2>2, FewerPlaces DEF Sound, Tidy
<1>7. PlacesKnown(t) BY <1>2, <1>5 DEF Sound, PlacesKnown, Tidy
<1>8. GroupsKnown(t) /\ CacheFollows(t) BY <1>5 DEF Sound, GroupsKnown, CacheFollows, Tidy
<1>9. StoreFollows(s) => StoreFollows(t) BY <1>1, <1>2, <1>5 DEF StoreFollows, StoreShows
<1>10. DOMAIN t.store \subseteq DOMAIN t.floors BY <1>1, <1>2, <1>5
<1>11. Tidy(t) BY <1>5, <1>6, <1>7, <1>8, <1>10 DEF Tidy, Sound
<1>12. QED BY <1>5, <1>9, <1>11 DEF Kept, t

\* A table without the printers of ps, in the rows of which they may be.
WithRegistry(s, rows, floors, groups) ==
  [s EXCEPT !.printers = rows, !.floors = floors, !.groups = groups]

LEMMA OrmDeleteRowsIs ==
  ASSUME NEW s \in Farms, NEW ps, NEW t, t = OrmDeleteRows(s, ps)
  PROVE  /\ t \in Farms
         /\ t.cache = s.cache /\ t.store = s.store /\ t.order = s.order
         /\ DOMAIN t.printers = DOMAIN s.printers \ ps
         /\ \A p \in DOMAIN s.printers \ ps : t.printers[p] = s.printers[p]
         /\ DOMAIN t.floors = DOMAIN s.floors
         /\ \A f \in DOMAIN s.floors :
              /\ t.floors[f].level = s.floors[f].level /\ t.floors[f].name = s.floors[f].name
              /\ t.floors[f].printers = {pos \in s.floors[f].printers : pos.printer \notin ps}
         /\ DOMAIN t.groups = DOMAIN s.groups
         /\ \A g \in DOMAIN s.groups :
              /\ t.groups[g].name = s.groups[g].name
              /\ t.groups[g].printers = s.groups[g].printers \ ps
<1> DEFINE rows == Restrict(s.printers, DOMAIN s.printers \ ps)
           left(f) == {pos \in s.floors[f].printers : pos.printer \notin ps}
           floors == [f \in DOMAIN s.floors |-> [s.floors[f] EXCEPT !.printers = left(f)]]
           groups == [g \in DOMAIN s.groups |->
                        [s.groups[g] EXCEPT !.printers = s.groups[g].printers \ ps]]
<1>1. /\ s.printers \in Printers /\ s.floors \in FloorRows /\ s.groups \in GroupRows
      /\ \A f \in DOMAIN s.floors : s.floors[f] \in Floor
      /\ \A g \in DOMAIN s.groups : s.groups[g] \in Group
  BY FarmTables
<1>2. /\ DOMAIN rows = DOMAIN s.printers \ ps
      /\ \A p \in DOMAIN s.printers \ ps : rows[p] = s.printers[p]
  BY DEF Restrict
<1>3. rows \in Printers BY <1>1, RestrictTable DEF Printers
<1>4. ASSUME NEW f \in DOMAIN s.floors
      PROVE  /\ floors[f] \in Floor
             /\ floors[f].level = s.floors[f].level /\ floors[f].name = s.floors[f].name
             /\ floors[f].printers = left(f)
  <2>1. s.floors[f] \in Floor /\ left(f) \in SUBSET Position BY <1>1 DEF Floor
  <2>2. floors[f] = [s.floors[f] EXCEPT !.printers = left(f)] OBVIOUS
  <2> HIDE DEF floors, left
  <2>3. QED BY <2>1, <2>2, FloorWith
<1>5. DOMAIN floors = DOMAIN s.floors /\ floors = [f \in DOMAIN floors |-> floors[f]]
  OBVIOUS
<1>6. ASSUME NEW g \in DOMAIN s.groups
      PROVE  /\ groups[g] \in Group
             /\ groups[g].name = s.groups[g].name
             /\ groups[g].printers = s.groups[g].printers \ ps
  BY <1>1 DEF Group
<1>7. DOMAIN groups = DOMAIN s.groups /\ groups = [g \in DOMAIN groups |-> groups[g]]
  OBVIOUS
<1>8. t = WithRegistry(s, rows, floors, groups) BY DEF OrmDeleteRows, WithRegistry
<1> HIDE DEF rows, floors, groups
<1>9. floors \in FloorRows BY <1>1, <1>4, <1>5, MapTable DEF FloorRows
<1>10. groups \in GroupRows BY <1>1, <1>6, <1>7, MapTable DEF GroupRows
<1>11. /\ t \in Farms /\ t.printers = rows /\ t.floors = floors /\ t.groups = groups
       /\ t.cache = s.cache /\ t.store = s.store /\ t.order = s.order
  BY <1>3, <1>8, <1>9, <1>10 DEF WithRegistry, Farms
<1>12. /\ DOMAIN t.printers = DOMAIN s.printers \ ps
       /\ \A p \in DOMAIN s.printers \ ps : t.printers[p] = s.printers[p]
       /\ DOMAIN t.floors = DOMAIN s.floors /\ DOMAIN t.groups = DOMAIN s.groups
  BY <1>2, <1>5, <1>7, <1>11
<1>13. QED BY <1>4, <1>6, <1>11, <1>12

\* The printers of ps taken out of the cache.
LEMMA DeleteKeysIs ==
  ASSUME NEW s \in Farms, NEW ps, NEW t, t = HandlePrintersDeleted(s, ps)
  PROVE  /\ t \in Farms
         /\ t.printers = s.printers /\ t.floors = s.floors /\ t.store = s.store
         /\ t.groups = s.groups /\ t.order = s.order
         /\ DOMAIN t.cache = DOMAIN s.cache \ ps
         /\ \A p \in DOMAIN s.cache \ ps : t.cache[p] = s.cache[p]
<1> DEFINE cache == Restrict(s.cache, DOMAIN s.cache \ ps)
<1>1. s.cache \in Printers BY FarmTables
<1>2. DOMAIN cache = DOMAIN s.cache \ ps /\ \A p \in DOMAIN s.cache \ ps : cache[p] = s.cache[p]
  BY DEF Restrict
<1>3. cache \in Printers BY <1>1, RestrictTable DEF Printers
<1>4. t = [s EXCEPT !.cache = cache] BY DEF HandlePrintersDeleted, DeleteKeysBatch
<1> HIDE DEF cache
<1>5. /\ t \in Farms /\ t.cache = cache
      /\ t.printers = s.printers /\ t.floors = s.floors /\ t.store = s.store
      /\ t.groups = s.groups /\ t.order = s.order
  BY <1>3, <1>4 DEF Farms
<1>6. QED BY <1>2, <1>5

\* DELETE of one printer or of all.
LEMMA OrmDeleteKeeps ==
  ASSUME NEW s, Tidy(s), NEW ps
  PROVE  Kept(s, OrmDeleteMany(s, ps))
<1> DEFINE r == OrmDeleteRows(s, ps)
           t == HandlePrintersDeleted(r, ps)
<1>1. s \in Farms BY DEF Tidy, Sound
<1> HIDE DEF r, t
<1>2. /\ r \in Farms
      /\ r.cache = s.cache /\ r.store = s.store /\ r.order = s.order
      /\ DOMAIN r.printers = DOMAIN s.printers \ ps
      /\ \A p \in DOMAIN s.printers \ ps : r.printers[p] = s.printers[p]
      /\ DOMAIN r.floors = DOMAIN s.floors
      /\ \A f \in DOMAIN s.floors :
           /\ r.floors[f].level = s.floors[f].level /\ r.floors[f].name = s.floors[f].name
           /\ r.floors[f].printers = {pos \in s.floors[f].printers : pos.printer \notin ps}
      /\ DOMAIN r.groups = DOMAIN s.groups
      /\ \A g \in DOMAIN s.groups : r.groups[g].printers = s.groups[g].printers \ ps
  BY <1>1, OrmDeleteRowsIs DEF r
<1>3. /\ t \in Farms
      /\ t.printers = r.printers /\ t.floors = r.floors /\ t.store = r.store
      /\ t.groups = r.groups /\ t.order = r.order
      /\ DOMAIN t.cache = DOMAIN r.cache \ ps
      /\ \A p \in DOMAIN r.cache \ ps : t.cache[p] = r.cache[p]
  BY <1>2, DeleteKeysIs DEF t
<1>4. OnePlaceOn(t.floors) /\ LevelsDiffer(t.floors)
  <2>1. OnePlaceOn(s.floors) /\ LevelsDiffer(s.floors) BY DEF Tidy, Sound
  <2>2. /\ DOMAIN t.floors = DOMAIN s.floors
        /\ \A f \in DOMAIN t.floors : /\ t.floors[f].level = s.floors[f].level
                                       /\ t.floors[f].printers \subseteq s.floors[f].printers
    BY <1>2, <1>3
  <2>3. QED BY <2>1, <2>2, FewerPlaces
<1>5. PlacesKnown(t)
  <2>1. ASSUME NEW f \in DOMAIN t.floors, NEW pos \in t.floors[f].printers
        PROVE  pos.printer \in DOMAIN t.printers
    <3>1. f \in DOMAIN s.floors /\ pos \in s.floors[f].printers /\ pos.printer \notin ps
      BY <2>1, <1>2, <1>3
    <3>2. pos.printer \in DOMAIN s.printers BY <3>1 DEF Tidy, Sound, PlacesKnown
    <3>3. QED BY <3>1, <3>2, <1>2, <1>3
  <2>2. QED BY <2>1 DEF PlacesKnown
<1>6. GroupsKnown(t) BY <1>2, <1>3 DEF Tidy, Sound, GroupsKnown
<1>7. CacheFollows(t)
  <2>1. CacheFollows(s) BY DEF Tidy, Sound
  <2>2. DOMAIN t.cache = DOMAIN t.printers BY <2>1, <1>2, <1>3 DEF CacheFollows
  <2>3. ASSUME NEW p \in DOMAIN t.cache
        PROVE  t.cache[p] = s.cache[p] /\ t.printers[p] = s.printers[p] /\ p \in DOMAIN s.cache
    BY <2>1, <1>2, <1>3 DEF CacheFollows
  <2>4. QED BY <2>1, <2>2, <2>3 DEF CacheFollows
<1>8. StoreFollows(s) => StoreFollows(t)
  <2>1. ASSUME StoreFollows(s), NEW f \in DOMAIN t.floors PROVE StoreShows(t, f)
    <3>1. f \in DOMAIN s.floors BY <2>1, <1>2, <1>3
    <3>2. StoreShows(s, f) BY <2>1, <3>1 DEF StoreFollows
    <3>3. t.floors[f].printers \subseteq s.floors[f].printers BY <3>1, <1>2, <1>3
    <3>4. QED BY <3>1, <3>2, <3>3, <1>2, <1>3 DEF StoreShows
  <2>2. QED BY <2>1 DEF StoreFollows
<1>9. DOMAIN t.store \subseteq DOMAIN t.floors BY <1>2, <1>3 DEF Tidy
<1>10. Kept(s, t) BY <1>2, <1>3, <1>4, <1>5, <1>6, <1>7, <1>8, <1>9 DEF Kept, Tidy, Sound
<1>11. QED BY <1>10 DEF OrmDeleteMany, r, t

---------------------------------------------------------------------------
(* Places with SQLite                                                      *)

\* t has what s has, but the places of floor f and fewer places on the others.
Rearranged(s, t, f) ==
  /\ t \in Farms
  /\ t.printers = s.printers /\ t.cache = s.cache
  /\ t.store = s.store /\ t.groups = s.groups /\ t.order = s.order
  /\ DOMAIN t.floors = DOMAIN s.floors
  /\ \A g \in DOMAIN s.floors :
       /\ t.floors[g].level = s.floors[g].level /\ t.floors[g].name = s.floors[g].name
       /\ g # f => t.floors[g].printers \subseteq s.floors[g].printers

\* The places of a floor when p was given the cell.
Joined(places, p, cell) ==
  {q \in places : q.printer # p /\ q.cell # cell} \cup {[printer |-> p, cell |-> cell]}

\* On the other floors only ps may lose their places.
Stay(s, t, f, ps) ==
  \A g \in DOMAIN s.floors \ {f} : \A pos \in s.floors[g].printers :
    pos.printer \notin ps => pos \in t.floors[g].printers

\* A floor with one more place.
AddPlace(s, f, pos) == [s EXCEPT !.floors[f].printers = @ \cup {pos}]

LEMMA AddPlaceIs ==
  ASSUME NEW s \in Farms, NEW f \in DOMAIN s.floors, NEW pos \in Position,
         NEW t, t = AddPlace(s, f, pos)
  PROVE  /\ t \in Farms
         /\ t.printers = s.printers /\ t.cache = s.cache
         /\ t.store = s.store /\ t.groups = s.groups /\ t.order = s.order
         /\ DOMAIN t.floors = DOMAIN s.floors
         /\ t.floors[f].level = s.floors[f].level /\ t.floors[f].name = s.floors[f].name
         /\ t.floors[f].printers = s.floors[f].printers \cup {pos}
         /\ \A g \in DOMAIN s.floors : g # f => t.floors[g] = s.floors[g]
<1> DEFINE floor == [s.floors[f] EXCEPT !.printers = s.floors[f].printers \cup {pos}]
           floors == [s.floors EXCEPT ![f] = floor]
<1>1. s.floors \in FloorRows /\ s.floors[f] \in Floor BY FarmTables
<1>2. s.floors[f].printers \cup {pos} \in SUBSET Position BY <1>1 DEF Floor
<1>3. /\ floor \in Floor /\ floor.printers = s.floors[f].printers \cup {pos}
      /\ floor.level = s.floors[f].level /\ floor.name = s.floors[f].name
  BY <1>1, <1>2, FloorWith
<1>4. t = WithFloors(s, floors) BY DEF WithFloors, AddPlace
<1> HIDE DEF floor
<1>5. floors \in FloorRows /\ floors = Put(s.floors, f, floor)
  BY <1>1, <1>3, SetTable DEF FloorRows
<1> HIDE DEF floors
<1>6. /\ DOMAIN floors = DOMAIN s.floors /\ floors[f] = floor
      /\ \A g \in DOMAIN s.floors : g # f => floors[g] = s.floors[g]
  BY <1>5 DEF Put
<1>7. /\ t \in Farms /\ t.floors = floors
      /\ t.printers = s.printers /\ t.cache = s.cache
      /\ t.store = s.store /\ t.groups = s.groups /\ t.order = s.order
  BY <1>4, <1>5, WithFloorsIs
<1>8. QED BY <1>3, <1>6, <1>7

\* addOrUpdatePrinter, without its shortcut ...
LEMMA PlacePrinterIs ==
  ASSUME NEW s, Sound(s), NEW f \in DOMAIN s.floors, NEW p \in PrinterIds, NEW cell \in Cells
  PROVE  /\ Sound(PlacePrinter(s, f, p, cell))
         /\ Rearranged(s, PlacePrinter(s, f, p, cell), f)
         /\ Stay(s, PlacePrinter(s, f, p, cell), f, {p})
         /\ p \in DOMAIN s.printers =>
              PlacePrinter(s, f, p, cell).floors[f].printers = Joined(s.floors[f].printers, p, cell)
<1> DEFINE t == PlacePrinter(s, f, p, cell)
           occupants == {<<f, pos>> : pos \in {q \in s.floors[f].printers : q.cell = cell}}
           gone == PlacesOf(s, p) \cup occupants
           freed == TakeOff(s, gone)
           new == [printer |-> p, cell |-> cell]
           added == AddPlace(freed, f, new)
<1>1. s \in Farms /\ (\A g \in DOMAIN s.floors : s.floors[g] \in Floor)
  BY FarmTables DEF Sound
<1>2. t = IF p \in DOMAIN s.printers THEN added ELSE freed BY DEF PlacePrinter, AddPlace
<1> HIDE DEF t, freed, gone
<1>3. /\ freed \in Farms
      /\ freed.printers = s.printers /\ freed.cache = s.cache
      /\ freed.store = s.store /\ freed.groups = s.groups /\ freed.order = s.order
      /\ DOMAIN freed.floors = DOMAIN s.floors
      /\ \A g \in DOMAIN s.floors :
           /\ freed.floors[g].level = s.floors[g].level /\ freed.floors[g].name = s.floors[g].name
           /\ freed.floors[g].printers = {pos \in s.floors[g].printers : <<g, pos>> \notin gone}
  BY <1>1, TakeOffIs DEF freed
<1>4. Sound(freed) BY TakeOffKeeps DEF freed
<1>5. Rearranged(s, freed, f) /\ Stay(s, freed, f, {p})
  <2>1. Rearranged(s, freed, f) BY <1>3 DEF Rearranged
  <2>2. ASSUME NEW g \in DOMAIN s.floors \ {f}, NEW pos \in s.floors[g].printers, pos.printer # p
        PROVE  pos \in freed.floors[g].printers
    <3>1. <<g, pos>> \notin gone BY <2>2 DEF gone, PlacesOf
    <3>2. QED BY <1>3, <2>2, <3>1
  <2>3. QED BY <2>1, <2>2 DEF Stay
<1>6. CASE p \notin DOMAIN s.printers BY <1>2, <1>4, <1>5, <1>6 DEF t
<1>7. CASE p \in DOMAIN s.printers
  <2>1. t = added BY <1>2, <1>7
  <2>2. new \in Position BY DEF Position
  <2> HIDE DEF new
  <2>3. /\ t \in Farms
        /\ t.printers = s.printers /\ t.cache = s.cache
        /\ t.store = s.store /\ t.groups = s.groups /\ t.order = s.order
        /\ DOMAIN t.floors = DOMAIN s.floors
        /\ t.floors[f].level = s.floors[f].level /\ t.floors[f].name = s.floors[f].name
        /\ t.floors[f].printers = freed.floors[f].printers \cup {new}
        /\ \A g \in DOMAIN s.floors : g # f => t.floors[g] = freed.floors[g]
    BY <1>3, <2>1, <2>2, AddPlaceIs
  <2>4. Rearranged(s, t, f) /\ Stay(s, t, f, {p}) BY <1>5, <2>3 DEF Rearranged, Stay
  <2>5. new.printer = p /\ new.cell = cell BY DEF new
  <2>6. \A g \in DOMAIN s.floors : \A pos \in freed.floors[g].printers : pos.printer # p
    <3>1. SUFFICES ASSUME NEW g \in DOMAIN s.floors, NEW pos \in freed.floors[g].printers, pos.printer = p
                   PROVE  FALSE
      OBVIOUS
    <3>2. pos \in s.floors[g].printers /\ <<g, pos>> \notin gone /\ pos \in Position
      BY <1>1, <1>3, <3>1 DEF Floor
    <3>3. <<g, pos>> \in PlacesOf(s, p) BY <3>1, <3>2 DEF PlacesOf
    <3>4. QED BY <3>2, <3>3 DEF gone
  <2>7. \A pos \in freed.floors[f].printers : pos.cell # cell
    <3>1. SUFFICES ASSUME NEW pos \in freed.floors[f].printers, pos.cell = cell PROVE FALSE
      OBVIOUS
    <3>2. pos \in s.floors[f].printers /\ <<f, pos>> \notin gone BY <1>3
    <3>3. <<f, pos>> \in occupants BY <3>1, <3>2
    <3>4. QED BY <3>2, <3>3 DEF gone
  <2>8. t.floors[f].printers = Joined(s.floors[f].printers, p, cell)
    <3>1. ASSUME NEW pos \in s.floors[f].printers, pos.printer # p, pos.cell # cell
          PROVE  pos \in freed.floors[f].printers
      <4>1. <<f, pos>> \notin PlacesOf(s, p) /\ <<f, pos>> \notin occupants
        BY <3>1 DEF PlacesOf
      <4>2. QED BY <4>1, <1>3 DEF gone
    <3>2. freed.floors[f].printers \subseteq s.floors[f].printers BY <1>3
    <3> HIDE DEF occupants
    <3>3. freed.floors[f].printers = {q \in s.floors[f].printers : q.printer # p /\ q.cell # cell}
      BY <2>6, <2>7, <3>1, <3>2
    <3>4. QED BY <2>3, <3>3 DEF Joined, new
  <2>9. OnePlaceOn(t.floors)
    <3>1. ASSUME NEW g \in DOMAIN t.floors, NEW h \in DOMAIN t.floors,
                 NEW a \in t.floors[g].printers, NEW b \in t.floors[h].printers
          PROVE  /\ a.printer = b.printer => g = h /\ a = b
                 /\ g = h /\ a.cell = b.cell => a = b
      <4>1. /\ a \in freed.floors[g].printers \/ (g = f /\ a = new)
            /\ b \in freed.floors[h].printers \/ (h = f /\ b = new)
        BY <3>1, <2>3
      <4>2. g \in DOMAIN freed.floors /\ h \in DOMAIN freed.floors BY <3>1, <2>3, <1>3
      <4>3. CASE a \in freed.floors[g].printers /\ b \in freed.floors[h].printers
        BY <1>4, <4>2, <4>3 DEF Sound, OnePlaceOn
      <4>4. CASE g = f /\ a = new /\ h = f /\ b = new BY <4>4
      <4>5. CASE a \in freed.floors[g].printers /\ h = f /\ b = new
        BY <4>2, <4>5, <2>5, <2>6, <2>7, <1>3
      <4>6. CASE b \in freed.floors[h].printers /\ g = f /\ a = new
        BY <4>2, <4>6, <2>5, <2>6, <2>7, <1>3
      <4>7. QED BY <4>1, <4>3, <4>4, <4>5, <4>6
    <3>2. QED BY <3>1 DEF OnePlaceOn
  <2>10. LevelsDiffer(t.floors) BY <1>3, <2>3 DEF LevelsDiffer, Sound
  <2>11. PlacesKnown(t)
    <3>1. ASSUME NEW g \in DOMAIN t.floors, NEW pos \in t.floors[g].printers
          PROVE  pos.printer \in DOMAIN t.printers
      <4>1. pos \in freed.floors[g].printers \/ pos = new BY <3>1, <2>3
      <4>2. CASE pos = new BY <4>2, <2>3, <2>5, <1>7
      <4>3. CASE pos \in freed.floors[g].printers
        BY <4>3, <3>1, <2>3, <1>3, <1>4 DEF Sound, PlacesKnown
      <4>4. QED BY <4>1, <4>2, <4>3
    <3>2. QED BY <3>1 DEF PlacesKnown
  <2>12. GroupsKnown(t) /\ CacheFollows(t) BY <2>3 DEF Sound, GroupsKnown, CacheFollows
  <2>13. Sound(t) BY <2>3, <2>9, <2>10, <2>11, <2>12 DEF Sound
  <2>14. QED BY <2>4, <2>8, <2>13 DEF t
<1>8. QED BY <1>6, <1>7

\* ... and with it.
LEMMA OrmPlaceIs ==
  ASSUME NEW s, Sound(s), NEW f \in DOMAIN s.floors, NEW p \in PrinterIds, NEW cell \in Cells
  PROVE  /\ Sound(OrmAddOrUpdatePrinter(s, f, p, cell))
         /\ Rearranged(s, OrmAddOrUpdatePrinter(s, f, p, cell), f)
         /\ Stay(s, OrmAddOrUpdatePrinter(s, f, p, cell), f, {p})
<1>1. Rearranged(s, s, f) /\ Stay(s, s, f, {p}) BY DEF Rearranged, Stay, Sound
<1>2. QED BY <1>1, PlacePrinterIs DEF OrmAddOrUpdatePrinter

\* It gives a printer that is not on the floor the cell.
Newcomer(s, f, p) ==
  p \in DOMAIN s.printers /\ \A q \in s.floors[f].printers : q.printer # p

Joins(s, f, p, cell) ==
  OrmAddOrUpdatePrinter(s, f, p, cell).floors[f].printers = Joined(s.floors[f].printers, p, cell)

LEMMA OrmPlaceNew ==
  ASSUME NEW s, Sound(s), NEW f \in DOMAIN s.floors, NEW p \in PrinterIds, NEW cell \in Cells,
         Newcomer(s, f, p)
  PROVE  Joins(s, f, p, cell)
<1>1. OrmAddOrUpdatePrinter(s, f, p, cell) = PlacePrinter(s, f, p, cell)
  BY DEF OrmAddOrUpdatePrinter, InDesiredState, Newcomer
<1>2. QED BY <1>1, PlacePrinterIs DEF Newcomer, Joins

\* Printers that exist, with different cells, for a floor that is empty.
Fresh(s, f, wanted) ==
  /\ IsLayout(wanted) /\ s.floors[f].printers = {}
  /\ \A pos \in wanted : pos.printer \in DOMAIN s.printers

\* What putting some of the places one by one may leave.
PlacedFarms(s, f, wanted) ==
  {t \in Farms : /\ Sound(t) /\ Rearranged(s, t, f)
                 /\ Stay(s, t, f, {pos.printer : pos \in wanted})
                 /\ wanted \subseteq s.floors[f].printers => t = s}

\* A printer asked to be where it is stays there.
LEMMA PlaceAgain ==
  ASSUME NEW s, Sound(s), NEW f \in DOMAIN s.floors, NEW w \in s.floors[f].printers
  PROVE  OrmAddOrUpdatePrinter(s, f, w.printer, w.cell) = s
<1> DEFINE p == w.printer
           cell == w.cell
           t == OrmAddOrUpdatePrinter(s, f, p, cell)
           occupants == {<<f, pos>> : pos \in {q \in s.floors[f].printers : q.cell = cell}}
           gone == PlacesOf(s, p) \cup occupants
           freed == TakeOff(s, gone)
<1>1. s \in Farms /\ s.floors[f] \in Floor BY FarmTables DEF Sound
<1>2. w \in Position /\ p \in DOMAIN s.printers /\ w = [printer |-> p, cell |-> cell]
  BY <1>1 DEF Floor, Position, Sound, PlacesKnown
<1>3. CASE InDesiredState(s, f, p, cell) BY <1>3 DEF OrmAddOrUpdatePrinter
<1>4. CASE ~InDesiredState(s, f, p, cell)
  <2>1. t = AddPlace(freed, f, w)
    BY <1>2, <1>4 DEF OrmAddOrUpdatePrinter, PlacePrinter, AddPlace
  <2>2. \A g \in DOMAIN s.floors : \A pos \in s.floors[g].printers :
          <<g, pos>> \in gone <=> g = f /\ pos = w
    <3>1. SUFFICES ASSUME NEW g \in DOMAIN s.floors, NEW pos \in s.floors[g].printers
                   PROVE  <<g, pos>> \in gone <=> g = f /\ pos = w
      OBVIOUS
    <3>2. pos \in Position BY <1>1, FarmTables DEF Floor
    <3>3. <<g, pos>> \in PlacesOf(s, p) <=> pos.printer = p BY <3>1, <3>2 DEF PlacesOf
    <3>4. <<g, pos>> \in occupants <=> g = f /\ pos.cell = cell OBVIOUS
    <3>5. pos.printer = p => g = f /\ pos = w BY DEF Sound, OnePlaceOn
    <3>6. g = f /\ pos.cell = cell => pos = w BY DEF Sound, OnePlaceOn
    <3> HIDE DEF occupants
    <3>7. QED BY <3>3, <3>4, <3>5, <3>6
  <2> HIDE DEF gone, t, freed
  <2>3. /\ freed \in Farms
        /\ freed.printers = s.printers /\ freed.cache = s.cache
        /\ freed.store = s.store /\ freed.groups = s.groups /\ freed.order = s.order
        /\ DOMAIN freed.floors = DOMAIN s.floors
        /\ \A g \in DOMAIN s.floors :
             /\ freed.floors[g] \in Floor
             /\ freed.floors[g].level = s.floors[g].level /\ freed.floors[g].name = s.floors[g].name
             /\ freed.floors[g].printers = {pos \in s.floors[g].printers : <<g, pos>> \notin gone}
    BY <1>1, TakeOffIs DEF freed
  <2>4. /\ t \in Farms
        /\ t.printers = freed.printers /\ t.cache = freed.cache
        /\ t.store = freed.store /\ t.groups = freed.groups /\ t.order = freed.order
        /\ DOMAIN t.floors = DOMAIN freed.floors
        /\ t.floors[f].level = freed.floors[f].level /\ t.floors[f].name = freed.floors[f].name
        /\ t.floors[f].printers = freed.floors[f].printers \cup {w}
        /\ \A g \in DOMAIN freed.floors : g # f => t.floors[g] = freed.floors[g]
    BY <1>2, <2>1, <2>3, AddPlaceIs
  <2>5. \A g \in DOMAIN s.floors : t.floors[g] \in Floor /\ s.floors[g] \in Floor
    BY <1>1, <2>3, <2>4, FarmTables
  <2>6. ASSUME NEW g \in DOMAIN s.floors PROVE t.floors[g] = s.floors[g]
    <3>1. t.floors[g].level = s.floors[g].level /\ t.floors[g].name = s.floors[g].name
      BY <2>3, <2>4
    <3>2. t.floors[g].printers = s.floors[g].printers
      <4>1. CASE g = f BY <4>1, <2>2, <2>3, <2>4
      <4>2. CASE g # f
        <5>1. t.floors[g] = freed.floors[g] BY <4>2, <2>3, <2>4
        <5>2. \A pos \in s.floors[g].printers : <<g, pos>> \notin gone BY <4>2, <2>2
        <5>3. freed.floors[g].printers = s.floors[g].printers BY <2>3, <5>2
        <5>4. QED BY <5>1, <5>3
      <4>3. QED BY <4>1, <4>2
    <3>3. QED BY <2>5, <3>1, <3>2 DEF Floor
  <2>7. t.floors = s.floors
    <3>1. t.floors \in FloorRows /\ s.floors \in FloorRows BY <1>1, <2>4, FarmTables
    <3>2. QED BY <2>3, <2>4, <2>6, <3>1, SameTable DEF FloorRows
  <2>8. t = s BY <1>1, <2>3, <2>4, <2>7, SameFarm
  <2>9. QED BY <2>8 DEF t
<1>5. QED BY <1>3, <1>4

\* Rearranging twice is rearranging once.
LEMMA RearrangedTwice ==
  ASSUME NEW s, NEW t, NEW u, NEW f, Rearranged(s, t, f), Rearranged(t, u, f)
  PROVE  Rearranged(s, u, f)
BY DEF Rearranged

\* One more of them.
LEMMA PlaceNext ==
  ASSUME NEW s, NEW f, NEW wanted, Fresh(s, f, wanted), NEW U \in SUBSET wanted, NEW pos \in U,
         NEW t, Sound(t), Rearranged(s, t, f), f \in DOMAIN s.floors,
         t.floors[f].printers = U \ {pos}
  PROVE  OrmAddOrUpdatePrinter(t, f, pos.printer, pos.cell).floors[f].printers = U
<1>1. /\ f \in DOMAIN t.floors /\ pos.printer \in DOMAIN t.printers
      /\ pos \in Position /\ pos.printer \in PrinterIds /\ pos.cell \in Cells
      /\ pos = [printer |-> pos.printer, cell |-> pos.cell]
  BY DEF Fresh, IsLayout, Rearranged, Position
<1>2. \A q \in U \ {pos} : q.printer # pos.printer /\ q.cell # pos.cell
  BY DEF Fresh, IsLayout
<1>3. OrmAddOrUpdatePrinter(t, f, pos.printer, pos.cell).floors[f].printers
        = Joined(U \ {pos}, pos.printer, pos.cell)
  <2>1. Newcomer(t, f, pos.printer) BY <1>1, <1>2 DEF Newcomer
  <2>2. f \in DOMAIN t.floors /\ pos.printer \in PrinterIds /\ pos.cell \in Cells BY <1>1
  <2>3. Joins(t, f, pos.printer, pos.cell) BY <2>1, <2>2, OrmPlaceNew
  <2>4. QED BY <2>3 DEF Joins
<1>4. Joined(U \ {pos}, pos.printer, pos.cell) = U BY <1>1, <1>2 DEF Joined
<1>5. QED BY <1>3, <1>4

LEMMA PlaceAllIs ==
  ASSUME NEW s, Sound(s), NEW f \in DOMAIN s.floors, NEW wanted \in SUBSET Position, IsFiniteSet(wanted)
  PROVE  /\ PlaceAll(s, f, wanted) \in PlacedFarms(s, f, wanted)
         /\ Fresh(s, f, wanted) => PlaceAll(s, f, wanted).floors[f].printers = wanted
<1> DEFINE place(pos, t) == OrmAddOrUpdatePrinter(t, f, pos.printer, pos.cell)
           V == PlacedFarms(s, f, wanted)
           F == [z \in wanted \X V |-> place(z[1], z[2])]
           C == AnyOf(wanted)
           fresh == Fresh(s, f, wanted)
           I == [U \in SUBSET wanted |-> {t \in V : fresh => t.floors[f].printers = U}]
           rec(q) == q = [U \in SUBSET wanted |->
                            IF U = {} THEN s ELSE place(CHOOSE x \in U : TRUE, q[U \ {CHOOSE x \in U : TRUE}])]
           it == CHOOSE q : rec(q)
<1>1. s \in V BY DEF PlacedFarms, Rearranged, Stay, Sound
<1>2. ASSUME NEW pos \in wanted, NEW t \in V PROVE place(pos, t) \in V
  <2>1. Sound(t) /\ Rearranged(s, t, f) /\ (wanted \subseteq s.floors[f].printers => t = s)
    BY <1>2 DEF PlacedFarms
  <2>2. f \in DOMAIN t.floors /\ pos.printer \in PrinterIds /\ pos.cell \in Cells
    BY <1>2, <2>1 DEF Rearranged, Position
  <2>3. Sound(place(pos, t)) /\ Rearranged(t, place(pos, t), f) /\ Stay(t, place(pos, t), f, {pos.printer})
    BY <2>1, <2>2, OrmPlaceIs
  <2>4. wanted \subseteq s.floors[f].printers => place(pos, t) = s
    BY <2>1, <2>2, <1>2, PlaceAgain
  <2> HIDE DEF place
  <2>5. Rearranged(s, place(pos, t), f) BY <2>1, <2>3, RearrangedTwice
  <2>6. place(pos, t) \in Farms BY <2>3 DEF Sound
  <2>7. Stay(s, place(pos, t), f, {w.printer : w \in wanted})
    <3>1. Stay(s, t, f, {w.printer : w \in wanted}) /\ DOMAIN t.floors = DOMAIN s.floors
      BY <1>2, <2>1 DEF PlacedFarms, Rearranged
    <3>2. pos.printer \in {w.printer : w \in wanted} BY <1>2
    <3>3. QED BY <2>3, <3>1, <3>2 DEF Stay
  <2>8. QED BY <2>3, <2>4, <2>5, <2>6, <2>7 DEF PlacedFarms
<1>3. Choice(C, wanted) BY AnyOfChooses
<1>4. ASSUME NEW U \in SUBSET wanted, NEW pos \in U, NEW t \in I[U \ {pos}]
       PROVE  place(pos, t) \in I[U]
  <2>1. t \in V /\ Sound(t) /\ Rearranged(s, t, f) /\ (fresh => t.floors[f].printers = U \ {pos})
    BY <1>4 DEF PlacedFarms
  <2>2. fresh => place(pos, t).floors[f].printers = U BY <2>1, PlaceNext
  <2>3. place(pos, t) \in V BY <1>2, <2>1
  <2> HIDE DEF place, V
  <2>4. QED BY <2>2, <2>3
<1> HIDE DEF V
<1>5. ASSUME NEW U \in SUBSET wanted, U # {}, NEW t \in I[U \ {C[U]}]
      PROVE  F[<<C[U], t>>] \in I[U]
  <2>1. C[U] \in U /\ t \in V BY <1>3, <1>5 DEF Choice
  <2>2. F[<<C[U], t>>] = place(C[U], t) BY <2>1
  <2>3. place(C[U], t) \in I[U] BY <1>4, <1>5, <2>1
  <2> HIDE DEF place, I, F
  <2>4. QED BY <2>2, <2>3
<1>6. s \in I[{}] BY <1>1 DEF Fresh
<1> HIDE DEF I, F, C
<1>7. PICK h : IsFold(h, wanted, s, F, C) /\ \A U \in SUBSET wanted : h[U] \in I[U]
  BY <1>3, <1>5, <1>6, FoldWithin
<1>8. rec(h)
  <2>1. ASSUME NEW U \in SUBSET wanted, U # {}
        PROVE  h[U] = place(CHOOSE x \in U : TRUE, h[U \ {CHOOSE x \in U : TRUE}])
    <3>1. C[U] = (CHOOSE x \in U : TRUE) /\ C[U] \in wanted
      BY <2>1, <1>3 DEF C, AnyOf, Choice
    <3>2. h[U \ {C[U]}] \in V
      <4>1. h[U \ {C[U]}] \in I[U \ {C[U]}] BY <1>7
      <4>2. QED BY <4>1 DEF I
    <3>3. h[U] = F[<<C[U], h[U \ {C[U]}]>>] BY <1>7, <2>1 DEF IsFold
    <3>4. h[U] = place(C[U], h[U \ {C[U]}]) BY <3>1, <3>2, <3>3 DEF F
    <3>5. QED BY <3>1, <3>4
  <2>2. h = [U \in SUBSET wanted |-> h[U]] /\ h[{}] = s BY <1>7 DEF IsFold
  <2> HIDE DEF place
  <2>3. QED BY <2>1, <2>2
<1>9. rec(it) BY <1>8
<1>10. PlaceAll(s, f, wanted) = it[wanted] BY DEF PlaceAll, FoldSet, MapThenFoldSet
<1> HIDE DEF it
<1>11. it[{}] \in I[{}] BY <1>6, <1>9
<1>12. ASSUME NEW U \in SUBSET wanted, U # {}, it[U \ {C[U]}] \in I[U \ {C[U]}]
       PROVE  it[U] \in I[U]
  <2>1. C[U] = (CHOOSE x \in U : TRUE) /\ C[U] \in U BY <1>12, <1>3 DEF C, AnyOf, Choice
  <2>2. it[U] = place(C[U], it[U \ {C[U]}]) BY <1>9, <1>12, <2>1
  <2> HIDE DEF place
  <2>3. QED BY <1>12, <1>4, <2>1, <2>2
<1>13. \A U \in SUBSET wanted : it[U] \in I[U] BY <1>3, <1>11, <1>12, FoldInduction
<1>14. QED
  <2>1. it[wanted] \in I[wanted] BY <1>13
  <2>2. QED BY <1>10, <2>1 DEF I, V

\* Nobody taken off.
LEMMA TakeOffNobody ==
  ASSUME NEW s \in Farms
  PROVE  TakeOff(s, {}) = s
<1> DEFINE nobody == {}
           t == TakeOff(s, nobody)
<1> HIDE DEF t, nobody
<1>1. /\ t \in Farms
      /\ t.printers = s.printers /\ t.cache = s.cache
      /\ t.store = s.store /\ t.groups = s.groups /\ t.order = s.order
      /\ DOMAIN t.floors = DOMAIN s.floors
      /\ \A f \in DOMAIN s.floors :
           /\ t.floors[f] \in Floor
           /\ t.floors[f].level = s.floors[f].level /\ t.floors[f].name = s.floors[f].name
           /\ t.floors[f].printers = {pos \in s.floors[f].printers : <<f, pos>> \notin nobody}
  BY TakeOffIs DEF t
<1>2. ASSUME NEW f \in DOMAIN s.floors PROVE t.floors[f] = s.floors[f]
  <2>1. s.floors[f] \in Floor /\ t.floors[f] \in Floor BY <1>1, FarmTables
  <2>2. t.floors[f].printers = s.floors[f].printers BY <1>1 DEF nobody
  <2>3. QED BY <1>1, <2>1, <2>2 DEF Floor
<1>3. t.floors = s.floors
  <2>1. t.floors \in FloorRows /\ s.floors \in FloorRows BY <1>1, FarmTables
  <2>2. QED BY <1>1, <1>2, <2>1, SameTable DEF FloorRows
<1>4. t = s BY <1>1, <1>3, SameFarm
<1>5. QED BY <1>4 DEF t, nobody

\* Printers taken off floor f.
LEMMA TakeOffOne ==
  ASSUME NEW s, Sound(s), NEW f, NEW ps
  PROVE  Rearranged(s, TakeOff(s, {<<f, pos>> : pos \in ps}), f)
<1> DEFINE gone == {<<f, pos>> : pos \in ps}
           t == TakeOff(s, gone)
<1> HIDE DEF t, gone
<1>1. s \in Farms BY DEF Sound
<1>2. /\ t \in Farms
      /\ t.printers = s.printers /\ t.cache = s.cache
      /\ t.store = s.store /\ t.groups = s.groups /\ t.order = s.order
      /\ DOMAIN t.floors = DOMAIN s.floors
      /\ \A g \in DOMAIN s.floors :
           /\ t.floors[g] \in Floor
           /\ t.floors[g].level = s.floors[g].level /\ t.floors[g].name = s.floors[g].name
           /\ t.floors[g].printers = {pos \in s.floors[g].printers : <<g, pos>> \notin gone}
  BY <1>1, TakeOffIs DEF t
<1>3. Rearranged(s, t, f) BY <1>2 DEF Rearranged
<1>4. QED BY <1>3 DEF t, gone

\* The places of a floor are finite in number.
LEMMA FinitePlaces ==
  IsFiniteSet(Position) /\ \A places \in SUBSET Position : IsFiniteSet(places)
<1> DEFINE pairs == PrinterIds \X Cells
           F == [z \in pairs |-> [printer |-> z[1], cell |-> z[2]]]
           image == {F[z] : z \in pairs}
<1>1. IsFiniteSet(pairs) BY IdsOfRows, WhatClientsSend, FS_Product
<1>2. IsFiniteSet(image)
  <2>1. F \in [pairs -> image] /\ \A i \in image : \E z \in pairs : F[z] = i OBVIOUS
  <2>2. F \in Surjection(pairs, image) BY <2>1 DEF Surjection
  <2> HIDE DEF image, F, pairs
  <2>3. QED BY <1>1, <2>2, FS_Surjection
<1>3. Position \subseteq image
  <2>1. ASSUME NEW pos \in Position PROVE pos \in image
    <3>1. <<pos.printer, pos.cell>> \in pairs /\ pos = [printer |-> pos.printer, cell |-> pos.cell]
      BY DEF Position
    <3>2. F[<<pos.printer, pos.cell>>] = pos BY <3>1
    <3>3. QED BY <3>1, <3>2
  <2>2. QED BY <2>1
<1> HIDE DEF image
<1>4. IsFiniteSet(Position) BY <1>2, <1>3, FS_Subset
<1>5. QED BY <1>4, FS_Subset

\* The row of a new floor, and its printers.
Made(s, t, f, places) ==
  /\ Sound(t)
  /\ t.printers = s.printers /\ t.cache = s.cache
  /\ t.store = s.store /\ t.groups = s.groups /\ t.order = s.order
  /\ DOMAIN t.floors = DOMAIN s.floors \cup {f}
  /\ \A g \in DOMAIN s.floors :
       /\ t.floors[g].level = s.floors[g].level /\ t.floors[g].name = s.floors[g].name
       /\ t.floors[g].printers \subseteq s.floors[g].printers
  /\ Stay(s, t, f, {pos.printer : pos \in places})
  /\ IsLayout(places) /\ (\A pos \in places : pos.printer \in DOMAIN s.printers)
       => t.floors[f].printers = places

LEMMA OrmCreateFloorIs ==
  ASSUME NEW s, Sound(s), NEW f \in FloorIds, f \notin DOMAIN s.floors, NEW name \in FloorNames,
         NEW level \in Levels, ~LevelTaken(s, level), NEW places \in SUBSET Position,
         NEW t, t = OrmCreateFloor(s, f, name, level, places)
  PROVE  Made(s, t, f, places)
<1> DEFINE u == AddFloor(s, f, NewFloor(name, level, {}))
<1>1. t = PlaceAll(u, f, places) BY DEF OrmCreateFloor
<1> HIDE DEF u
<1>2. /\ Sound(u)
      /\ u.printers = s.printers /\ u.cache = s.cache
      /\ u.store = s.store /\ u.groups = s.groups /\ u.order = s.order
      /\ DOMAIN u.floors = DOMAIN s.floors \cup {f} /\ u.floors[f] = NewFloor(name, level, {})
      /\ \A g \in DOMAIN s.floors : u.floors[g] = s.floors[g]
  BY AddFloorIs DEF u
<1>3. t \in PlacedFarms(u, f, places) /\ (Fresh(u, f, places) => t.floors[f].printers = places)
  BY <1>1, <1>2, FinitePlaces, PlaceAllIs
<1>4. Sound(t) /\ Rearranged(u, t, f) /\ Stay(u, t, f, {pos.printer : pos \in places})
  BY <1>3 DEF PlacedFarms
<1>5. u.floors[f].printers = {} BY <1>2 DEF NewFloor
<1>6. IsLayout(places) /\ (\A pos \in places : pos.printer \in DOMAIN s.printers)
        => t.floors[f].printers = places
  BY <1>2, <1>3, <1>5 DEF Fresh
<1>7. Stay(s, t, f, {pos.printer : pos \in places}) BY <1>2, <1>4 DEF Stay
<1>8. QED BY <1>2, <1>4, <1>6, <1>7 DEF Rearranged, Made

\* POST /floor.
LEMMA CreateFloorKeeps ==
  ASSUME NEW s, Tidy(s), NEW f \in FloorIds, f \notin DOMAIN s.floors, NEW name \in FloorNames,
         NEW level \in Levels, ~LevelTaken(s, level), NEW places \in SUBSET Position,
         NEW t, t = OrmCreateFloor(s, f, name, level, places)
  PROVE  Kept(s, StoreFloor(t, f, t.floors[f])) /\ Tidy(t)
<1>1. /\ Sound(t) /\ t.store = s.store /\ t.order = s.order
      /\ DOMAIN t.floors = DOMAIN s.floors \cup {f}
      /\ \A g \in DOMAIN s.floors :
           /\ t.floors[g].level = s.floors[g].level /\ t.floors[g].name = s.floors[g].name
           /\ t.floors[g].printers \subseteq s.floors[g].printers
  <2>1. Made(s, t, f, places) BY OrmCreateFloorIs DEF Tidy
  <2>2. QED BY <2>1 DEF Made
<1>2. f \in DOMAIN t.floors /\ DOMAIN t.store \subseteq DOMAIN t.floors BY <1>1 DEF Tidy
<1>3. StoreFollows(s) => \A g \in DOMAIN t.floors : g # f => StoreShows(t, g)
  BY <1>1 DEF StoreFollows, StoreShows
<1>4. Tidy(t) BY <1>1, <1>2 DEF Tidy
<1>5. QED BY <1>1, <1>2, <1>3, <1>4, StoreFloorKeeps DEF Kept

\* createDefaultFloor, and loadStore.
LEMMA SqlLoadStoreKeeps ==
  ASSUME NEW s, Tidy(s)
  PROVE  /\ Tidy(SqlLoadStore(s)) /\ StoreFollows(SqlLoadStore(s))
         /\ SqlLoadStore(s).order = s.order
<1>1. s \in Farms /\ s.floors \in FloorRows /\ DOMAIN s.store \subseteq DOMAIN s.floors
  BY FarmTables DEF Sound, Tidy
<1>2. s.floors = <<>> <=> DOMAIN s.floors = {} BY <1>1, EmptyOnly DEF FloorRows
<1>3. CASE s.floors = <<>>
  <2> DEFINE f == CHOOSE g \in UnusedFloors(s) : TRUE
             nobody == {}
             t == OrmCreateFloor(s, f, DefaultName, DefaultLevel, nobody)
  <2>1. UnusedFloors(s) = FloorIds BY <1>1, <1>2, <1>3 DEF UnusedFloors
  <2>2. f \in FloorIds BY <2>1, IdsOfRows
  <2>3. f \notin DOMAIN s.floors /\ ~LevelTaken(s, DefaultLevel)
    BY <1>2, <1>3 DEF LevelTaken
  <2>4. SqlLoadStore(s) = StoreFloor(t, f, t.floors[f])
    BY <1>3 DEF SqlLoadStore, SqlDefaultFloor
  <2>5. nobody \in SUBSET Position OBVIOUS
  <2>6. StoreFollows(s) BY <1>2, <1>3 DEF StoreFollows
  <2> HIDE DEF f, nobody
  <2>7. Kept(s, StoreFloor(t, f, t.floors[f]))
    BY <2>2, <2>3, <2>5, DefaultFloor, CreateFloorKeeps
  <2>8. QED BY <2>4, <2>6, <2>7 DEF Kept
<1>4. CASE s.floors # <<>>
  <2>1. SqlLoadStore(s) = StoreFloors(s, s.floors) BY <1>4 DEF SqlLoadStore
  <2>2. QED BY <1>1, <2>1, StoreFloorsKeeps DEF Tidy
<1>5. QED BY <1>3, <1>4

LEMMA SqlDeleteKeeps ==
  ASSUME NEW s, Tidy(s), NEW p
  PROVE  Kept(s, RemovePrinterFromAnyFloor(OrmDelete(s, p), p))
<1> DEFINE t == OrmDeleteMany(s, {p})
           u == TakeOff(t, PlacesOf(t, p))
<1>1. Tidy(t) /\ t.order = s.order BY OrmDeleteKeeps DEF Kept
<1> HIDE DEF t
<1>2. Tidy(u) /\ u.order = t.order BY <1>1, TakeOffKeeps DEF Kept, Tidy
<1>3. RemovePrinterFromAnyFloor(OrmDelete(s, p), p) = SqlLoadStore(u)
  BY DEF RemovePrinterFromAnyFloor, OrmDelete, OrmDeleteMany, OrmDeletePrinterFromAnyFloor, t
<1> HIDE DEF u
<1>4. QED BY <1>1, <1>2, <1>3, SqlLoadStoreKeeps DEF Kept

\* update of the places of a floor.
LEMMA OrmUpdatePlacesIs ==
  ASSUME NEW s, Sound(s), NEW f \in DOMAIN s.floors, NEW wanted \in SUBSET Position
  PROVE  /\ Sound(OrmUpdatePlaces(s, f, wanted))
         /\ Rearranged(s, OrmUpdatePlaces(s, f, wanted), f)
         /\ wanted = s.floors[f].printers => OrmUpdatePlaces(s, f, wanted) = s
<1> DEFINE unwanted == {pos \in s.floors[f].printers : \A w \in wanted : w.printer # pos.printer}
           gone == {<<f, pos>> : pos \in unwanted}
           t == PlaceAll(s, f, wanted)
<1>1. OrmUpdatePlaces(s, f, wanted) = TakeOff(t, gone) BY DEF OrmUpdatePlaces
<1>2. t \in PlacedFarms(s, f, wanted) BY FinitePlaces, PlaceAllIs
<1> HIDE DEF t
<1>3. Sound(t) /\ Rearranged(s, t, f) /\ (wanted \subseteq s.floors[f].printers => t = s)
  BY <1>2 DEF PlacedFarms
<1>4. Sound(TakeOff(t, gone)) /\ Rearranged(t, TakeOff(t, gone), f)
  BY <1>3, TakeOffKeeps, TakeOffOne
<1>5. Rearranged(s, TakeOff(t, gone), f) BY <1>3, <1>4, RearrangedTwice
<1>6. ASSUME wanted = s.floors[f].printers PROVE TakeOff(t, gone) = s
  <2>1. gone = {} /\ t = s /\ s \in Farms BY <1>3, <1>6 DEF Sound
  <2> HIDE DEF gone
  <2>2. QED BY <2>1, TakeOffNobody
<1>7. QED BY <1>1, <1>4, <1>5, <1>6

\* A floor with another name and level.
Retitle(s, f, name, level) == [s EXCEPT !.floors[f].name = name, !.floors[f].level = level]

LEMMA RetitleIs ==
  ASSUME NEW s, Sound(s), NEW f \in DOMAIN s.floors, NEW name \in FloorNames, NEW level \in Levels,
         ~LevelRefused(s, f, level), NEW t, t = Retitle(s, f, name, level)
  PROVE  /\ Sound(t)
         /\ t.printers = s.printers /\ t.cache = s.cache
         /\ t.store = s.store /\ t.groups = s.groups /\ t.order = s.order
         /\ DOMAIN t.floors = DOMAIN s.floors
         /\ t.floors[f].name = name /\ t.floors[f].level = level
         /\ t.floors[f].printers = s.floors[f].printers
         /\ \A g \in DOMAIN s.floors : g # f => t.floors[g] = s.floors[g]
<1> DEFINE floor == [s.floors[f] EXCEPT !.name = name, !.level = level]
           floors == [s.floors EXCEPT ![f] = floor]
<1>1. s \in Farms /\ s.floors \in FloorRows /\ s.floors[f] \in Floor BY FarmTables DEF Sound
<1>2. /\ floor \in Floor /\ floor.printers = s.floors[f].printers
      /\ floor.level = level /\ floor.name = name
  BY <1>1 DEF Floor
<1>3. t = WithFloors(s, floors) BY <1>1 DEF WithFloors, Retitle
<1> HIDE DEF floor
<1>4. floors \in FloorRows /\ floors = Put(s.floors, f, floor)
  BY <1>1, <1>2, SetTable DEF FloorRows
<1> HIDE DEF floors
<1>5. /\ DOMAIN floors = DOMAIN s.floors /\ floors[f] = floor
      /\ \A g \in DOMAIN s.floors : g # f => floors[g] = s.floors[g]
  BY <1>4 DEF Put
<1>6. /\ t \in Farms /\ t.floors = floors
      /\ t.printers = s.printers /\ t.cache = s.cache
      /\ t.store = s.store /\ t.groups = s.groups /\ t.order = s.order
  BY <1>1, <1>3, <1>4, WithFloorsIs
<1>7. \A g \in DOMAIN s.floors : t.floors[g].printers = s.floors[g].printers
  BY <1>2, <1>5, <1>6
<1>8. OnePlaceOn(t.floors) /\ PlacesKnown(t)
  BY <1>5, <1>6, <1>7 DEF Sound, OnePlaceOn, PlacesKnown
<1>9. LevelsDiffer(t.floors)
  <2>1. ASSUME NEW g \in DOMAIN floors, NEW h \in DOMAIN floors, floors[g].level = floors[h].level
        PROVE  g = h
    <3>1. \A k \in DOMAIN s.floors : k # f => floors[k] = s.floors[k] /\ s.floors[k].level # level
      BY <1>5 DEF LevelRefused
    <3>2. QED BY <2>1, <3>1, <1>2, <1>5 DEF Sound, LevelsDiffer
  <2>2. QED BY <2>1, <1>6 DEF LevelsDiffer
<1>10. GroupsKnown(t) /\ CacheFollows(t) BY <1>6 DEF Sound, GroupsKnown, CacheFollows
<1>11. Sound(t) BY <1>6, <1>8, <1>9, <1>10 DEF Sound
<1>12. QED BY <1>2, <1>5, <1>6, <1>7, <1>11

\* update: its places, then its name and level.
LEMMA OrmUpdateFloorIs ==
  ASSUME NEW s, Sound(s), NEW f \in DOMAIN s.floors, NEW name \in FloorNames, NEW level \in Levels,
         NEW wanted \in SUBSET Position, NEW t, t = OrmUpdateFloor(s, f, name, level, wanted)
  PROVE  /\ Sound(t)
         /\ t.printers = s.printers /\ t.cache = s.cache
         /\ t.store = s.store /\ t.groups = s.groups /\ t.order = s.order
         /\ DOMAIN t.floors = DOMAIN s.floors
         /\ \A g \in DOMAIN s.floors : g # f =>
              /\ t.floors[g].level = s.floors[g].level /\ t.floors[g].name = s.floors[g].name
              /\ t.floors[g].printers \subseteq s.floors[g].printers
         /\ LevelRefused(s, f, level) /\ wanted = s.floors[f].printers => t = s
         /\ LevelRefused(s, f, level) => Rearranged(s, t, f)
         /\ wanted = s.floors[f].printers =>
              \A g \in DOMAIN s.floors : t.floors[g].printers = s.floors[g].printers
<1> DEFINE u == OrmUpdatePlaces(s, f, wanted)
<1>1. Sound(u) /\ Rearranged(s, u, f) /\ (wanted = s.floors[f].printers => u = s)
  BY OrmUpdatePlacesIs
<1>2. t = IF LevelRefused(s, f, level) THEN u ELSE Retitle(u, f, name, level)
  BY DEF OrmUpdateFloor, Retitle
<1> HIDE DEF u
<1>3. CASE LevelRefused(s, f, level) BY <1>1, <1>2, <1>3 DEF Rearranged
<1>4. CASE ~LevelRefused(s, f, level)
  <2>1. f \in DOMAIN u.floors /\ ~LevelRefused(u, f, level)
    BY <1>1, <1>4 DEF Rearranged, LevelRefused
  <2>2. /\ Sound(t)
        /\ t.printers = u.printers /\ t.cache = u.cache
        /\ t.store = u.store /\ t.groups = u.groups /\ t.order = u.order
        /\ DOMAIN t.floors = DOMAIN u.floors
        /\ t.floors[f].printers = u.floors[f].printers
        /\ \A g \in DOMAIN u.floors : g # f => t.floors[g] = u.floors[g]
    BY <1>1, <1>2, <1>4, <2>1, RetitleIs
  <2>3. QED BY <1>1, <1>4, <2>2 DEF Rearranged
<1>5. QED BY <1>3, <1>4

\* The floor store told of the floor that was changed.
LEMMA ChangedFloorKeeps ==
  ASSUME NEW s, Tidy(s), NEW f \in DOMAIN s.floors, NEW t, Sound(t),
         t.store = s.store, t.order = s.order,
         DOMAIN t.floors = DOMAIN s.floors,
         \A g \in DOMAIN s.floors : g # f =>
           /\ t.floors[g].level = s.floors[g].level /\ t.floors[g].name = s.floors[g].name
           /\ t.floors[g].printers \subseteq s.floors[g].printers
  PROVE  Kept(s, StoreFloor(t, f, t.floors[f]))
<1>1. f \in DOMAIN t.floors /\ DOMAIN t.store \subseteq DOMAIN t.floors BY DEF Tidy
<1>2. StoreFollows(s) => \A g \in DOMAIN t.floors : g # f => StoreShows(t, g)
  BY DEF StoreFollows, StoreShows
<1>3. QED BY <1>1, <1>2, StoreFloorKeeps DEF Kept

\* POST /printer/batch.
LEMMA OrmBatchImportKeeps ==
  ASSUME NEW s, Tidy(s), NEW ps \in SUBSET PrinterIds, NEW conn \in Conns
  PROVE  Kept(s, OrmBatchImport(s, [p \in ps |-> NewPrinter(conn)]))
<1> DEFINE made == [p \in ps |-> NewPrinter(conn)]
           rows == Overlaid(made, s.printers)
           cache == Overlaid(made, s.cache)
           t == OrmBatchImport(s, made)
<1>1. s \in Farms /\ s.printers \in Printers /\ s.cache \in Printers
  BY FarmTables DEF Tidy, Sound
<1>2. made \in Printers
  <2>1. NewPrinter(conn) \in Printer BY NewIsPrinter
  <2>2. made = [p \in DOMAIN made |-> made[p]] /\ DOMAIN made \subseteq PrinterIds
        /\ \A p \in DOMAIN made : made[p] \in Printer
    BY <2>1
  <2> HIDE DEF made
  <2>3. QED BY <2>2, TableIs DEF Printers
<1> HIDE DEF made
<1>3. rows \in Printers /\ cache \in Printers BY <1>1, <1>2, OverlaidTable DEF Printers
<1>4. /\ DOMAIN rows = DOMAIN s.printers \cup DOMAIN made
      /\ DOMAIN cache = DOMAIN s.cache \cup DOMAIN made
      /\ \A p \in DOMAIN made : rows[p] = made[p] /\ cache[p] = made[p]
      /\ \A p \in DOMAIN s.printers : p \notin DOMAIN made => rows[p] = s.printers[p]
      /\ \A p \in DOMAIN s.cache : p \notin DOMAIN made => cache[p] = s.cache[p]
  BY DEF Overlaid
<1>5. t = WithRows(s, rows, cache)
  BY <1>1 DEF OrmBatchImport, HandleBatchPrinterCreated, SetKeyValuesBatch, WithRows, Farms
<1> HIDE DEF t, rows, cache
<1>6. /\ t \in Farms /\ t.printers = rows /\ t.cache = cache
      /\ t.floors = s.floors /\ t.store = s.store /\ t.groups = s.groups /\ t.order = s.order
  BY <1>1, <1>3, <1>5 DEF WithRows, Farms
<1>7. CacheFollows(t)
  <2>1. CacheFollows(s) BY DEF Tidy, Sound
  <2>2. DOMAIN t.cache = DOMAIN t.printers BY <2>1, <1>4, <1>6 DEF CacheFollows
  <2>3. ASSUME NEW p \in DOMAIN t.cache
        PROVE  t.cache[p].conn = t.printers[p].conn /\ t.cache[p].enabled = t.printers[p].enabled
    <3>1. CASE p \in DOMAIN made BY <3>1, <1>4, <1>6
    <3>2. CASE p \notin DOMAIN made
      <4>1. p \in DOMAIN s.cache /\ p \in DOMAIN s.printers
        BY <2>1, <2>3, <3>2, <1>4, <1>6 DEF CacheFollows
      <4>2. t.cache[p] = s.cache[p] /\ t.printers[p] = s.printers[p]
        BY <3>2, <4>1, <1>4, <1>6
      <4>3. QED BY <2>1, <4>1, <4>2 DEF CacheFollows
    <3>3. QED BY <3>1, <3>2
  <2>4. QED BY <2>2, <2>3 DEF CacheFollows
<1>8. DOMAIN s.printers \subseteq DOMAIN t.printers BY <1>4, <1>6
<1>9. Kept(s, t) BY <1>6, <1>7, <1>8, PrintersChange
<1>10. QED BY <1>9 DEF t, made

\* One after the other.
LEMMA KeptTwice ==
  ASSUME NEW s, NEW t, NEW u, Kept(s, t), Kept(t, u)
  PROVE  Kept(s, u)
BY DEF Kept

\* batchTogglePrintersEnabled.
LEMMA OrmBatchToggleKeeps ==
  ASSUME NEW s, Tidy(s), NEW ps, NEW enabled \in BOOLEAN
  PROVE  Kept(s, OrmBatchToggle(s, ps, enabled)) /\ OrmBatchToggle(s, ps, enabled).floors = s.floors
<1> DEFINE S == Toggled(s, ps, enabled)
           V == {t \in Farms : Kept(s, t) /\ DOMAIN t.printers = DOMAIN s.printers /\ t.floors = s.floors}
           toggle(p, t) == OrmUpdateEnabled(t, p, enabled)
           F == [z \in S \X V |-> toggle(z[1], z[2])]
           C == AnyOf(S)
           I == [U \in SUBSET S |-> V]
           rec(q) == q = [U \in SUBSET S |->
                            IF U = {} THEN s ELSE toggle(CHOOSE x \in U : TRUE, q[U \ {CHOOSE x \in U : TRUE}])]
           it == CHOOSE q : rec(q)
<1>1. S \subseteq DOMAIN s.printers /\ S \subseteq PrinterIds
  BY FarmTables DEF Toggled, Tidy, Sound, CacheFollows
<1>2. IsFiniteSet(S) BY <1>1, IdsOfRows, FS_Subset
<1>3. s \in V BY DEF Kept, Tidy, Sound
<1>4. ASSUME NEW p \in S, NEW t \in V PROVE toggle(p, t) \in V
  <2>1. Tidy(t) /\ Kept(s, t) /\ p \in DOMAIN t.printers /\ Fits([enabled |-> enabled])
    BY <1>1, <1>4, BodiesFit DEF Kept
  <2>2. /\ Kept(t, toggle(p, t)) /\ DOMAIN toggle(p, t).printers = DOMAIN t.printers
        /\ toggle(p, t).floors = t.floors
    BY <2>1, OrmUpdateKeeps DEF OrmUpdateEnabled
  <2> HIDE DEF toggle
  <2>3. Kept(s, toggle(p, t)) BY <2>1, <2>2, KeptTwice
  <2>4. QED BY <2>2, <2>3 DEF Kept, Tidy, Sound
<1>5. Choice(C, S) BY AnyOfChooses
<1>6. OrmBatchToggle(s, ps, enabled) = it[S] BY DEF OrmBatchToggle, FoldSet, MapThenFoldSet
<1> HIDE DEF V, S
<1>7. \A U \in SUBSET S : U # {} => \A t \in I[U \ {C[U]}] : F[<<C[U], t>>] \in I[U]
  BY <1>4, <1>5 DEF Choice
<1>8. s \in I[{}] BY <1>3
<1> HIDE DEF I, F, C
<1>9. PICK h : IsFold(h, S, s, F, C) /\ \A U \in SUBSET S : h[U] \in I[U]
  BY <1>2, <1>5, <1>7, <1>8, FoldWithin
<1>10. rec(h)
  <2>1. ASSUME NEW U \in SUBSET S, U # {}
        PROVE  h[U] = toggle(CHOOSE x \in U : TRUE, h[U \ {CHOOSE x \in U : TRUE}])
    <3>1. C[U] = (CHOOSE x \in U : TRUE) /\ C[U] \in S BY <2>1, <1>5 DEF C, AnyOf, Choice
    <3>2. h[U \ {C[U]}] \in V BY <1>9 DEF I
    <3>3. h[U] = F[<<C[U], h[U \ {C[U]}]>>] BY <1>9, <2>1 DEF IsFold
    <3>4. h[U] = toggle(C[U], h[U \ {C[U]}]) BY <3>1, <3>2, <3>3 DEF F
    <3>5. QED BY <3>1, <3>4
  <2>2. h = [U \in SUBSET S |-> h[U]] /\ h[{}] = s BY <1>9 DEF IsFold
  <2> HIDE DEF toggle
  <2>3. QED BY <2>1, <2>2
<1>11. rec(it) BY <1>10
<1> HIDE DEF it
<1>12. it[{}] \in I[{}] BY <1>8, <1>11
<1>13. ASSUME NEW U \in SUBSET S, U # {}, it[U \ {C[U]}] \in I[U \ {C[U]}]
       PROVE  it[U] \in I[U]
  <2>1. C[U] = (CHOOSE x \in U : TRUE) /\ C[U] \in S BY <1>13, <1>5 DEF C, AnyOf, Choice
  <2>2. it[U] = toggle(C[U], it[U \ {C[U]}]) BY <1>11, <1>13, <2>1
  <2>3. it[U \ {C[U]}] \in V BY <1>13 DEF I
  <2> HIDE DEF toggle
  <2>4. QED BY <1>4, <2>1, <2>2, <2>3 DEF I
<1>14. \A U \in SUBSET S : it[U] \in I[U] BY <1>2, <1>5, <1>12, <1>13, FoldInduction
<1>15. QED BY <1>6, <1>14 DEF I, V

\* Another table of groups.
WithGroups(s, groups) == [s EXCEPT !.groups = groups]

LEMMA WithGroupsKeeps ==
  ASSUME NEW s, Sound(s), NEW groups \in GroupRows,
         \A g \in DOMAIN groups : groups[g].printers \subseteq DOMAIN s.printers,
         NEW t, t = WithGroups(s, groups)
  PROVE  /\ Sound(t) /\ t.groups = groups
         /\ t.printers = s.printers /\ t.cache = s.cache
         /\ t.floors = s.floors /\ t.store = s.store /\ t.order = s.order
         /\ Tidy(s) => Kept(s, t)
<1>1. /\ t \in Farms /\ t.groups = groups
      /\ t.printers = s.printers /\ t.cache = s.cache
      /\ t.floors = s.floors /\ t.store = s.store /\ t.order = s.order
  BY DEF WithGroups, Farms, Sound
<1>2. Sound(t) BY <1>1 DEF Sound, PlacesKnown, GroupsKnown, CacheFollows
<1>3. Tidy(s) => Kept(s, t) BY <1>1, <1>2 DEF Kept, Tidy, StoreFollows, StoreShows
<1>4. QED BY <1>1, <1>2, <1>3

\* A group with other printers or another name.
LEMMA PutGroupKeeps ==
  ASSUME NEW s, Sound(s), NEW g \in GroupIds, NEW group \in Group,
         group.printers \subseteq DOMAIN s.printers,
         NEW t, t = WithGroups(s, Put(s.groups, g, group))
  PROVE  /\ Sound(t) /\ t.groups = Put(s.groups, g, group)
         /\ t.printers = s.printers /\ t.cache = s.cache
         /\ t.floors = s.floors /\ t.store = s.store /\ t.order = s.order
         /\ Tidy(s) => Kept(s, t)
<1> DEFINE groups == Put(s.groups, g, group)
<1>1. s.groups \in GroupRows BY FarmTables DEF Sound
<1>2. groups \in GroupRows BY <1>1, PutTable DEF GroupRows
<1>3. \A x \in DOMAIN groups : groups[x].printers \subseteq DOMAIN s.printers
  BY DEF Put, Sound, GroupsKnown
<1> HIDE DEF groups
<1>4. /\ Sound(t) /\ t.groups = groups
      /\ t.printers = s.printers /\ t.cache = s.cache
      /\ t.floors = s.floors /\ t.store = s.store /\ t.order = s.order
      /\ Tidy(s) => Kept(s, t)
  BY <1>2, <1>3, WithGroupsKeeps DEF groups
<1>5. QED BY <1>4 DEF groups

\* Every request for groups.
LEMMA CreateGroupKeeps ==
  ASSUME NEW s, Tidy(s), NEW g \in GroupIds, NEW name \in GroupNames
  PROVE  Kept(s, CreateGroup(s, g, name))
<1> DEFINE group == [name |-> name, printers |-> {}]
<1>1. group \in Group /\ group.printers \subseteq DOMAIN s.printers BY DEF Group
<1>2. CreateGroup(s, g, name) = WithGroups(s, Put(s.groups, g, group))
  BY DEF CreateGroup, WithGroups
<1> HIDE DEF group
<1>3. QED BY <1>1, <1>2, PutGroupKeeps DEF Tidy

LEMMA ChangeGroupKeeps ==
  ASSUME NEW s, Tidy(s), NEW g \in DOMAIN s.groups
  PROVE  /\ \A name \in GroupNames : Kept(s, UpdateGroupName(s, g, name))
         /\ \A p \in PrinterIds : Kept(s, AddPrinterToGroup(s, g, p))
         /\ \A p \in PrinterIds : Kept(s, RemovePrinterFromGroup(s, g, p))
         /\ Kept(s, DeleteGroup(s, g))
<1>1. /\ s \in Farms /\ s.groups \in GroupRows /\ g \in GroupIds /\ s.groups[g] \in Group
      /\ s.groups[g].printers \subseteq DOMAIN s.printers
  BY FarmTables DEF Tidy, Sound, GroupsKnown
<1>2. ASSUME NEW group \in Group, group.printers \subseteq DOMAIN s.printers
      PROVE  Kept(s, WithGroups(s, [s.groups EXCEPT ![g] = group]))
  <2>1. [s.groups EXCEPT ![g] = group] = Put(s.groups, g, group)
    BY <1>1, <1>2, SetTable DEF GroupRows
  <2>2. QED BY <1>1, <1>2, <2>1, PutGroupKeeps DEF Tidy
<1>3. ASSUME NEW name \in GroupNames PROVE Kept(s, UpdateGroupName(s, g, name))
  <2> DEFINE group == [s.groups[g] EXCEPT !.name = name]
  <2>1. group \in Group /\ group.printers \subseteq DOMAIN s.printers BY <1>1 DEF Group
  <2>2. UpdateGroupName(s, g, name) = WithGroups(s, [s.groups EXCEPT ![g] = group])
    BY DEF UpdateGroupName, WithGroups
  <2> HIDE DEF group
  <2>3. QED BY <1>2, <2>1, <2>2
<1>4. ASSUME NEW p \in PrinterIds PROVE Kept(s, AddPrinterToGroup(s, g, p))
  <2> DEFINE group == [s.groups[g] EXCEPT !.printers = s.groups[g].printers \cup {p}]
  <2>1. CASE p \in DOMAIN s.printers
    <3>1. group \in Group /\ group.printers \subseteq DOMAIN s.printers
      BY <1>1, <2>1 DEF Group
    <3>2. AddPrinterToGroup(s, g, p) = WithGroups(s, [s.groups EXCEPT ![g] = group])
      BY <2>1 DEF AddPrinterToGroup, WithGroups
    <3> HIDE DEF group
    <3>3. QED BY <1>2, <3>1, <3>2
  <2>2. CASE p \notin DOMAIN s.printers BY <2>2 DEF AddPrinterToGroup, Kept
  <2>3. QED BY <2>1, <2>2
<1>5. ASSUME NEW p \in PrinterIds PROVE Kept(s, RemovePrinterFromGroup(s, g, p))
  <2> DEFINE group == [s.groups[g] EXCEPT !.printers = s.groups[g].printers \ {p}]
  <2>1. group \in Group /\ group.printers \subseteq DOMAIN s.printers BY <1>1 DEF Group
  <2>2. RemovePrinterFromGroup(s, g, p) = WithGroups(s, [s.groups EXCEPT ![g] = group])
    BY DEF RemovePrinterFromGroup, WithGroups
  <2> HIDE DEF group
  <2>3. QED BY <1>2, <2>1, <2>2
<1>6. Kept(s, DeleteGroup(s, g))
  <2> DEFINE groups == Restrict(s.groups, DOMAIN s.groups \ {g})
  <2>1. groups \in GroupRows BY <1>1, RestrictTable DEF GroupRows
  <2>2. \A x \in DOMAIN groups : groups[x].printers \subseteq DOMAIN s.printers
    BY DEF Restrict, Tidy, Sound, GroupsKnown
  <2>3. DeleteGroup(s, g) = WithGroups(s, groups) BY DEF DeleteGroup, WithGroups
  <2> HIDE DEF groups
  <2>4. QED BY <2>1, <2>2, <2>3, WithGroupsKeeps DEF Tidy
<1>7. QED BY <1>3, <1>4, <1>5, <1>6

---------------------------------------------------------------------------
(* Files with SQLite                                                       *)

\* The first of some numbers is one of them, ...
LEMMA FirstNumberIs ==
  ASSUME NEW ns \in SUBSET Nat, ns # {}
  PROVE  FirstNumber(ns) \in ns /\ \A n \in ns : FirstNumber(ns) <= n
<1>1. IsWellFoundedOn(OpToRel(<, Nat), Nat) BY NatLessThanWellFounded
<1>2. \E n \in ns : \A m \in ns : ~(<<m, n>> \in OpToRel(<, Nat)) BY <1>1, WFMin
<1>3. \E n \in ns : \A m \in ns : n <= m
  <2>1. PICK n \in ns : \A m \in ns : ~(<<m, n>> \in OpToRel(<, Nat)) BY <1>2
  <2>2. ASSUME NEW m \in ns PROVE n <= m
    <3>1. <<m, n>> \in Nat \X Nat /\ ~(<<m, n>> \in OpToRel(<, Nat)) BY <2>1
    <3>2. ~(m < n) BY <3>1 DEF OpToRel
    <3>3. m \in Nat /\ n \in Nat OBVIOUS
    <3>4. QED BY <3>2, <3>3
  <2>3. QED BY <2>2
<1>4. QED BY <1>3 DEF FirstNumber

\* ... and so is the first of some rows, when rows have an order.
Ordered(s) == DOMAIN s.order = PrinterIds \cup FloorIds

LEMMA FirstIs ==
  ASSUME NEW s \in Farms, Ordered(s), NEW ids \in SUBSET (PrinterIds \cup FloorIds), ids # {}
  PROVE  First(s, ids) \in ids
<1> DEFINE ns == {s.order[i] : i \in ids}
<1>1. s.order \in Orders BY FarmTables
<1>2. \A i \in ids : s.order[i] \in Nat BY <1>1, TableIs DEF Orders, Ordered
<1>3. ns \in SUBSET Nat /\ ns # {} BY <1>2
<1> HIDE DEF ns
<1>4. FirstNumber(ns) \in ns /\ \A n \in ns : FirstNumber(ns) <= n BY <1>3, FirstNumberIs
<1>5. \E i \in ids : \A j \in ids : s.order[i] <= s.order[j] BY <1>4 DEF ns
<1>6. QED BY <1>5 DEF First

\* The entry of the database that an entry of the file updates.
LEMMA PrinterTargetIs ==
  ASSUME NEW s \in Farms, Ordered(s), NEW printer, NEW strategies, DOMAIN strategies \subseteq Nat
  PROVE  PrinterTarget(s, printer, strategies) # None =>
           PrinterTarget(s, printer, strategies) \in DOMAIN s.printers
<1> DEFINE hits == {i \in DOMAIN strategies : PrintersLike(s, printer, strategies[i]) # {}}
           ids == PrintersLike(s, printer, strategies[FirstNumber(hits)])
<1>1. CASE hits = {} BY <1>1 DEF PrinterTarget
<1>2. CASE hits # {}
  <2>1. hits \in SUBSET Nat OBVIOUS
  <2>2. FirstNumber(hits) \in hits BY <1>2, <2>1, FirstNumberIs
  <2>3. ids # {} BY <2>2
  <2>4. ids \in SUBSET DOMAIN s.printers BY DEF PrintersLike
  <2>5. PrinterTarget(s, printer, strategies) = First(s, ids) BY <1>2 DEF PrinterTarget
  <2> HIDE DEF ids, hits
  <2>6. First(s, ids) \in ids BY <2>3, <2>4, FirstIs, FarmTables
  <2>7. QED BY <2>4, <2>5, <2>6
<1>3. QED BY <1>1, <1>2

LEMMA FloorTargetIs ==
  ASSUME NEW s \in Farms, Ordered(s), NEW floor, NEW strategy
  PROVE  FloorTarget(s, floor, strategy) # None => FloorTarget(s, floor, strategy) \in DOMAIN s.floors
<1> DEFINE hits == {f \in DOMAIN s.floors :
                      IF strategy = "name" THEN s.floors[f].name = floor.name
                                           ELSE s.floors[f].level = floor.level}
<1>1. CASE hits = {} BY <1>1 DEF FloorTarget
<1>2. CASE hits # {}
  <2>1. hits \in SUBSET DOMAIN s.floors OBVIOUS
  <2>2. FloorTarget(s, floor, strategy) = First(s, hits) BY <1>2 DEF FloorTarget
  <2> HIDE DEF hits
  <2>3. First(s, hits) \in hits BY <1>2, <2>1, FirstIs, FarmTables
  <2>4. QED BY <2>1, <2>2, <2>3
<1>3. QED BY <1>1, <1>2

\* Ids are left as long as there were as many as there is to insert.
LEMMA IdsLeft ==
  ASSUME NEW N, IsFiniteSet(N), NEW V \in SUBSET N, V # N, NEW f, V \subseteq DOMAIN f,
         NEW ids, IsFiniteSet(ids), Cardinality(N) <= Cardinality(ids)
  PROVE  ~(ids \subseteq {f[i] : i \in V})
<1> DEFINE T == {f[i] : i \in V}
           g == [i \in V |-> f[i]]
<1>1. SUFFICES ASSUME ids \subseteq T PROVE FALSE OBVIOUS
<1>2. IsFiniteSet(V) /\ Cardinality(V) < Cardinality(N) BY FS_Subset, FS_CardinalityType
<1>3. g \in Surjection(V, T) BY DEF Surjection
<1>4. IsFiniteSet(T) /\ Cardinality(T) <= Cardinality(V) BY <1>2, <1>3, FS_Surjection
<1> HIDE DEF T
<1>5. Cardinality(ids) <= Cardinality(T) BY <1>1, <1>4, FS_Subset
<1>6. /\ Cardinality(ids) \in Nat /\ Cardinality(T) \in Nat
      /\ Cardinality(V) \in Nat /\ Cardinality(N) \in Nat
  BY <1>2, <1>4, FS_CardinalityType
<1>7. QED BY <1>2, <1>4, <1>5, <1>6

\* Results of the calls of an import.
Results(file) ==
  [s: Farms, ok: BOOLEAN, pmap: Table(DOMAIN file.printers, PrinterIds),
   fmap: Table(DOMAIN file.floors, FloorIds)]

\* So far: the farm is tidy, rows have an order, imported printers exist.
Imported(s, file) ==
  {r \in Results(file) :
     /\ Tidy(r.s) /\ Ordered(r.s)
     /\ \A i \in DOMAIN r.pmap : r.pmap[i] \in DOMAIN r.s.printers
     /\ DOMAIN s.printers \subseteq DOMAIN r.s.printers
     /\ r.s.groups = s.groups}

\* While printers are imported: floors stay.
PrinterResults(s, file) ==
  {r \in Imported(s, file) :
     /\ r.ok /\ r.fmap = <<>>
     /\ r.s.floors = s.floors /\ r.s.store = s.store}

\* A printer of the file that is imported as p.
LEMMA ImportedPrinter ==
  ASSUME NEW s, NEW file, NEW r \in PrinterResults(s, file), NEW i \in DOMAIN file.printers,
         NEW p \in PrinterIds, NEW t, Kept(r.s, t),
         t.floors = r.s.floors, t.store = r.s.store, t.groups = r.s.groups, t.order = r.s.order,
         DOMAIN t.printers = DOMAIN r.s.printers \cup {p}
  PROVE  [r EXCEPT !.s = t, !.pmap = Put(@, i, p)] \in PrinterResults(s, file)
<1> DEFINE pmap == Put(r.pmap, i, p)
           q == [r EXCEPT !.s = t, !.pmap = pmap]
<1>1. /\ r \in Results(file) /\ r.pmap \in Table(DOMAIN file.printers, PrinterIds) /\ t \in Farms
  BY DEF PrinterResults, Imported, Results, Kept, Tidy, Sound
<1>2. pmap \in Table(DOMAIN file.printers, PrinterIds) BY <1>1, PutTable
<1>3. \A j \in DOMAIN pmap : pmap[j] \in DOMAIN t.printers
  BY DEF Put, PrinterResults, Imported
<1> HIDE DEF pmap
<1>4. q \in Results(file) BY <1>1, <1>2 DEF Results
<1>5. q.s = t /\ q.pmap = pmap /\ q.ok = r.ok /\ q.fmap = r.fmap BY <1>1 DEF Results
<1> HIDE DEF q
<1>6. q \in PrinterResults(s, file)
  BY <1>3, <1>4, <1>5 DEF PrinterResults, Imported, Kept, Ordered
<1>7. QED BY <1>6 DEF q, pmap

\* Of the unused ids, only p was used.
Took(s, t, p) == UnusedPrinters(s) \subseteq UnusedPrinters(t) \cup {p}

\* A printer that is new, and one that is updated.
LEMMA ImportNewPrinterIs ==
  ASSUME NEW s, NEW file, IsFile(file), NEW r \in PrinterResults(s, file), NEW i \in DOMAIN file.printers,
         UnusedPrinters(r.s) # {},
         NEW got, got = ImportNewPrinter(r, i, file.printers[i]),
         NEW new, new = First(r.s, UnusedPrinters(r.s))
  PROVE  /\ got \in PrinterResults(s, file)
         /\ new \in UnusedPrinters(r.s)
         /\ got.pmap = Put(r.pmap, i, new)
         /\ Took(r.s, got.s, new)
<1> DEFINE p == First(r.s, UnusedPrinters(r.s))
           printer == file.printers[i]
           t == InsertPrinter(r.s, p, printer)
           q == [r EXCEPT !.s = t, !.pmap = Put(@, i, p)]
<1>1. got = q BY DEF ImportNewPrinter, InsertPrinter
<1>2. Tidy(r.s) /\ Ordered(r.s) /\ r.s \in Farms /\ r \in Results(file)
  BY DEF PrinterResults, Imported, Tidy, Sound
<1>3. UnusedPrinters(r.s) \in SUBSET (PrinterIds \cup FloorIds) BY DEF UnusedPrinters
<1>4. p \in UnusedPrinters(r.s) BY <1>2, <1>3, FirstIs
<1>5. p \in PrinterIds /\ printer \in Printer BY <1>4 DEF UnusedPrinters, IsFile
<1> HIDE DEF p, printer
<1>6. /\ Kept(r.s, t)
      /\ t.floors = r.s.floors /\ t.store = r.s.store /\ t.groups = r.s.groups /\ t.order = r.s.order
      /\ DOMAIN t.printers = DOMAIN r.s.printers \cup {p}
  BY <1>2, <1>5, OrmInsertKeeps
<1> HIDE DEF t
<1>7. q \in PrinterResults(s, file) BY <1>5, <1>6, ImportedPrinter
<1>8. q.s = t /\ q.pmap = Put(r.pmap, i, p) BY <1>2 DEF Results
<1>9. DOMAIN t.cache = DOMAIN t.printers BY <1>6 DEF Kept, Tidy, Sound, CacheFollows
<1>10. Took(r.s, t, p) BY <1>6, <1>9 DEF UnusedPrinters, Took
<1>11. new = p BY DEF p
<1> HIDE DEF q
<1>12. QED BY <1>1, <1>4, <1>7, <1>8, <1>10, <1>11

LEMMA ImportPrinterUpdateIs ==
  ASSUME NEW s, NEW file, IsFile(file), NEW r \in PrinterResults(s, file), NEW i \in DOMAIN file.printers,
         NEW p \in DOMAIN s.printers
  PROVE  ImportPrinterUpdate(r, i, file.printers[i], p) \in PrinterResults(s, file)
<1> DEFINE printer == file.printers[i]
           t == OrmUpdate(r.s, p, printer)
<1>1. Tidy(r.s) /\ p \in DOMAIN r.s.printers /\ Fits(printer)
  BY BodiesFit DEF PrinterResults, Imported, IsFile
<1> HIDE DEF printer
<1>2. /\ Kept(r.s, t)
      /\ t.floors = r.s.floors /\ t.store = r.s.store /\ t.groups = r.s.groups /\ t.order = r.s.order
      /\ DOMAIN t.printers = DOMAIN r.s.printers
  BY <1>1, OrmUpdateKeeps
<1>3. p \in PrinterIds /\ DOMAIN t.printers = DOMAIN r.s.printers \cup {p}
  BY <1>1, <1>2, FarmTables DEF Tidy, Sound
<1> HIDE DEF t
<1>4. [r EXCEPT !.s = t, !.pmap = Put(@, i, p)] \in PrinterResults(s, file)
  BY <1>2, <1>3, ImportedPrinter
<1>5. QED BY <1>4 DEF ImportPrinterUpdate, t, printer

\* The new printers of a file, inserted one by one.
InsertPrinters(s, file, new) ==
  LET insert(i, r) == ImportNewPrinter(r, i, file.printers[i])
      start == [s |-> s, ok |-> TRUE, pmap |-> <<>>, fmap |-> <<>>]
  IN  FoldSet(insert, start, new)

LEMMA InsertPrintersIs ==
  ASSUME NEW s, Tidy(s), Ordered(s), NEW file, IsFile(file), NEW S \in SUBSET DOMAIN file.printers,
         Cardinality(S) <= Cardinality(UnusedPrinters(s))
  PROVE  InsertPrinters(s, file, S) \in PrinterResults(s, file)
<1> DEFINE start == [s |-> s, ok |-> TRUE, pmap |-> <<>>, fmap |-> <<>>]
           insert(i, r) == ImportNewPrinter(r, i, file.printers[i])
           R == PrinterResults(s, file)
           W(U) == {r \in R : /\ U \subseteq DOMAIN r.pmap
                              /\ UnusedPrinters(s) \subseteq UnusedPrinters(r.s) \cup {r.pmap[i] : i \in U}}
           F == [z \in S \X R |-> insert(z[1], z[2])]
           C == AnyOf(S)
           I == [U \in SUBSET S |-> W(U)]
           rec(q) == q = [U \in SUBSET S |->
                            IF U = {} THEN start ELSE insert(CHOOSE x \in U : TRUE, q[U \ {CHOOSE x \in U : TRUE}])]
           it == CHOOSE q : rec(q)
<1>1. IsFiniteSet(S) /\ IsFiniteSet(UnusedPrinters(s))
  <2>1. UnusedPrinters(s) \subseteq PrinterIds BY DEF UnusedPrinters
  <2>2. QED BY <2>1, IdsOfRows, FS_Subset DEF IsFile
<1>2. start \in W({})
  <2>1. start \in Results(file) BY EmptyTable DEF Results, Tidy, Sound
  <2>2. DOMAIN start.pmap = {} BY EmptyTable
  <2>3. start \in R BY <2>1, <2>2 DEF PrinterResults, Imported
  <2>4. QED BY <2>3
<1>3. ASSUME NEW U \in SUBSET S, NEW i \in U, NEW r \in W(U \ {i})
      PROVE  insert(i, r) \in W(U)
  <2> DEFINE p == First(r.s, UnusedPrinters(r.s))
             q == ImportNewPrinter(r, i, file.printers[i])
             left == U \ {i}
  <2>1. r \in R /\ i \in DOMAIN file.printers /\ left \subseteq DOMAIN r.pmap BY <1>3
  <2>2. UnusedPrinters(r.s) # {}
    <3>1. left \in SUBSET S /\ left # S BY <1>3
    <3> HIDE DEF left
    <3>2. ~(UnusedPrinters(s) \subseteq {r.pmap[j] : j \in left})
      BY <1>1, <2>1, <3>1, IdsLeft
    <3>3. QED BY <1>3, <3>2 DEF left
  <2>3. /\ q \in R /\ p \in UnusedPrinters(r.s) /\ q.pmap = Put(r.pmap, i, p)
        /\ UnusedPrinters(r.s) \subseteq UnusedPrinters(q.s) \cup {p}
    <3> HIDE DEF left, W, p, q
    <3>1. p = First(r.s, UnusedPrinters(r.s)) /\ q = ImportNewPrinter(r, i, file.printers[i])
      BY DEF p, q
    <3>2. q \in R BY <2>1, <2>2, <3>1, ImportNewPrinterIs
    <3>3. p \in UnusedPrinters(r.s) /\ q.pmap = Put(r.pmap, i, p)
      BY <2>1, <2>2, <3>1, ImportNewPrinterIs
    <3>4. Took(r.s, q.s, p) BY <2>1, <2>2, <3>1, ImportNewPrinterIs
    <3>5. QED BY <3>2, <3>3, <3>4 DEF Took
  <2> HIDE DEF p, q
  <2>4. U \subseteq DOMAIN q.pmap /\ q.pmap[i] = p /\ \A j \in left : q.pmap[j] = r.pmap[j] \/ j = i
    BY <2>1, <2>3 DEF Put
  <2>5. ASSUME NEW x \in UnusedPrinters(s)
        PROVE  x \in UnusedPrinters(q.s) \cup {q.pmap[j] : j \in U}
    <3>1. CASE x \in UnusedPrinters(r.s) BY <3>1, <2>3, <2>4, <1>3
    <3>2. CASE x \in {r.pmap[j] : j \in left} BY <3>2, <2>4
    <3>3. QED BY <2>5, <3>1, <3>2, <1>3
  <2>6. q \in W(U) BY <2>3, <2>4, <2>5
  <2>7. QED BY <2>6 DEF q
<1>4. \A U : W(U) \subseteq R OBVIOUS
<1>5. Choice(C, S) BY AnyOfChooses
<1>6. InsertPrinters(s, file, S) = it[S] BY DEF InsertPrinters, FoldSet, MapThenFoldSet
<1> HIDE DEF R, W, insert
<1>7. \A U \in SUBSET S : U # {} => \A t \in I[U \ {C[U]}] : F[<<C[U], t>>] \in I[U]
  <2>1. SUFFICES ASSUME NEW U \in SUBSET S, U # {}, NEW t \in I[U \ {C[U]}]
                 PROVE  F[<<C[U], t>>] \in I[U]
    OBVIOUS
  <2>2. C[U] \in U /\ U \ {C[U]} \in SUBSET S BY <2>1, <1>5 DEF Choice
  <2>3. t \in W(U \ {C[U]}) /\ t \in R BY <2>1, <2>2, <1>4
  <2>4. insert(C[U], t) \in W(U) BY <2>1, <2>2, <2>3, <1>3
  <2>5. F[<<C[U], t>>] = insert(C[U], t) BY <2>2, <2>3
  <2>6. QED BY <2>4, <2>5
<1>8. start \in I[{}] BY <1>2
<1>9. \A U \in SUBSET S : I[U] = W(U) OBVIOUS
<1> HIDE DEF I, C
<1>10. PICK h : IsFold(h, S, start, F, C) /\ \A U \in SUBSET S : h[U] \in I[U]
  BY <1>1, <1>5, <1>7, <1>8, FoldWithin
<1>11. rec(h)
  <2>1. ASSUME NEW U \in SUBSET S, U # {}
        PROVE  h[U] = insert(CHOOSE x \in U : TRUE, h[U \ {CHOOSE x \in U : TRUE}])
    <3>1. C[U] = (CHOOSE x \in U : TRUE) /\ C[U] \in S /\ U \ {C[U]} \in SUBSET S
      BY <2>1, <1>5 DEF C, AnyOf, Choice
    <3>2. h[U \ {C[U]}] \in R BY <3>1, <1>9, <1>10, <1>4
    <3>3. h[U] = F[<<C[U], h[U \ {C[U]}]>>] BY <1>10, <2>1 DEF IsFold
    <3>4. h[U] = insert(C[U], h[U \ {C[U]}]) BY <3>1, <3>2, <3>3
    <3>5. QED BY <3>1, <3>4
  <2>2. h = [U \in SUBSET S |-> h[U]] /\ h[{}] = start BY <1>10 DEF IsFold
  <2>3. QED BY <2>1, <2>2
<1>12. rec(it) BY <1>11
<1> HIDE DEF it, F
<1>13. it[{}] \in I[{}] BY <1>8, <1>12
<1>14. ASSUME NEW U \in SUBSET S, U # {}, it[U \ {C[U]}] \in I[U \ {C[U]}]
       PROVE  it[U] \in I[U]
  <2>1. C[U] = (CHOOSE x \in U : TRUE) /\ C[U] \in U /\ U \ {C[U]} \in SUBSET S
    BY <1>14, <1>5 DEF C, AnyOf, Choice
  <2>2. it[U] = insert(C[U], it[U \ {C[U]}]) BY <1>12, <1>14, <2>1
  <2>3. it[U \ {C[U]}] \in W(U \ {C[U]}) BY <1>14, <1>9, <2>1
  <2>4. insert(C[U], it[U \ {C[U]}]) \in W(U) BY <1>3, <1>14, <2>1, <2>3
  <2>5. QED BY <1>9, <1>14, <2>2, <2>4
<1>15. \A U \in SUBSET S : it[U] \in I[U] BY <1>1, <1>5, <1>13, <1>14, FoldInduction
<1>16. InsertPrinters(s, file, S) \in W(S) BY <1>6, <1>9, <1>15
<1>17. QED BY <1>16 DEF W, R

\* The known ones are updated.
UpdatePrinters(s, file, target, r0, known) ==
  LET update(i, r) == ImportPrinterUpdate(r, i, file.printers[i], target[i])
  IN  FoldSet(update, r0, known)

LEMMA UpdatePrintersIs ==
  ASSUME NEW s, Tidy(s), NEW file, IsFile(file), NEW S \in SUBSET DOMAIN file.printers,
         NEW target, \A i \in S : target[i] \in DOMAIN s.printers,
         NEW r0 \in PrinterResults(s, file)
  PROVE  UpdatePrinters(s, file, target, r0, S) \in PrinterResults(s, file)
<1> DEFINE update(i, r) == ImportPrinterUpdate(r, i, file.printers[i], target[i])
           R == PrinterResults(s, file)
           W(U) == R
           F == [z \in S \X R |-> update(z[1], z[2])]
           C == AnyOf(S)
           I == [U \in SUBSET S |-> W(U)]
           rec(q) == q = [U \in SUBSET S |->
                            IF U = {} THEN r0 ELSE update(CHOOSE x \in U : TRUE, q[U \ {CHOOSE x \in U : TRUE}])]
           it == CHOOSE q : rec(q)
<1>1. IsFiniteSet(S) BY FS_Subset DEF IsFile
<1>2. r0 \in W({}) OBVIOUS
<1>3. ASSUME NEW U \in SUBSET S, NEW i \in U, NEW r \in W(U \ {i})
      PROVE  update(i, r) \in W(U)
  BY ImportPrinterUpdateIs
<1>4. \A U : W(U) \subseteq R OBVIOUS
<1>5. Choice(C, S) BY AnyOfChooses
<1>6. UpdatePrinters(s, file, target, r0, S) = it[S]
  BY DEF UpdatePrinters, FoldSet, MapThenFoldSet
<1> HIDE DEF R, W, update
<1>7. \A U \in SUBSET S : U # {} => \A t \in I[U \ {C[U]}] : F[<<C[U], t>>] \in I[U]
  <2>1. SUFFICES ASSUME NEW U \in SUBSET S, U # {}, NEW t \in I[U \ {C[U]}]
                 PROVE  F[<<C[U], t>>] \in I[U]
    OBVIOUS
  <2>2. C[U] \in U /\ U \ {C[U]} \in SUBSET S BY <2>1, <1>5 DEF Choice
  <2>3. t \in W(U \ {C[U]}) /\ t \in R BY <2>1, <2>2, <1>4
  <2>4. update(C[U], t) \in W(U) BY <2>1, <2>2, <2>3, <1>3
  <2>5. F[<<C[U], t>>] = update(C[U], t) BY <2>2, <2>3
  <2>6. QED BY <2>4, <2>5
<1>8. r0 \in I[{}] BY <1>2
<1>9. \A U \in SUBSET S : I[U] = W(U) OBVIOUS
<1> HIDE DEF I, C
<1>10. PICK h : IsFold(h, S, r0, F, C) /\ \A U \in SUBSET S : h[U] \in I[U]
  BY <1>1, <1>5, <1>7, <1>8, FoldWithin
<1>11. rec(h)
  <2>1. ASSUME NEW U \in SUBSET S, U # {}
        PROVE  h[U] = update(CHOOSE x \in U : TRUE, h[U \ {CHOOSE x \in U : TRUE}])
    <3>1. C[U] = (CHOOSE x \in U : TRUE) /\ C[U] \in S /\ U \ {C[U]} \in SUBSET S
      BY <2>1, <1>5 DEF C, AnyOf, Choice
    <3>2. h[U \ {C[U]}] \in R BY <3>1, <1>9, <1>10, <1>4
    <3>3. h[U] = F[<<C[U], h[U \ {C[U]}]>>] BY <1>10, <2>1 DEF IsFold
    <3>4. h[U] = update(C[U], h[U \ {C[U]}]) BY <3>1, <3>2, <3>3
    <3>5. QED BY <3>1, <3>4
  <2>2. h = [U \in SUBSET S |-> h[U]] /\ h[{}] = r0 BY <1>10 DEF IsFold
  <2>3. QED BY <2>1, <2>2
<1>12. rec(it) BY <1>11
<1> HIDE DEF it, F
<1>13. it[{}] \in I[{}] BY <1>8, <1>12
<1>14. ASSUME NEW U \in SUBSET S, U # {}, it[U \ {C[U]}] \in I[U \ {C[U]}]
       PROVE  it[U] \in I[U]
  <2>1. C[U] = (CHOOSE x \in U : TRUE) /\ C[U] \in U /\ U \ {C[U]} \in SUBSET S
    BY <1>14, <1>5 DEF C, AnyOf, Choice
  <2>2. it[U] = update(C[U], it[U \ {C[U]}]) BY <1>12, <1>14, <2>1
  <2>3. it[U \ {C[U]}] \in W(U \ {C[U]}) BY <1>14, <1>9, <2>1
  <2>4. update(C[U], it[U \ {C[U]}]) \in W(U) BY <1>3, <1>14, <2>1, <2>3
  <2>5. QED BY <1>9, <1>14, <2>2, <2>4
<1>15. \A U \in SUBSET S : it[U] \in I[U] BY <1>1, <1>5, <1>13, <1>14, FoldInduction
<1>16. UpdatePrinters(s, file, target, r0, S) \in W(S) BY <1>6, <1>9, <1>15
<1>17. QED BY <1>16 DEF W, R

\* While floors are imported, none goes.
FloorResults(s, file) == {r \in Imported(s, file) : DOMAIN s.floors \subseteq DOMAIN r.s.floors}

\* The places that a file has for a floor are places.
LEMMA KnownArePlaces ==
  ASSUME NEW file, IsFile(file), NEW r \in Results(file), NEW i \in DOMAIN file.floors
  PROVE  KnownPlaces(r, file, i) \in SUBSET Position
<1>1. r.pmap \in Table(DOMAIN file.printers, PrinterIds) BY DEF Results
<1>2. \A j \in DOMAIN r.pmap : r.pmap[j] \in PrinterIds BY <1>1, TableIs
<1>3. ASSUME NEW pos \in file.floors[i].printers, pos.printer \in DOMAIN r.pmap
      PROVE  [printer |-> r.pmap[pos.printer], cell |-> pos.cell] \in Position
  BY <1>2, <1>3 DEF IsFile, Position
<1>4. QED BY <1>3 DEF KnownPlaces

\* A floor of the file that is imported as f.
LEMMA ImportedFloor ==
  ASSUME NEW s, NEW file, NEW r \in FloorResults(s, file), NEW i \in DOMAIN file.floors,
         NEW f \in FloorIds, NEW t, Tidy(t),
         t.printers = r.s.printers, t.groups = r.s.groups, t.order = r.s.order,
         DOMAIN r.s.floors \subseteq DOMAIN t.floors
  PROVE  /\ [r EXCEPT !.s = t, !.fmap = Put(@, i, f)] \in FloorResults(s, file)
         /\ [r EXCEPT !.s = t, !.ok = FALSE] \in FloorResults(s, file)
         /\ [r EXCEPT !.ok = FALSE] \in FloorResults(s, file)
<1> DEFINE fmap == Put(r.fmap, i, f)
           q == [r EXCEPT !.s = t, !.fmap = fmap]
<1>1. r \in Results(file) /\ r.fmap \in Table(DOMAIN file.floors, FloorIds) /\ t \in Farms
  BY DEF FloorResults, Imported, Results, Tidy, Sound
<1>2. fmap \in Table(DOMAIN file.floors, FloorIds) BY <1>1, PutTable
<1> HIDE DEF fmap
<1>3. q \in Results(file) /\ q.s = t /\ q.pmap = r.pmap BY <1>1, <1>2 DEF Results
<1> HIDE DEF q
<1>4. q \in FloorResults(s, file) BY <1>3 DEF FloorResults, Imported, Ordered
<1>5. [r EXCEPT !.s = t, !.ok = FALSE] \in FloorResults(s, file)
  <2> DEFINE u == [r EXCEPT !.s = t, !.ok = FALSE]
  <2>1. u \in Results(file) /\ u.s = t /\ u.pmap = r.pmap BY <1>1 DEF Results
  <2> HIDE DEF u
  <2>2. u \in FloorResults(s, file) BY <2>1 DEF FloorResults, Imported, Ordered
  <2>3. QED BY <2>2 DEF u
<1>6. [r EXCEPT !.ok = FALSE] \in FloorResults(s, file)
  <2> DEFINE u == [r EXCEPT !.ok = FALSE]
  <2>1. u \in Results(file) /\ u.s = r.s /\ u.pmap = r.pmap BY <1>1 DEF Results
  <2> HIDE DEF u
  <2>2. u \in FloorResults(s, file) BY <2>1 DEF FloorResults, Imported, Ordered
  <2>3. QED BY <2>2 DEF u
<1>7. QED BY <1>4, <1>5, <1>6 DEF q, fmap

\* What a call that throws leaves.
LEMMA ImportThrown ==
  ASSUME NEW s, NEW file, NEW r \in FloorResults(s, file)
  PROVE  [r EXCEPT !.ok = FALSE] \in FloorResults(s, file)
<1> DEFINE u == [r EXCEPT !.ok = FALSE]
<1>1. u \in Results(file) /\ u.s = r.s /\ u.pmap = r.pmap
  BY DEF Results, FloorResults, Imported
<1> HIDE DEF u
<1>2. u \in FloorResults(s, file) BY <1>1 DEF FloorResults, Imported, Ordered
<1>3. QED BY <1>2 DEF u

\* Of the unused ids, only f was used.
TookFloor(s, t, f) == UnusedFloors(s) \subseteq UnusedFloors(t) \cup {f}

\* A floor that is new, ...
LEMMA ImportNewFloorIs ==
  ASSUME NEW s, NEW file, IsFile(file), NEW r \in FloorResults(s, file), NEW i \in DOMAIN file.floors,
         r.ok, ~LevelTaken(r.s, file.floors[i].level), UnusedFloors(r.s) # {},
         NEW got, got = ImportNewFloor(r, i, file),
         NEW new, new = First(r.s, UnusedFloors(r.s))
  PROVE  /\ got \in FloorResults(s, file)
         /\ got.fmap = Put(r.fmap, i, new)
         /\ TookFloor(r.s, got.s, new)
<1> DEFINE name == file.floors[i].name
           level == file.floors[i].level
           wanted == IF file.grid THEN KnownPlaces(r, file, i) ELSE {}
           made == OrmCreateFloor(r.s, new, name, level, wanted)
           u == StoreFloor(made, new, made.floors[new])
<1>1. got = [r EXCEPT !.s = u, !.fmap = Put(@, i, new)] BY DEF ImportNewFloor
<1>2. Tidy(r.s) /\ Ordered(r.s) /\ r.s \in Farms /\ r \in Results(file)
  BY DEF FloorResults, Imported, Tidy, Sound
<1>3. UnusedFloors(r.s) \in SUBSET (PrinterIds \cup FloorIds) BY DEF UnusedFloors
<1>4. new \in FloorIds /\ new \notin DOMAIN r.s.floors /\ new \notin DOMAIN r.s.store
  <2>1. new \in UnusedFloors(r.s) BY <1>2, <1>3, FirstIs
  <2>2. QED BY <2>1 DEF UnusedFloors
<1>5. name \in FloorNames /\ level \in Levels BY DEF IsFile
<1>6. wanted \in SUBSET Position BY <1>2, KnownArePlaces
<1>7. ~LevelTaken(r.s, level) /\ Sound(r.s) BY <1>2 DEF Tidy
<1> HIDE DEF name, level, wanted
<1> HIDE DEF made
<1>8. /\ Sound(made)
      /\ made.printers = r.s.printers /\ made.store = r.s.store
      /\ made.groups = r.s.groups /\ made.order = r.s.order
      /\ DOMAIN made.floors = DOMAIN r.s.floors \cup {new}
  <2>1. Made(r.s, made, new, wanted) BY <1>4, <1>5, <1>6, <1>7, OrmCreateFloorIs DEF made
  <2>2. QED BY <2>1 DEF Made
<1>9. made \in Farms /\ made.floors[new] \in Floor BY <1>8, FarmTables DEF Sound
<1>10. Tidy(u)
  <2>1. new \in DOMAIN made.floors /\ DOMAIN made.store \subseteq DOMAIN made.floors
    BY <1>2, <1>8 DEF Tidy
  <2>2. QED BY <1>8, <2>1, StoreFloorKeeps
<1>11. /\ u.printers = r.s.printers /\ u.groups = r.s.groups /\ u.order = r.s.order
       /\ DOMAIN u.floors = DOMAIN r.s.floors \cup {new}
       /\ DOMAIN u.store = DOMAIN r.s.store \cup {new}
  <2>1. /\ u.printers = made.printers /\ u.floors = made.floors /\ u.groups = made.groups
        /\ u.order = made.order /\ DOMAIN u.store = DOMAIN made.store \cup {new}
    BY <1>4, <1>9, StoreFloorIs
  <2>2. QED BY <1>8, <2>1
<1> HIDE DEF u
<1>12. [r EXCEPT !.s = u, !.fmap = Put(@, i, new)] \in FloorResults(s, file)
  BY <1>4, <1>10, <1>11, ImportedFloor
<1>13. got.s = u /\ got.fmap = Put(r.fmap, i, new) BY <1>1, <1>2 DEF Results
<1>14. TookFloor(r.s, got.s, new) BY <1>11, <1>13 DEF TookFloor, UnusedFloors
<1>15. QED BY <1>1, <1>12, <1>13, <1>14

\* ... and one that is updated.
LEMMA ImportFloorUpdateIs ==
  ASSUME NEW s, NEW file, IsFile(file), NEW r \in FloorResults(s, file), NEW i \in DOMAIN file.floors,
         NEW f \in DOMAIN s.floors
  PROVE  ImportFloorUpdate(r, i, file, f) \in FloorResults(s, file)
<1> DEFINE name == file.floors[i].name
           level == file.floors[i].level
           wanted == IF file.grid THEN KnownPlaces(r, file, i) ELSE {}
           t == OrmUpdateFloor(r.s, f, name, level, wanted)
           u == StoreFloor(t, f, t.floors[f])
           got == ImportFloorUpdate(r, i, file, f)
<1>1. \/ got = [r EXCEPT !.ok = FALSE]
      \/ got = [r EXCEPT !.s = t, !.ok = FALSE] /\ LevelRefused(r.s, f, level)
      \/ got = [r EXCEPT !.s = u, !.fmap = Put(@, i, f)]
  BY DEF ImportFloorUpdate
<1>2. /\ Tidy(r.s) /\ Sound(r.s) /\ r.s \in Farms /\ r \in Results(file)
      /\ f \in DOMAIN r.s.floors /\ f \in FloorIds
  BY FarmTables DEF FloorResults, Imported, Tidy, Sound
<1>3. name \in FloorNames /\ level \in Levels BY DEF IsFile
<1>4. wanted \in SUBSET Position BY <1>2, KnownArePlaces
<1> HIDE DEF name, level, wanted, got
<1>5. /\ Sound(t) /\ t.printers = r.s.printers /\ t.store = r.s.store
      /\ t.groups = r.s.groups /\ t.order = r.s.order
      /\ DOMAIN t.floors = DOMAIN r.s.floors
      /\ \A g \in DOMAIN r.s.floors : g # f =>
           /\ t.floors[g].level = r.s.floors[g].level /\ t.floors[g].name = r.s.floors[g].name
           /\ t.floors[g].printers \subseteq r.s.floors[g].printers
  BY <1>2, <1>3, <1>4, OrmUpdateFloorIs
<1> HIDE DEF t
<1>6. Tidy(t) BY <1>2, <1>5 DEF Tidy
<1>7. Tidy(u)
  <2>1. Kept(r.s, StoreFloor(t, f, t.floors[f])) BY <1>2, <1>5, ChangedFloorKeeps
  <2>2. QED BY <2>1 DEF Kept
<1>8. /\ u.printers = r.s.printers /\ u.groups = r.s.groups /\ u.order = r.s.order
      /\ DOMAIN u.floors = DOMAIN r.s.floors
  <2>1. t \in Farms /\ t.floors[f] \in Floor BY <1>2, <1>5, FarmTables DEF Sound
  <2>2. QED BY <1>2, <1>5, <2>1, StoreFloorIs
<1> HIDE DEF u
<1>9. [r EXCEPT !.s = u, !.fmap = Put(@, i, f)] \in FloorResults(s, file)
  BY <1>2, <1>7, <1>8, ImportedFloor
<1>10. [r EXCEPT !.s = t, !.ok = FALSE] \in FloorResults(s, file)
  BY <1>2, <1>5, <1>6, ImportedFloor
<1>11. [r EXCEPT !.ok = FALSE] \in FloorResults(s, file) BY ImportThrown
<1>12. QED BY <1>1, <1>9, <1>10, <1>11 DEF got

\* The new floors of a file, inserted one by one.
InsertFloors(file, r0, new) ==
  LET insert(i, r) == ImportNewFloor(r, i, file)
  IN  FoldSet(insert, r0, new)

LEMMA InsertFloorsIs ==
  ASSUME NEW s, NEW file, IsFile(file), NEW S \in SUBSET DOMAIN file.floors,
         Cardinality(S) <= Cardinality(UnusedFloors(s)), NEW r0 \in PrinterResults(s, file)
  PROVE  InsertFloors(file, r0, S) \in FloorResults(s, file)
<1> DEFINE insert(i, r) == ImportNewFloor(r, i, file)
           R == FloorResults(s, file)
           W(U) == {r \in R : r.ok => /\ U \subseteq DOMAIN r.fmap
                              /\ UnusedFloors(s) \subseteq UnusedFloors(r.s) \cup {r.fmap[i] : i \in U}}
           F == [z \in S \X R |-> insert(z[1], z[2])]
           C == AnyOf(S)
           I == [U \in SUBSET S |-> W(U)]
           rec(q) == q = [U \in SUBSET S |->
                            IF U = {} THEN r0 ELSE insert(CHOOSE x \in U : TRUE, q[U \ {CHOOSE x \in U : TRUE}])]
           it == CHOOSE q : rec(q)
<1>1. IsFiniteSet(S) /\ IsFiniteSet(UnusedFloors(s))
  <2>1. UnusedFloors(s) \subseteq FloorIds BY DEF UnusedFloors
  <2>2. QED BY <2>1, IdsOfRows, FS_Subset DEF IsFile
<1>2. r0 \in W({}) BY DEF PrinterResults, FloorResults, UnusedFloors
<1>3. ASSUME NEW U \in SUBSET S, NEW i \in U, NEW r \in W(U \ {i})
      PROVE  insert(i, r) \in W(U)
  <2> DEFINE f == First(r.s, UnusedFloors(r.s))
             q == ImportNewFloor(r, i, file)
             left == U \ {i}
  <2>1. r \in R /\ i \in DOMAIN file.floors BY <1>3
  <2>2. CASE ~r.ok \/ LevelTaken(r.s, file.floors[i].level)
    <3>1. q = [r EXCEPT !.ok = FALSE] BY <2>2 DEF ImportNewFloor
    <3>2. q \in R /\ ~q.ok
      <4>1. [r EXCEPT !.ok = FALSE] \in R BY <2>1, ImportThrown
      <4>2. r \in Results(file) BY <2>1 DEF FloorResults, Imported
      <4>3. [r EXCEPT !.ok = FALSE].ok = FALSE BY <4>2 DEF Results
      <4>4. QED BY <3>1, <4>1, <4>3
    <3> HIDE DEF q, R
    <3>3. q \in W(U) BY <3>2
    <3>4. QED BY <3>3 DEF q
  <2>3. CASE r.ok /\ ~LevelTaken(r.s, file.floors[i].level)
    <3>1. /\ left \subseteq DOMAIN r.fmap
          /\ UnusedFloors(s) \subseteq UnusedFloors(r.s) \cup {r.fmap[j] : j \in left}
      BY <1>3, <2>3
    <3>2. UnusedFloors(r.s) # {}
      <4>1. left \in SUBSET S /\ left # S BY <1>3
      <4> HIDE DEF left
      <4>2. ~(UnusedFloors(s) \subseteq {r.fmap[j] : j \in left})
        BY <1>1, <3>1, <4>1, IdsLeft
      <4>3. QED BY <3>1, <4>2
    <3>3. q \in R /\ q.fmap = Put(r.fmap, i, f) /\ TookFloor(r.s, q.s, f)
      <4> HIDE DEF left, W, f, q
      <4>1. f = First(r.s, UnusedFloors(r.s)) /\ q = ImportNewFloor(r, i, file) BY DEF f, q
      <4>2. q \in R BY <2>1, <2>3, <3>2, <4>1, ImportNewFloorIs
      <4>3. q.fmap = Put(r.fmap, i, f) BY <2>1, <2>3, <3>2, <4>1, ImportNewFloorIs
      <4>4. TookFloor(r.s, q.s, f) BY <2>1, <2>3, <3>2, <4>1, ImportNewFloorIs
      <4>5. QED BY <4>2, <4>3, <4>4
    <3> HIDE DEF f, q
    <3>4. U \subseteq DOMAIN q.fmap /\ q.fmap[i] = f /\ \A j \in left : q.fmap[j] = r.fmap[j] \/ j = i
      BY <3>1, <3>3 DEF Put
    <3>5. ASSUME NEW x \in UnusedFloors(s)
          PROVE  x \in UnusedFloors(q.s) \cup {q.fmap[j] : j \in U}
      <4>1. CASE x \in UnusedFloors(r.s) BY <4>1, <3>3, <3>4, <1>3 DEF TookFloor
      <4>2. CASE x \in {r.fmap[j] : j \in left} BY <4>2, <3>4
      <4>3. QED BY <3>5, <3>1, <4>1, <4>2
    <3>6. q \in W(U) BY <3>3, <3>4, <3>5
    <3>7. QED BY <3>6 DEF q
  <2>4. QED BY <2>2, <2>3
<1>4. \A U : W(U) \subseteq R OBVIOUS
<1>5. Choice(C, S) BY AnyOfChooses
<1>6. InsertFloors(file, r0, S) = it[S] BY DEF InsertFloors, FoldSet, MapThenFoldSet
<1> HIDE DEF R, W, insert
<1>7. \A U \in SUBSET S : U # {} => \A t \in I[U \ {C[U]}] : F[<<C[U], t>>] \in I[U]
  <2>1. SUFFICES ASSUME NEW U \in SUBSET S, U # {}, NEW t \in I[U \ {C[U]}]
                 PROVE  F[<<C[U], t>>] \in I[U]
    OBVIOUS
  <2>2. C[U] \in U /\ U \ {C[U]} \in SUBSET S BY <2>1, <1>5 DEF Choice
  <2>3. t \in W(U \ {C[U]}) /\ t \in R BY <2>1, <2>2, <1>4
  <2>4. insert(C[U], t) \in W(U) BY <2>1, <2>2, <2>3, <1>3
  <2>5. F[<<C[U], t>>] = insert(C[U], t) BY <2>2, <2>3
  <2>6. QED BY <2>4, <2>5
<1>8. r0 \in I[{}] BY <1>2
<1>9. \A U \in SUBSET S : I[U] = W(U) OBVIOUS
<1> HIDE DEF I, C
<1>10. PICK h : IsFold(h, S, r0, F, C) /\ \A U \in SUBSET S : h[U] \in I[U]
  BY <1>1, <1>5, <1>7, <1>8, FoldWithin
<1>11. rec(h)
  <2>1. ASSUME NEW U \in SUBSET S, U # {}
        PROVE  h[U] = insert(CHOOSE x \in U : TRUE, h[U \ {CHOOSE x \in U : TRUE}])
    <3>1. C[U] = (CHOOSE x \in U : TRUE) /\ C[U] \in S /\ U \ {C[U]} \in SUBSET S
      BY <2>1, <1>5 DEF C, AnyOf, Choice
    <3>2. h[U \ {C[U]}] \in R BY <3>1, <1>9, <1>10, <1>4
    <3>3. h[U] = F[<<C[U], h[U \ {C[U]}]>>] BY <1>10, <2>1 DEF IsFold
    <3>4. h[U] = insert(C[U], h[U \ {C[U]}]) BY <3>1, <3>2, <3>3
    <3>5. QED BY <3>1, <3>4
  <2>2. h = [U \in SUBSET S |-> h[U]] /\ h[{}] = r0 BY <1>10 DEF IsFold
  <2>3. QED BY <2>1, <2>2
<1>12. rec(it) BY <1>11
<1> HIDE DEF it, F
<1>13. it[{}] \in I[{}] BY <1>8, <1>12
<1>14. ASSUME NEW U \in SUBSET S, U # {}, it[U \ {C[U]}] \in I[U \ {C[U]}]
       PROVE  it[U] \in I[U]
  <2>1. C[U] = (CHOOSE x \in U : TRUE) /\ C[U] \in U /\ U \ {C[U]} \in SUBSET S
    BY <1>14, <1>5 DEF C, AnyOf, Choice
  <2>2. it[U] = insert(C[U], it[U \ {C[U]}]) BY <1>12, <1>14, <2>1
  <2>3. it[U \ {C[U]}] \in W(U \ {C[U]}) BY <1>14, <1>9, <2>1
  <2>4. insert(C[U], it[U \ {C[U]}]) \in W(U) BY <1>3, <1>14, <2>1, <2>3
  <2>5. QED BY <1>9, <1>14, <2>2, <2>4
<1>15. \A U \in SUBSET S : it[U] \in I[U] BY <1>1, <1>5, <1>13, <1>14, FoldInduction
<1>16. InsertFloors(file, r0, S) \in W(S) BY <1>6, <1>9, <1>15
<1>17. QED BY <1>16 DEF W, R

\* The known ones are updated.
UpdateFloors(file, target, r0, known) ==
  LET update(i, r) == ImportFloorUpdate(r, i, file, target[i])
  IN  FoldSet(update, r0, known)

LEMMA UpdateFloorsIs ==
  ASSUME NEW s, NEW file, IsFile(file), NEW S \in SUBSET DOMAIN file.floors,
         NEW target, \A i \in S : target[i] \in DOMAIN s.floors,
         NEW r0 \in FloorResults(s, file)
  PROVE  UpdateFloors(file, target, r0, S) \in FloorResults(s, file)
<1> DEFINE update(i, r) == ImportFloorUpdate(r, i, file, target[i])
           R == FloorResults(s, file)
           W(U) == R
           F == [z \in S \X R |-> update(z[1], z[2])]
           C == AnyOf(S)
           I == [U \in SUBSET S |-> W(U)]
           rec(q) == q = [U \in SUBSET S |->
                            IF U = {} THEN r0 ELSE update(CHOOSE x \in U : TRUE, q[U \ {CHOOSE x \in U : TRUE}])]
           it == CHOOSE q : rec(q)
<1>1. IsFiniteSet(S) BY FS_Subset DEF IsFile
<1>2. r0 \in W({}) OBVIOUS
<1>3. ASSUME NEW U \in SUBSET S, NEW i \in U, NEW r \in W(U \ {i})
      PROVE  update(i, r) \in W(U)
  BY ImportFloorUpdateIs
<1>4. \A U : W(U) \subseteq R OBVIOUS
<1>5. Choice(C, S) BY AnyOfChooses
<1>6. UpdateFloors(file, target, r0, S) = it[S] BY DEF UpdateFloors, FoldSet, MapThenFoldSet
<1> HIDE DEF R, W, update
<1>7. \A U \in SUBSET S : U # {} => \A t \in I[U \ {C[U]}] : F[<<C[U], t>>] \in I[U]
  <2>1. SUFFICES ASSUME NEW U \in SUBSET S, U # {}, NEW t \in I[U \ {C[U]}]
                 PROVE  F[<<C[U], t>>] \in I[U]
    OBVIOUS
  <2>2. C[U] \in U /\ U \ {C[U]} \in SUBSET S BY <2>1, <1>5 DEF Choice
  <2>3. t \in W(U \ {C[U]}) /\ t \in R BY <2>1, <2>2, <1>4
  <2>4. update(C[U], t) \in W(U) BY <2>1, <2>2, <2>3, <1>3
  <2>5. F[<<C[U], t>>] = update(C[U], t) BY <2>2, <2>3
  <2>6. QED BY <2>4, <2>5
<1>8. r0 \in I[{}] BY <1>2
<1>9. \A U \in SUBSET S : I[U] = W(U) OBVIOUS
<1> HIDE DEF I, C
<1>10. PICK h : IsFold(h, S, r0, F, C) /\ \A U \in SUBSET S : h[U] \in I[U]
  BY <1>1, <1>5, <1>7, <1>8, FoldWithin
<1>11. rec(h)
  <2>1. ASSUME NEW U \in SUBSET S, U # {}
        PROVE  h[U] = update(CHOOSE x \in U : TRUE, h[U \ {CHOOSE x \in U : TRUE}])
    <3>1. C[U] = (CHOOSE x \in U : TRUE) /\ C[U] \in S /\ U \ {C[U]} \in SUBSET S
      BY <2>1, <1>5 DEF C, AnyOf, Choice
    <3>2. h[U \ {C[U]}] \in R BY <3>1, <1>9, <1>10, <1>4
    <3>3. h[U] = F[<<C[U], h[U \ {C[U]}]>>] BY <1>10, <2>1 DEF IsFold
    <3>4. h[U] = update(C[U], h[U \ {C[U]}]) BY <3>1, <3>2, <3>3
    <3>5. QED BY <3>1, <3>4
  <2>2. h = [U \in SUBSET S |-> h[U]] /\ h[{}] = r0 BY <1>10 DEF IsFold
  <2>3. QED BY <2>1, <2>2
<1>12. rec(it) BY <1>11
<1> HIDE DEF it, F
<1>13. it[{}] \in I[{}] BY <1>8, <1>12
<1>14. ASSUME NEW U \in SUBSET S, U # {}, it[U \ {C[U]}] \in I[U \ {C[U]}]
       PROVE  it[U] \in I[U]
  <2>1. C[U] = (CHOOSE x \in U : TRUE) /\ C[U] \in U /\ U \ {C[U]} \in SUBSET S
    BY <1>14, <1>5 DEF C, AnyOf, Choice
  <2>2. it[U] = update(C[U], it[U \ {C[U]}]) BY <1>12, <1>14, <2>1
  <2>3. it[U \ {C[U]}] \in W(U \ {C[U]}) BY <1>14, <1>9, <2>1
  <2>4. update(C[U], it[U \ {C[U]}]) \in W(U) BY <1>3, <1>14, <2>1, <2>3
  <2>5. QED BY <1>9, <1>14, <2>2, <2>4
<1>15. \A U \in SUBSET S : it[U] \in I[U] BY <1>1, <1>5, <1>13, <1>14, FoldInduction
<1>16. UpdateFloors(file, target, r0, S) \in W(S) BY <1>6, <1>9, <1>15
<1>17. QED BY <1>16 DEF W, R

\* While groups are imported, the floor store shows the floors.
GroupResults(s, file) ==
  {r \in Results(file) :
     /\ Tidy(r.s) /\ StoreFollows(r.s) /\ Ordered(r.s)
     /\ \A i \in DOMAIN r.pmap : r.pmap[i] \in DOMAIN r.s.printers
     /\ DOMAIN s.groups \subseteq DOMAIN r.s.groups}

\* The links of a group of the file are printers that exist.
Links(r, printers) == {r.pmap[i] : i \in printers \cap DOMAIN r.pmap}

LEMMA LinksKnown ==
  ASSUME NEW s, NEW file, NEW r \in GroupResults(s, file), NEW printers
  PROVE  Links(r, printers) \subseteq DOMAIN r.s.printers /\ Links(r, printers) \in SUBSET PrinterIds
<1>1. Links(r, printers) \subseteq DOMAIN r.s.printers /\ r.s \in Farms
  BY DEF GroupResults, Tidy, Sound, Links
<1>2. QED BY <1>1, FarmTables

\* A result with another farm.
WithFarm(r, s) == [r EXCEPT !.s = s]

\* The links of a row that was just put.
Relinked(f, k, w) == [f EXCEPT ![k].printers = w]

LEMMA PutChanged ==
  ASSUME NEW f, NEW k, NEW v, NEW w, NEW new, new = [v EXCEPT !.printers = w]
  PROVE  Relinked(Put(f, k, v), k, w) = Put(f, k, new)
<1>1. Put(f, k, v)[k] = v /\ k \in DOMAIN Put(f, k, v) BY DEF Put
<1>2. [Put(f, k, v) EXCEPT ![k].printers = w] = [Put(f, k, v) EXCEPT ![k] = new] BY <1>1
<1>3. [Put(f, k, v) EXCEPT ![k] = new] = Put(f, k, new) BY DEF Put
<1>4. QED BY <1>2, <1>3 DEF Relinked

\* A farm with a group of the file.
LEMMA ImportedGroup ==
  ASSUME NEW s, NEW file, NEW r \in GroupResults(s, file), NEW h \in GroupIds, NEW group \in Group,
         group.printers \subseteq DOMAIN r.s.printers,
         NEW got, got = WithFarm(r, WithGroups(r.s, Put(r.s.groups, h, group)))
  PROVE  got \in GroupResults(s, file) /\ DOMAIN got.s.groups = DOMAIN r.s.groups \cup {h}
<1> DEFINE t == WithGroups(r.s, Put(r.s.groups, h, group))
<1>1. r \in Results(file) /\ Tidy(r.s) /\ Sound(r.s) /\ StoreFollows(r.s)
  BY DEF GroupResults, Tidy
<1>2. /\ t.groups = Put(r.s.groups, h, group)
      /\ t.printers = r.s.printers /\ t.order = r.s.order /\ Kept(r.s, t)
  BY <1>1, PutGroupKeeps
<1>3. DOMAIN t.groups = DOMAIN r.s.groups \cup {h} BY <1>2 DEF Put
<1>4. t \in Farms /\ Tidy(t) /\ StoreFollows(t) BY <1>1, <1>2 DEF Kept, Tidy, Sound
<1>5. got = [r EXCEPT !.s = t] BY DEF WithFarm
<1> HIDE DEF t
<1>6. got \in Results(file) /\ got.s = t /\ got.pmap = r.pmap
  BY <1>1, <1>4, <1>5 DEF Results
<1>7. QED BY <1>2, <1>3, <1>4, <1>6 DEF GroupResults, Ordered

\* Of a file's group, whether it is known in s or not.
LEMMA ImportGroupIs ==
  ASSUME NEW s, NEW file, NEW r \in GroupResults(s, file), NEW group, group.name \in GroupNames,
         NEW g, g = None \/ g \in DOMAIN s.groups,
         g = None => UnusedGroups(r.s) # {},
         NEW got, got = ImportGroup(r, group, g)
  PROVE  /\ got \in GroupResults(s, file)
         /\ DOMAIN got.s.groups =
              DOMAIN r.s.groups \cup {IF g = None THEN FirstNumber(UnusedGroups(r.s)) ELSE g}
<1> DEFINE wanted == Links(r, group.printers)
           h == IF g = None THEN FirstNumber(UnusedGroups(r.s)) ELSE g
           none == [name |-> group.name, printers |-> {}]
           new == IF g = None THEN [name |-> group.name, printers |-> wanted]
                  ELSE [r.s.groups[g] EXCEPT !.printers = wanted]
<1>1. /\ r.s \in Farms /\ r.s.groups \in GroupRows /\ DOMAIN r.s.groups \subseteq GroupIds
      /\ \A x \in DOMAIN r.s.groups : r.s.groups[x] \in Group
  BY FarmTables DEF GroupResults, Tidy, Sound
<1>2. g # None => g \in DOMAIN r.s.groups BY DEF GroupResults
<1>3. h \in GroupIds
  <2>1. CASE g = None
    <3>1. UnusedGroups(r.s) \in SUBSET Nat /\ UnusedGroups(r.s) \subseteq GroupIds
      BY IdsOfRows DEF UnusedGroups
    <3>2. FirstNumber(UnusedGroups(r.s)) \in UnusedGroups(r.s) BY <2>1, <3>1, FirstNumberIs
    <3>3. QED BY <2>1, <3>1, <3>2
  <2>2. QED BY <1>1, <1>2, <2>1
<1>4. wanted \subseteq DOMAIN r.s.printers /\ wanted \in SUBSET PrinterIds BY LinksKnown
<1>5. /\ g = None => got = [r EXCEPT !.s = [CreateGroup(r.s, h, group.name) EXCEPT !.groups[h].printers = wanted]]
      /\ g # None => got = [r EXCEPT !.s = [r.s EXCEPT !.groups[h].printers = wanted]]
  BY DEF ImportGroup, Links
<1>6. new \in Group /\ new.printers = wanted BY <1>1, <1>2, <1>4 DEF Group
<1> HIDE DEF wanted, h
<1>7. got = WithFarm(r, WithGroups(r.s, Put(r.s.groups, h, new)))
  <2>1. CASE g = None
    <3>1. CreateGroup(r.s, h, group.name) = [r.s EXCEPT !.groups = Put(r.s.groups, h, none)]
      BY DEF CreateGroup
    <3>2. Relinked(Put(r.s.groups, h, none), h, wanted) = Put(r.s.groups, h, new)
      <4>1. [none EXCEPT !.printers = wanted] = new BY <2>1
      <4> HIDE DEF none, new
      <4>2. QED BY <4>1, PutChanged
    <3>3. [[r.s EXCEPT !.groups = Put(r.s.groups, h, none)] EXCEPT !.groups[h].printers = wanted]
            = [r.s EXCEPT !.groups = Relinked(Put(r.s.groups, h, none), h, wanted)]
      BY <1>1 DEF Farms, Relinked
    <3>4. QED BY <2>1, <1>5, <3>1, <3>2, <3>3 DEF WithGroups, WithFarm
  <2>2. CASE g # None
    <3>1. h = g /\ h \in DOMAIN r.s.groups BY <2>2, <1>2 DEF h
    <3>2. [r.s.groups EXCEPT ![h] = new] = Put(r.s.groups, h, new)
      BY <1>1, <1>6, <3>1, SetTable DEF GroupRows
    <3>3. [r.s EXCEPT !.groups[h].printers = wanted] = [r.s EXCEPT !.groups = [r.s.groups EXCEPT ![h] = new]]
      BY <2>2, <3>1
    <3>4. QED BY <2>2, <1>5, <3>2, <3>3 DEF WithGroups, WithFarm
  <2>3. QED BY <2>1, <2>2
<1> HIDE DEF new
<1>8. got \in GroupResults(s, file) /\ DOMAIN got.s.groups = DOMAIN r.s.groups \cup {h}
  BY <1>3, <1>4, <1>6, <1>7, ImportedGroup
<1>9. QED BY <1>8 DEF h

\* The group that a group of the file updates.
LEMMA GroupTargetIs ==
  ASSUME NEW s \in Farms, NEW group
  PROVE  /\ GroupTarget(s, group) = None \/ GroupTarget(s, group) \in DOMAIN s.groups
         /\ GroupTarget(s, group) = None => GroupsLike(s, group) = {}
<1> DEFINE ids == GroupsLike(s, group)
<1>1. DOMAIN s.groups \subseteq GroupIds /\ GroupIds \subseteq Nat /\ None \notin GroupIds
  BY FarmTables, IdsOfRows, NoValues
<1>2. ids \subseteq DOMAIN s.groups BY DEF GroupsLike
<1>3. ids # {} => FirstNumber(ids) \in ids
  <2>1. ids \in SUBSET Nat BY <1>1, <1>2
  <2> HIDE DEF ids
  <2>2. QED BY <2>1, FirstNumberIs
<1>4. GroupTarget(s, group) = IF ids = {} THEN None ELSE FirstNumber(ids) BY DEF GroupTarget
<1> HIDE DEF ids
<1>5. GroupTarget(s, group) = None => ids = {} BY <1>1, <1>2, <1>3, <1>4
<1>6. GroupTarget(s, group) = None \/ GroupTarget(s, group) \in DOMAIN s.groups
  BY <1>2, <1>3, <1>4
<1>7. QED BY <1>5, <1>6 DEF ids

\* The groups of a file that are inserted or updated come first in it.
StartOf(seq, groups) ==
  \E n \in 0..Len(groups) : DOMAIN seq = 1..n /\ \A i \in 1..n : seq[i] = groups[i]

LEMMA AnalysedGroupsIs ==
  ASSUME NEW s, NEW file, IsFile(file), NEW seq, seq = AnalysedGroups(s, file.groups)
  PROVE  StartOf(seq, file.groups)
<1> DEFINE groups == file.groups
           known == {i \in DOMAIN groups : GroupsLike(s, groups[i]) # {}}
           k == FirstNumber(known)
<1>1. Len(groups) \in Nat /\ DOMAIN groups = 1..Len(groups)
  <2>1. groups = [i \in 1..Len(groups) |-> groups[i]] /\ Len(groups) \in Nat BY DEF IsFile
  <2>2. QED BY <2>1
<1>2. CASE known = {} BY <1>1, <1>2 DEF AnalysedGroups, StartOf
<1>3. CASE known # {}
  <2>0. known \in SUBSET Nat BY <1>1
  <2>1. k \in known
    <3> HIDE DEF known
    <3>1. QED BY <2>0, <1>3, FirstNumberIs
  <2>2. k \in 1..Len(groups) BY <1>1, <2>1
  <2>3. seq = SubSeq(groups, 1, k) BY <1>3 DEF AnalysedGroups
  <2> HIDE DEF k, known
  <2>4. SubSeq(groups, 1, k) = [i \in 1..k |-> groups[i]] BY <1>1, <2>2
  <2>5. QED BY <1>1, <2>2, <2>3, <2>4 DEF StartOf
<1>4. QED BY <1>2, <1>3

\* The groups of a file, one after the other.
LEMMA ImportGroupsIs ==
  ASSUME NEW s \in Farms, NEW file, IsFile(file), NEW r0 \in GroupResults(s, file), r0.s.groups = s.groups,
         Cardinality({i \in DOMAIN file.groups : GroupsLike(s, file.groups[i]) = {}})
           <= Cardinality(UnusedGroups(s))
  PROVE  ImportGroups(s, r0, file) \in GroupResults(s, file)
<1> DEFINE seq == AnalysedGroups(s, file.groups)
           S == DOMAIN seq
           put(i, r) == ImportGroup(r, seq[i], GroupTarget(s, seq[i]))
           N == {i \in DOMAIN file.groups : GroupsLike(s, file.groups[i]) = {}}
           new(U) == {i \in U : GroupsLike(s, seq[i]) = {}}
           R == GroupResults(s, file)
           W(U) == {r \in R : \E m : /\ new(U) \subseteq DOMAIN m
                                   /\ UnusedGroups(s) \subseteq UnusedGroups(r.s) \cup {m[i] : i \in new(U)}}
           F == [z \in S \X R |-> put(z[1], z[2])]
           C == LastOf(S)
           I == [U \in SUBSET S |-> W(U)]
           rec(q) == q = [U \in SUBSET S |->
                            IF U = {} THEN r0 ELSE put(CHOOSE x \in U : \A y \in U : x >= y, q[U \ {CHOOSE x \in U : \A y \in U : x >= y}])]
           it == CHOOSE q : rec(q)
<1>21. PICK n \in 0..Len(file.groups) : S = 1..n /\ \A i \in 1..n : seq[i] = file.groups[i]
  <2>1. seq = AnalysedGroups(s, file.groups) OBVIOUS
  <2> HIDE DEF seq
  <2>2. StartOf(seq, file.groups) BY <2>1, AnalysedGroupsIs
  <2>3. QED BY <2>2 DEF StartOf
<1>22. Len(file.groups) \in Nat /\ DOMAIN file.groups = 1..Len(file.groups)
  <2>1. file.groups = [i \in 1..Len(file.groups) |-> file.groups[i]] /\ Len(file.groups) \in Nat
    BY DEF IsFile
  <2>2. QED BY <2>1
<1>23. /\ S \subseteq DOMAIN file.groups
       /\ \A i \in S : seq[i] = file.groups[i] /\ seq[i].name \in GroupNames
  BY <1>21, <1>22 DEF IsFile
<1>1. IsFiniteSet(S) /\ IsFiniteSet(N) /\ IsFiniteSet(UnusedGroups(s))
  <2>1. UnusedGroups(s) \subseteq GroupIds BY DEF UnusedGroups
  <2>2. IsFiniteSet(DOMAIN file.groups)
    <3> HIDE DEF S, N, W, it, F, C, I
    <3>1. IsFiniteSet(1..Len(file.groups)) BY <1>22, FS_Interval
    <3>2. QED BY <1>22, <3>1
  <2>3. S \subseteq DOMAIN file.groups /\ N \subseteq DOMAIN file.groups BY <1>23
  <2> HIDE DEF S, N
  <2>4. QED BY <2>1, <2>2, <2>3, IdsOfRows, FS_Subset
<1>2. r0 \in W({}) BY DEF UnusedGroups
<1>3. ASSUME NEW U \in SUBSET S, NEW i \in U, NEW r \in W(U \ {i})
      PROVE  put(i, r) \in W(U)
  <2> DEFINE g == GroupTarget(s, seq[i])
             h == IF g = None THEN FirstNumber(UnusedGroups(r.s)) ELSE g
             q == put(i, r)
             left == new(U \ {i})
  <2>1. r \in R /\ i \in S /\ seq[i].name \in GroupNames BY <1>3, <1>23
  <2>2. PICK m : /\ left \subseteq DOMAIN m
                 /\ UnusedGroups(s) \subseteq UnusedGroups(r.s) \cup {m[j] : j \in left}
    BY <1>3
  <2>3. (g = None \/ g \in DOMAIN s.groups) /\ (g = None => i \in new(U))
    <3> HIDE DEF seq, S
    <3>1. /\ GroupTarget(s, seq[i]) = None \/ GroupTarget(s, seq[i]) \in DOMAIN s.groups
          /\ GroupTarget(s, seq[i]) = None => GroupsLike(s, seq[i]) = {}
      BY GroupTargetIs
    <3>2. QED BY <3>1
  <2>4. g = None => UnusedGroups(r.s) # {}
    <3>1. ASSUME g = None PROVE UnusedGroups(r.s) # {}
      <4>1. left \in SUBSET N /\ left # N
        <5>1. i \in N /\ i \notin left BY <2>1, <2>3, <3>1, <1>23
        <5>2. left \subseteq N BY <1>3, <1>23
        <5>3. QED BY <5>1, <5>2
      <4>0. Cardinality(N) <= Cardinality(UnusedGroups(s)) OBVIOUS
      <4> HIDE DEF left, N
      <4>2. ~(UnusedGroups(s) \subseteq {m[j] : j \in left})
        BY <1>1, <2>2, <4>0, <4>1, IdsLeft
      <4>3. QED BY <2>2, <4>2
    <3>2. QED BY <3>1
  <2>5. q \in R /\ DOMAIN q.s.groups = DOMAIN r.s.groups \cup {h}
    <3> HIDE DEF seq, g
    <3>1. q = ImportGroup(r, seq[i], g) BY DEF g
    <3> HIDE DEF q, S, W, new
    <3>2. q \in R BY <2>1, <2>3, <2>4, <3>1, ImportGroupIs
    <3>3. DOMAIN q.s.groups = DOMAIN r.s.groups \cup {h}
      BY <2>1, <2>3, <2>4, <3>1, ImportGroupIs
    <3>4. QED BY <3>2, <3>3
  <2>6. g # None => h \in DOMAIN r.s.groups BY <2>1, <2>3 DEF GroupResults
  <2> DEFINE m1 == [j \in new(U) |-> IF j = i THEN h ELSE m[j]]
  <2> HIDE DEF q, h, g
  <2>7. ASSUME NEW x \in UnusedGroups(s)
        PROVE  x \in UnusedGroups(q.s) \cup {m1[j] : j \in new(U)}
    <3>1. CASE x \in UnusedGroups(r.s)
      <4>1. x \in UnusedGroups(q.s) \/ x = h BY <2>5, <3>1 DEF UnusedGroups
      <4>2. ASSUME x = h PROVE i \in new(U) BY <2>3, <2>6, <3>1, <4>2 DEF UnusedGroups
      <4>3. i \in new(U) => m1[i] = h OBVIOUS
      <4> HIDE DEF m1, new
      <4>4. QED BY <4>1, <4>2, <4>3
    <3>2. CASE x \in {m[j] : j \in left}
      <4>1. PICK j \in left : x = m[j] BY <3>2
      <4>2. j \in new(U) /\ m1[j] = m[j] BY <4>1
      <4> HIDE DEF m1, new
      <4>3. QED BY <4>1, <4>2
    <3>3. QED BY <2>2, <2>7, <3>1, <3>2
  <2>8. new(U) \subseteq DOMAIN m1 OBVIOUS
  <2> HIDE DEF m1, R
  <2>9. q \in W(U) BY <2>5, <2>7, <2>8
  <2>10. QED BY <2>9 DEF q
<1>4. \A U : W(U) \subseteq R OBVIOUS
<1>5. Choice(C, S) BY <1>21, LastOfChooses
<1>6. ImportGroups(s, r0, file) = it[S] BY DEF ImportGroups, FoldLeft, MapThenFoldSet, Max
<1> HIDE DEF S, R, W, seq, put
<1>7. \A U \in SUBSET S : U # {} => \A t \in I[U \ {C[U]}] : F[<<C[U], t>>] \in I[U]
  <2>1. SUFFICES ASSUME NEW U \in SUBSET S, U # {}, NEW t \in I[U \ {C[U]}]
                 PROVE  F[<<C[U], t>>] \in I[U]
    OBVIOUS
  <2>2. C[U] \in U /\ U \ {C[U]} \in SUBSET S BY <2>1, <1>5 DEF Choice
  <2>3. t \in W(U \ {C[U]}) /\ t \in R BY <2>1, <2>2, <1>4
  <2>4. put(C[U], t) \in W(U) BY <2>1, <2>2, <2>3, <1>3
  <2>5. F[<<C[U], t>>] = put(C[U], t) BY <2>2, <2>3
  <2>6. QED BY <2>4, <2>5
<1>8. r0 \in I[{}] BY <1>2
<1>9. \A U \in SUBSET S : I[U] = W(U) OBVIOUS
<1> HIDE DEF I, C
<1>10. PICK h : IsFold(h, S, r0, F, C) /\ \A U \in SUBSET S : h[U] \in I[U]
  BY <1>1, <1>5, <1>7, <1>8, FoldWithin
<1>11. rec(h)
  <2>1. ASSUME NEW U \in SUBSET S, U # {}
        PROVE  h[U] = put(CHOOSE x \in U : \A y \in U : x >= y, h[U \ {CHOOSE x \in U : \A y \in U : x >= y}])
    <3>1. C[U] = (CHOOSE x \in U : \A y \in U : x >= y) /\ C[U] \in S /\ U \ {C[U]} \in SUBSET S
      BY <2>1, <1>5 DEF C, LastOf, Choice
    <3>2. h[U \ {C[U]}] \in R BY <3>1, <1>9, <1>10, <1>4
    <3>3. h[U] = F[<<C[U], h[U \ {C[U]}]>>] BY <1>10, <2>1 DEF IsFold
    <3>4. h[U] = put(C[U], h[U \ {C[U]}]) BY <3>1, <3>2, <3>3
    <3>5. QED BY <3>1, <3>4
  <2>2. h = [U \in SUBSET S |-> h[U]] /\ h[{}] = r0 BY <1>10 DEF IsFold
  <2>3. QED BY <2>1, <2>2
<1>12. rec(it) BY <1>11
<1> HIDE DEF it, F
<1>13. it[{}] \in I[{}] BY <1>8, <1>12
<1>14. ASSUME NEW U \in SUBSET S, U # {}, it[U \ {C[U]}] \in I[U \ {C[U]}]
       PROVE  it[U] \in I[U]
  <2>1. C[U] = (CHOOSE x \in U : \A y \in U : x >= y) /\ C[U] \in U /\ U \ {C[U]} \in SUBSET S
    BY <1>14, <1>5 DEF C, LastOf, Choice
  <2>2. it[U] = put(C[U], it[U \ {C[U]}]) BY <1>12, <1>14, <2>1
  <2>3. it[U \ {C[U]}] \in W(U \ {C[U]}) BY <1>14, <1>9, <2>1
  <2>4. put(C[U], it[U \ {C[U]}]) \in W(U) BY <1>3, <1>14, <2>1, <2>3
  <2>5. QED BY <1>9, <1>14, <2>2, <2>4
<1>15. \A U \in SUBSET S : it[U] \in I[U] BY <1>1, <1>5, <1>13, <1>14, FoldInduction
<1>16. ImportGroups(s, r0, file) \in W(S) BY <1>6, <1>9, <1>15
<1>17. QED BY <1>16 DEF W, R

\* The printers of a file, its floors, and all of it.
LEMMA ImportPrintersIs ==
  ASSUME NEW s, Tidy(s), Ordered(s), NEW file, IsFile(file), Importable(s, file)
  PROVE  ImportPrinters(s, file) \in PrinterResults(s, file)
<1> DEFINE target == [i \in DOMAIN file.printers |-> PrinterTarget(s, file.printers[i], file.printerBy)]
           new == {i \in DOMAIN target : target[i] = None}
           known == (DOMAIN target) \ new
<1>1. new \in SUBSET DOMAIN file.printers /\ known \in SUBSET DOMAIN file.printers OBVIOUS
<1>2. Cardinality(new) <= Cardinality(UnusedPrinters(s))
  <2>1. new = {i \in DOMAIN file.printers : PrinterTarget(s, file.printers[i], file.printerBy) = None}
    OBVIOUS
  <2> HIDE DEF new
  <2>2. QED BY <2>1 DEF Importable
<1>3. \A i \in known : target[i] \in DOMAIN s.printers
  <2>1. s \in Farms /\ DOMAIN file.printerBy \subseteq Nat BY DEF Tidy, Sound, IsFile
  <2>2. QED BY <2>1, PrinterTargetIs
<1>4. ImportPrinters(s, file) = UpdatePrinters(s, file, target, InsertPrinters(s, file, new), known)
  BY DEF ImportPrinters, UpdatePrinters, InsertPrinters
<1> HIDE DEF target, new, known
<1>5. InsertPrinters(s, file, new) \in PrinterResults(s, file)
  BY <1>1, <1>2, InsertPrintersIs
<1>6. QED BY <1>1, <1>3, <1>4, <1>5, UpdatePrintersIs

LEMMA ImportFloorsIs ==
  ASSUME NEW s, Tidy(s), Ordered(s), NEW file, IsFile(file), Importable(s, file),
         NEW r0 \in PrinterResults(s, file)
  PROVE  ImportFloors(s, r0, file) \in FloorResults(s, file)
<1> DEFINE target == [i \in DOMAIN file.floors |-> FloorTarget(s, file.floors[i], file.floorBy)]
           new == {i \in DOMAIN target : target[i] = None}
           known == (DOMAIN target) \ new
<1>1. new \in SUBSET DOMAIN file.floors /\ known \in SUBSET DOMAIN file.floors OBVIOUS
<1>2. Cardinality(new) <= Cardinality(UnusedFloors(s))
  <2>1. new = {i \in DOMAIN file.floors : FloorTarget(s, file.floors[i], file.floorBy) = None}
    OBVIOUS
  <2> HIDE DEF new
  <2>2. QED BY <2>1 DEF Importable
<1>3. \A i \in known : target[i] \in DOMAIN s.floors
  <2>1. s \in Farms BY DEF Tidy, Sound
  <2>2. QED BY <2>1, FloorTargetIs
<1>4. ImportFloors(s, r0, file) = UpdateFloors(file, target, InsertFloors(file, r0, new), known)
  BY DEF ImportFloors, UpdateFloors, InsertFloors
<1> HIDE DEF target, new, known
<1>5. InsertFloors(file, r0, new) \in FloorResults(s, file) BY <1>1, <1>2, InsertFloorsIs
<1>6. QED BY <1>1, <1>3, <1>4, <1>5, UpdateFloorsIs

LEMMA ImportKeeps ==
  ASSUME NEW s, Tidy(s), Ordered(s), NEW file, IsFile(file), Importable(s, file),
         NEW r, r = Import(s, file)
  PROVE  /\ Tidy(r.s) /\ Ordered(r.s)
         /\ r.ok \in BOOLEAN /\ (r.ok => StoreFollows(r.s))
<1> DEFINE printers == ImportPrinters(s, file)
           floors == ImportFloors(s, printers, file)
           t == StoreFloors(floors.s, floors.s.floors)
           loaded == WithFarm(floors, t)
<1>1. r = IF ~Analysable(s, file) THEN [s |-> s, ok |-> FALSE, pmap |-> <<>>, fmap |-> <<>>]
          ELSE IF ~floors.ok THEN floors ELSE ImportGroups(s, loaded, file)
  BY DEF Import, WithFarm
<1>2. floors \in FloorResults(s, file) BY ImportPrintersIs, ImportFloorsIs
<1> HIDE DEF printers, floors
<1>3. /\ floors \in Results(file) /\ Tidy(floors.s) /\ Sound(floors.s) /\ Ordered(floors.s)
      /\ \A i \in DOMAIN floors.pmap : floors.pmap[i] \in DOMAIN floors.s.printers
      /\ floors.s.groups = s.groups /\ floors.ok \in BOOLEAN
      /\ DOMAIN floors.s.store \subseteq DOMAIN floors.s.floors
  BY <1>2 DEF FloorResults, Imported, Results, Tidy
<1>4. CASE ~Analysable(s, file) BY <1>1, <1>4
<1>5. CASE Analysable(s, file) /\ ~floors.ok BY <1>1, <1>3, <1>5
<1>6. CASE Analysable(s, file) /\ floors.ok
  <2>1. /\ Tidy(t) /\ StoreFollows(t) /\ t.groups = floors.s.groups
        /\ t.printers = floors.s.printers /\ t.order = floors.s.order
    BY <1>3, StoreFloorsKeeps
  <2>2. t \in Farms BY <2>1 DEF Tidy, Sound
  <2> HIDE DEF t
  <2>3. loaded \in Results(file) /\ loaded.s = t /\ loaded.pmap = floors.pmap
    BY <1>3, <2>2 DEF Results, WithFarm
  <2> HIDE DEF loaded
  <2>4. loaded \in GroupResults(s, file) /\ loaded.s.groups = s.groups
    BY <1>3, <2>1, <2>3 DEF GroupResults, Ordered
  <2>5. s \in Farms BY DEF Tidy, Sound
  <2>6. Cardinality({i \in DOMAIN file.groups : GroupsLike(s, file.groups[i]) = {}})
          <= Cardinality(UnusedGroups(s))
    BY DEF Importable
  <2>7. ImportGroups(s, loaded, file) \in GroupResults(s, file)
    BY <2>4, <2>5, <2>6, ImportGroupsIs
  <2>8. r \in GroupResults(s, file) BY <1>1, <1>6, <2>7
  <2>9. QED BY <2>8 DEF GroupResults, Results
<1>7. QED BY <1>4, <1>5, <1>6

---------------------------------------------------------------------------
(* The requests with SQLite                                                *)

\* What was answered is there, and shown.
PlacedThere ==
  /\ placed \in [f: FloorIds, places: SUBSET Position]
  /\ placed.f \in DOMAIN farm.floors
  /\ placed.places \subseteq farm.floors[placed.f].printers
  /\ farm.store[placed.f] = farm.floors[placed.f]

\* The invariant with SQLite.
SqlInv == mode.db = "sqlite" =>
  /\ Tidy(farm)
  /\ ~disturbed => StoreFollows(farm)
  /\ "import" \in mode.ops => Ordered(farm)
  /\ req = [c \in Slots |-> Idle]
  /\ placed # None => PlacedThere

\* Who the clients are.
ModeInv == mode \in Clients /\ disturbed \in BOOLEAN

LEMMA ModeIs ==
  ASSUME ModeInv
  PROVE  /\ mode.db \in {"sqlite", "mongo"} /\ mode.names \subseteq FloorNames /\ mode.conns \subseteq Conns
         /\ \A places \in mode.layouts : IsLayout(places) /\ places \in SUBSET Position
BY WhatClientsSend DEF ModeInv, IsLayout

\* A request that leaves the farm tidy.
LEMMA AnswerKeeps ==
  ASSUME SqlInv, ModeInv, mode.db = "sqlite", NEW s, Kept(farm, s), farm' = s, placed' = None,
         UNCHANGED <<mode, req, disturbed>>
  PROVE  SqlInv'
<1>1. Tidy(s) /\ (~disturbed' => StoreFollows(s)) /\ s.order = farm.order
  BY DEF SqlInv, Kept
<1>2. "import" \in mode.ops => Ordered(s) BY <1>1 DEF SqlInv, Ordered
<1>3. req' = [c \in Slots |-> Idle] BY DEF SqlInv
<1>4. QED BY <1>1, <1>2, <1>3 DEF SqlInv

LEMMA AnsweredKept ==
  ASSUME SqlInv, ModeInv, NEW op, NEW s, mode.db = "sqlite" => Kept(farm, s), Answer(op, s)
  PROVE  SqlInv'
BY AnswerKeeps DEF Answer

\* The printers that requests name exist.
LEMMA ScopeIs ==
  ASSUME NEW s, Tidy(s)
  PROVE  InScope(s) = DOMAIN s.printers
BY DEF InScope, Tidy, Sound, CacheFollows

\* The requests for printers, ...
LEMMA SqlPrintersKeep ==
  ASSUME SqlInv, ModeInv,
         \/ SqlCreate \/ SqlCreateBatch \/ SqlUpdate \/ SqlUpdateEnabled \/ SqlBatchToggle
         \/ SqlUpdateDisabledReason \/ SqlUpdateConnection \/ SqlUpdateRate
         \/ SqlDelete \/ SqlDeleteAll
  PROVE  SqlInv'
<1>1. mode.conns \subseteq Conns BY ModeIs
<1>2. mode.db = "sqlite" => Tidy(farm) /\ InScope(farm) = DOMAIN farm.printers
  BY ScopeIs DEF SqlInv
<1>3. ASSUME NEW p \in InScope(farm), NEW body, Fits(body), NEW op, Answer(op, OrmUpdate(farm, p, body))
      PROVE  SqlInv'
  <2>1. mode.db = "sqlite" => Kept(farm, OrmUpdate(farm, p, body))
    BY <1>2, <1>3, OrmUpdateKeeps
  <2>2. QED BY <1>3, <2>1, AnsweredKept
<1>4. CASE SqlCreate
  <2>1. PICK p \in PrinterIds, conn \in mode.conns : Answer("create", OrmCreate(farm, p, conn))
    BY <1>4 DEF SqlCreate
  <2>2. mode.db = "sqlite" => Kept(farm, OrmCreate(farm, p, conn))
    BY <1>1, <1>2, OrmCreateKeeps
  <2>3. QED BY <2>1, <2>2, AnsweredKept
<1>5. CASE SqlCreateBatch
  <2>1. PICK ps \in SUBSET PrinterIds, conn \in mode.conns :
          Answer("create", OrmBatchImport(farm, [p \in ps |-> NewPrinter(conn)]))
    BY <1>5 DEF SqlCreateBatch
  <2>2. mode.db = "sqlite" => Kept(farm, OrmBatchImport(farm, [p \in ps |-> NewPrinter(conn)]))
    BY <1>1, <1>2, OrmBatchImportKeeps
  <2>3. QED BY <2>1, <2>2, AnsweredKept
<1>6. CASE SqlUpdate
  <2>1. PICK p \in InScope(farm), body \in UpdateBodies(mode.conns) :
          Answer("update", OrmUpdate(farm, p, body))
    BY <1>6 DEF SqlUpdate
  <2>2. Fits(body) BY <1>1, BodiesFit
  <2>3. QED BY <1>3, <2>1, <2>2
<1>7. CASE SqlUpdateEnabled
  <2>1. PICK p \in InScope(farm), enabled \in BOOLEAN :
          Answer("patch", OrmUpdate(farm, p, [enabled |-> enabled]))
    BY <1>7 DEF SqlUpdateEnabled, OrmUpdateEnabled
  <2>2. Fits([enabled |-> enabled]) BY BodiesFit
  <2>3. QED BY <1>3, <2>1, <2>2
<1>8. CASE SqlBatchToggle
  <2>1. PICK ps \in SUBSET PrinterIds, enabled \in BOOLEAN :
          Answer("batch", OrmBatchToggle(farm, ps, enabled))
    BY <1>8 DEF SqlBatchToggle
  <2>2. mode.db = "sqlite" => Kept(farm, OrmBatchToggle(farm, ps, enabled))
    BY <1>2, OrmBatchToggleKeeps
  <2>3. QED BY <2>1, <2>2, AnsweredKept
<1>9. CASE SqlUpdateDisabledReason
  <2>1. PICK p \in InScope(farm), reason \in Reasons \cup {None} :
          Answer("patch", OrmUpdate(farm, p, [reason |-> reason]))
    BY <1>9 DEF SqlUpdateDisabledReason, OrmUpdateDisabledReason
  <2>2. Fits([reason |-> reason]) BY BodiesFit
  <2>3. QED BY <1>3, <2>1, <2>2
<1>10. CASE SqlUpdateConnection
  <2>1. PICK p \in InScope(farm), conn \in mode.conns :
          Answer("patch", OrmUpdate(farm, p, [conn |-> conn]))
    BY <1>10 DEF SqlUpdateConnection, OrmUpdateConnectionSettings
  <2>2. Fits([conn |-> conn]) BY <1>1, BodiesFit
  <2>3. QED BY <1>3, <2>1, <2>2
<1>11. CASE SqlUpdateRate
  <2>1. PICK p \in InScope(farm) : Answer("patch", OrmUpdate(farm, p, [x \in {} |-> None]))
    BY <1>11 DEF SqlUpdateRate, OrmUpdateRate
  <2>2. QED BY <1>3, <2>1, BodiesFit
<1>12. CASE SqlDelete
  <2>1. PICK p \in InScope(farm) : Answer("delete", RemovePrinterFromAnyFloor(OrmDelete(farm, p), p))
    BY <1>12 DEF SqlDelete
  <2>2. mode.db = "sqlite" => Kept(farm, RemovePrinterFromAnyFloor(OrmDelete(farm, p), p))
    BY <1>2, SqlDeleteKeeps
  <2>3. QED BY <2>1, <2>2, AnsweredKept
<1>13. CASE SqlDeleteAll
  <2>1. mode.db = "sqlite" => Kept(farm, OrmDeleteMany(farm, DOMAIN farm.cache))
    BY <1>2, OrmDeleteKeeps
  <2>2. QED BY <1>13, <2>1, AnsweredKept DEF SqlDeleteAll
<1>14. QED BY <1>4, <1>5, <1>6, <1>7, <1>8, <1>9, <1>10, <1>11, <1>12, <1>13

\* ... for floors, ...
LEMMA UpdateFloorKeeps ==
  ASSUME NEW s, Tidy(s), NEW f \in DOMAIN s.floors, NEW name \in FloorNames, NEW level \in Levels,
         NEW t, t = OrmUpdateFloor(s, f, name, level, s.floors[f].printers)
  PROVE  /\ Kept(s, StoreFloor(t, f, t.floors[f]))
         /\ LevelRefused(s, f, level) => t = s
         /\ DOMAIN t.floors = DOMAIN s.floors
         /\ \A g \in DOMAIN s.floors : t.floors[g].printers = s.floors[g].printers
         /\ StoreFloor(t, f, t.floors[f]).floors = t.floors
<1>1. Sound(s) /\ s.floors[f].printers \in SUBSET Position
  <2>1. s \in Farms /\ Sound(s) BY DEF Tidy, Sound
  <2>2. s.floors[f] \in Floor BY <2>1, FarmTables
  <2>3. QED BY <2>1, <2>2 DEF Floor
<1>2. /\ Sound(t) /\ t.store = s.store /\ t.order = s.order
      /\ DOMAIN t.floors = DOMAIN s.floors
      /\ \A g \in DOMAIN s.floors : g # f =>
           /\ t.floors[g].level = s.floors[g].level /\ t.floors[g].name = s.floors[g].name
           /\ t.floors[g].printers \subseteq s.floors[g].printers
      /\ LevelRefused(s, f, level) => t = s
      /\ \A g \in DOMAIN s.floors : t.floors[g].printers = s.floors[g].printers
  BY <1>1, OrmUpdateFloorIs
<1>3. Kept(s, StoreFloor(t, f, t.floors[f])) BY <1>2, ChangedFloorKeeps
<1>4. StoreFloor(t, f, t.floors[f]).floors = t.floors
  <2>1. t \in Farms /\ f \in FloorIds /\ t.floors[f] \in Floor BY <1>2, FarmTables DEF Sound
  <2>2. QED BY <2>1, StoreFloorIs
<1>5. QED BY <1>2, <1>3, <1>4

\* A printer that does not exist only loses its places.
LEMMA PlaceNobodyKeeps ==
  ASSUME NEW s, Tidy(s), NEW f, NEW p, p \notin DOMAIN s.printers, NEW cell
  PROVE  Kept(s, PlacePrinter(s, f, p, cell))
<1> DEFINE occupants == {<<f, pos>> : pos \in {q \in s.floors[f].printers : q.cell = cell}}
           gone == PlacesOf(s, p) \cup occupants
<1>1. PlacePrinter(s, f, p, cell) = TakeOff(s, gone) BY DEF PlacePrinter
<1> HIDE DEF gone
<1>2. QED BY <1>1, TakeOffKeeps DEF Tidy

LEMMA RearrangedKeeps ==
  ASSUME NEW s, Tidy(s), NEW f \in DOMAIN s.floors, NEW t, Sound(t), Rearranged(s, t, f)
  PROVE  /\ Kept(s, StoreFloor(t, f, t.floors[f]))
         /\ StoreFloor(t, f, t.floors[f]).floors = t.floors
<1>1. Kept(s, StoreFloor(t, f, t.floors[f])) BY ChangedFloorKeeps DEF Rearranged
<1>2. t \in Farms /\ f \in FloorIds /\ t.floors[f] \in Floor BY FarmTables DEF Rearranged
<1>3. StoreFloor(t, f, t.floors[f]).floors = t.floors BY <1>2, StoreFloorIs
<1>4. QED BY <1>1, <1>3

\* A placement that was answered.
LEMMA PlaceKeeps ==
  ASSUME SqlInv, ModeInv, mode.db = "sqlite", NEW s, Sound(s), NEW f \in DOMAIN s.floors,
         Kept(farm, StoreFloor(s, f, s.floors[f])),
         NEW places \in SUBSET s.floors[f].printers, Place(s, f, places)
  PROVE  SqlInv'
<1> DEFINE t == StoreFloor(s, f, s.floors[f])
<1>1. s \in Farms /\ f \in FloorIds /\ s.floors[f] \in Floor BY FarmTables DEF Sound
<1>2. t.floors = s.floors /\ t.store[f] = s.floors[f] BY <1>1, StoreFloorIs
<1>3. /\ farm' = t /\ placed' = [f |-> f, places |-> places]
      /\ UNCHANGED <<mode, req, disturbed>>
  BY DEF Place
<1> HIDE DEF t
<1>4. places \in SUBSET Position BY <1>1 DEF Floor
<1>5. PlacedThere' BY <1>1, <1>2, <1>3, <1>4 DEF PlacedThere
<1>6. Tidy(t) /\ (~disturbed => StoreFollows(t)) /\ ("import" \in mode.ops => Ordered(t))
  BY DEF SqlInv, Kept, Ordered, t
<1>7. QED BY <1>3, <1>5, <1>6 DEF SqlInv

\* A floor created with printers that exist, ...
LEMMA SqlCreateFloorKeeps ==
  ASSUME SqlInv, ModeInv, SqlCreateFloor
  PROVE  SqlInv'
<1>1. PICK f \in FloorIds, name \in mode.names, level \in Levels, places \in mode.layouts :
        /\ mode.db = "sqlite"
        /\ FreshFloor(f) /\ ~LevelTaken(farm, level)
        /\ \A pos \in places : pos.printer \in DOMAIN farm.printers
        /\ Place(OrmCreateFloor(farm, f, name, level, places), f, places)
  BY DEF SqlCreateFloor
<1> DEFINE s == OrmCreateFloor(farm, f, name, level, places)
<1>2. Tidy(farm) /\ Sound(farm) /\ f \notin DOMAIN farm.floors /\ name \in FloorNames
  BY <1>1, ModeIs DEF SqlInv, Tidy, FreshFloor
<1>3. IsLayout(places) /\ places \in SUBSET Position BY ModeIs
<1>4. Place(s, f, places) BY <1>1
<1> HIDE DEF s
<1>5. Sound(s) /\ f \in DOMAIN s.floors /\ s.floors[f].printers = places
  <2>1. Made(farm, s, f, places) BY <1>1, <1>2, <1>3, OrmCreateFloorIs DEF s
  <2>2. QED BY <1>1, <1>3, <2>1 DEF Made
<1>6. Kept(farm, StoreFloor(s, f, s.floors[f])) BY <1>1, <1>2, <1>3, CreateFloorKeeps DEF s
<1>7. QED BY <1>1, <1>4, <1>5, <1>6, PlaceKeeps

\* ... and with some that do not: it is not stored, which is a disturbance.
LEMMA SqlCreateFloorFailsKeeps ==
  ASSUME SqlInv, ModeInv, SqlCreateFloorFails
  PROVE  SqlInv'
<1>1. PICK f \in FloorIds, name \in mode.names, level \in Levels, places \in mode.layouts :
        /\ mode.db = "sqlite"
        /\ FreshFloor(f) /\ ~LevelTaken(farm, level)
        /\ \E before \in SUBSET {pos \in places : pos.printer \in DOMAIN farm.printers} :
             farm' = OrmCreateFloor(farm, f, name, level, before)
        /\ disturbed' = TRUE /\ placed' = None
        /\ UNCHANGED <<mode, req>>
  BY DEF SqlCreateFloorFails
<1>2. PICK before \in SUBSET {pos \in places : pos.printer \in DOMAIN farm.printers} :
        farm' = OrmCreateFloor(farm, f, name, level, before)
  BY <1>1
<1>3. Tidy(farm) /\ Sound(farm) /\ f \notin DOMAIN farm.floors /\ name \in FloorNames
  BY <1>1, ModeIs DEF SqlInv, Tidy, FreshFloor
<1>4. before \in SUBSET Position BY <1>2, ModeIs
<1> DEFINE t == OrmCreateFloor(farm, f, name, level, before)
<1>5. farm' = t BY <1>2
<1> HIDE DEF t
<1>6. Tidy(t) /\ t.order = farm.order
  <2>1. Made(farm, t, f, before) BY <1>1, <1>3, <1>4, OrmCreateFloorIs DEF t
  <2>2. Tidy(t) BY <1>1, <1>3, <1>4, CreateFloorKeeps DEF t
  <2>3. QED BY <2>1, <2>2 DEF Made
<1>7. QED BY <1>1, <1>5, <1>6 DEF SqlInv, Ordered

LEMMA SqlFloorsKeep ==
  ASSUME SqlInv, ModeInv,
         \/ SqlDeleteFloor \/ SqlUpdateLevel \/ SqlUpdateName
         \/ SqlRemovePrinter \/ SqlListFloors \/ SqlGetFloor
  PROVE  SqlInv'
<1>1. mode.names \subseteq FloorNames BY ModeIs
<1>2. mode.db = "sqlite" => Tidy(farm) /\ Sound(farm) /\ farm \in Farms
  BY DEF SqlInv, Tidy, Sound
<1>3. CASE SqlDeleteFloor
  <2>1. PICK f \in DOMAIN farm.floors : Answer("deleteFloor", DropFloor(OrmDeleteFloor(farm, f), f))
    BY <1>3 DEF SqlDeleteFloor
  <2>2. mode.db = "sqlite" => Kept(farm, DropFloor(OrmDeleteFloor(farm, f), f))
    BY <1>2, OrmDeleteFloorKeeps
  <2>3. QED BY <2>1, <2>2, AnsweredKept
<1>4. CASE SqlUpdateLevel
  <2>1. PICK f \in DOMAIN farm.floors, level \in Levels :
          LET s == OrmUpdateLevel(farm, f, level)
          IN  Answer("updateFloor",
                IF LevelRefused(farm, f, level) THEN s ELSE StoreFloor(s, f, s.floors[f]))
    BY <1>4 DEF SqlUpdateLevel
  <2> DEFINE s == OrmUpdateLevel(farm, f, level)
             t == IF LevelRefused(farm, f, level) THEN s ELSE StoreFloor(s, f, s.floors[f])
  <2>2. Answer("updateFloor", t) BY <2>1
  <2>3. mode.db = "sqlite" => Kept(farm, t)
    <3>1. ASSUME mode.db = "sqlite" PROVE Kept(farm, t)
      <4>1. farm.floors[f].name \in FloorNames
        <5>1. farm.floors[f] \in Floor BY <1>2, <3>1, FarmTables
        <5>2. QED BY <5>1 DEF Floor
      <4>2. s = OrmUpdateFloor(farm, f, farm.floors[f].name, level, farm.floors[f].printers)
        BY DEF OrmUpdateLevel
      <4> HIDE DEF s
      <4>3. Kept(farm, StoreFloor(s, f, s.floors[f])) /\ (LevelRefused(farm, f, level) => s = farm)
        BY <1>2, <3>1, <4>1, <4>2, UpdateFloorKeeps
      <4>4. Kept(farm, farm) BY <1>2, <3>1 DEF Kept
      <4>5. QED BY <4>3, <4>4
    <3>2. QED BY <3>1
  <2> HIDE DEF t
  <2>4. QED BY <2>2, <2>3, AnsweredKept
<1>5. CASE SqlUpdateName
  <2>1. PICK f \in DOMAIN farm.floors, name \in mode.names :
          LET s == OrmUpdateName(farm, f, name)
          IN  Answer("updateFloor", StoreFloor(s, f, s.floors[f]))
    BY <1>5 DEF SqlUpdateName
  <2> DEFINE s == OrmUpdateName(farm, f, name)
             t == StoreFloor(s, f, s.floors[f])
  <2>2. Answer("updateFloor", t) BY <2>1
  <2>3. mode.db = "sqlite" => Kept(farm, t)
    <3>1. ASSUME mode.db = "sqlite" PROVE Kept(farm, t)
      <4>1. farm.floors[f].level \in Levels
        <5>1. farm.floors[f] \in Floor BY <1>2, <3>1, FarmTables
        <5>2. QED BY <5>1 DEF Floor
      <4>2. s = OrmUpdateFloor(farm, f, name, farm.floors[f].level, farm.floors[f].printers)
        BY DEF OrmUpdateName
      <4> HIDE DEF s
      <4>3. QED BY <1>1, <1>2, <3>1, <4>1, <4>2, UpdateFloorKeeps
    <3>2. QED BY <3>1
  <2> HIDE DEF t
  <2>4. QED BY <2>2, <2>3, AnsweredKept
<1>6. CASE SqlRemovePrinter
  <2>1. PICK f \in DOMAIN farm.floors : \E pos \in farm.floors[f].printers :
          LET s == OrmRemovePrinter(farm, f, pos.printer)
          IN  Answer("remove", StoreFloor(s, f, s.floors[f]))
    BY <1>6 DEF SqlRemovePrinter
  <2>2. PICK pos \in farm.floors[f].printers :
          LET s == OrmRemovePrinter(farm, f, pos.printer)
          IN  Answer("remove", StoreFloor(s, f, s.floors[f]))
    BY <2>1
  <2> DEFINE ps == {q \in farm.floors[f].printers : q.printer = pos.printer}
             s == OrmRemovePrinter(farm, f, pos.printer)
             t == StoreFloor(s, f, s.floors[f])
  <2>3. Answer("remove", t) BY <2>2
  <2>4. s = TakeOff(farm, {<<f, at>> : at \in ps}) BY DEF OrmRemovePrinter
  <2> HIDE DEF s, ps
  <2>5. mode.db = "sqlite" => Sound(s) /\ Rearranged(farm, s, f)
    BY <1>2, <2>4, TakeOffKeeps, TakeOffOne
  <2>6. mode.db = "sqlite" => Kept(farm, t) BY <1>2, <2>5, RearrangedKeeps
  <2> HIDE DEF t
  <2>7. QED BY <2>3, <2>6, AnsweredKept
<1>7. CASE SqlListFloors
  <2>1. mode.db = "sqlite" => Kept(farm, SqlLoadStore(farm))
    BY <1>2, SqlLoadStoreKeeps DEF Kept
  <2>2. QED BY <1>7, <2>1, AnsweredKept DEF SqlListFloors
<1>8. CASE SqlGetFloor
  <2>1. PICK f \in DOMAIN farm.floors : Answer("list", StoreFloor(farm, f, farm.floors[f]))
    BY <1>8 DEF SqlGetFloor
  <2>2. mode.db = "sqlite" => Sound(farm) /\ Rearranged(farm, farm, f)
    BY <1>2 DEF Rearranged
  <2>3. mode.db = "sqlite" => Kept(farm, StoreFloor(farm, f, farm.floors[f]))
    BY <1>2, <2>2, RearrangedKeeps
  <2>4. QED BY <2>1, <2>3, AnsweredKept
<1>9. QED BY <1>3, <1>4, <1>5, <1>6, <1>7, <1>8

\* ... for places, groups and files.
LEMMA SqlAddPrinterKeeps ==
  ASSUME SqlInv, ModeInv, SqlAddPrinter
  PROVE  SqlInv'
<1>1. PICK f \in DOMAIN farm.floors, p \in DOMAIN farm.printers, cell \in Cells :
        /\ mode.db = "sqlite"
        /\ Place(PlacePrinter(farm, f, p, cell), f, {[printer |-> p, cell |-> cell]})
  BY DEF SqlAddPrinter
<1> DEFINE s == PlacePrinter(farm, f, p, cell)
           places == {[printer |-> p, cell |-> cell]}
<1>2. Tidy(farm) /\ Sound(farm) /\ p \in PrinterIds
  BY <1>1, FarmTables DEF SqlInv, Tidy, Sound
<1>3. Sound(s) /\ Rearranged(farm, s, f) /\ places \in SUBSET s.floors[f].printers
  <2>1. Sound(s) /\ Rearranged(farm, s, f) BY <1>2, PlacePrinterIs
  <2>2. s.floors[f].printers = Joined(farm.floors[f].printers, p, cell)
    BY <1>2, PlacePrinterIs
  <2>3. QED BY <2>1, <2>2 DEF Joined
<1>4. Place(s, f, places) BY <1>1
<1> HIDE DEF s, places
<1>5. Kept(farm, StoreFloor(s, f, s.floors[f])) /\ f \in DOMAIN s.floors
  BY <1>2, <1>3, RearrangedKeeps DEF Rearranged
<1>6. QED BY <1>1, <1>3, <1>4, <1>5, PlaceKeeps

LEMMA SqlAddPrinterFailsKeeps ==
  ASSUME SqlInv, ModeInv, SqlAddPrinterFails
  PROVE  SqlInv'
<1>1. PICK f \in DOMAIN farm.floors, p \in PrinterIds \ DOMAIN farm.printers, cell \in Cells :
        Answer("place", PlacePrinter(farm, f, p, cell))
  BY DEF SqlAddPrinterFails
<1>2. mode.db = "sqlite" => Kept(farm, PlacePrinter(farm, f, p, cell))
  BY PlaceNobodyKeeps DEF SqlInv
<1>3. QED BY <1>1, <1>2, AnsweredKept

LEMMA SqlGroupsKeep ==
  ASSUME SqlInv, ModeInv, SqlGroups
  PROVE  SqlInv'
<1>1. mode.db = "sqlite" => Tidy(farm) BY DEF SqlInv
<1>2. CASE \E g \in UnusedGroups(farm), name \in GroupNames : Answer("group", CreateGroup(farm, g, name))
  <2>1. PICK g \in UnusedGroups(farm), name \in GroupNames : Answer("group", CreateGroup(farm, g, name))
    BY <1>2
  <2>2. g \in GroupIds BY DEF UnusedGroups
  <2>3. mode.db = "sqlite" => Kept(farm, CreateGroup(farm, g, name))
    BY <1>1, <2>2, CreateGroupKeeps
  <2>4. QED BY <2>1, <2>3, AnsweredKept
<1>3. ASSUME NEW g \in DOMAIN farm.groups,
             \/ \E name \in GroupNames : Answer("group", UpdateGroupName(farm, g, name))
             \/ Answer("group", DeleteGroup(farm, g))
             \/ \E p \in PrinterIds : Answer("group", AddPrinterToGroup(farm, g, p))
             \/ \E p \in PrinterIds : Answer("group", RemovePrinterFromGroup(farm, g, p))
      PROVE  SqlInv'
  <2>1. mode.db = "sqlite" =>
          /\ \A name \in GroupNames : Kept(farm, UpdateGroupName(farm, g, name))
          /\ \A p \in PrinterIds : Kept(farm, AddPrinterToGroup(farm, g, p))
          /\ \A p \in PrinterIds : Kept(farm, RemovePrinterFromGroup(farm, g, p))
          /\ Kept(farm, DeleteGroup(farm, g))
    BY <1>1, <1>3, ChangeGroupKeeps
  <2>2. QED BY <1>3, <2>1, AnsweredKept
<1>4. QED BY <1>2, <1>3 DEF SqlGroups

LEMMA SqlImportKeeps ==
  ASSUME SqlInv, ModeInv, SqlImport
  PROVE  SqlInv'
<1>1. PICK file \in Files :
        /\ mode.db = "sqlite" /\ "import" \in mode.ops
        /\ Importable(farm, file)
        /\ LET r == Import(farm, file)
           IN  farm' = r.s /\ disturbed' = (disturbed \/ ~r.ok)
        /\ placed' = None
        /\ UNCHANGED <<mode, req>>
  BY DEF SqlImport
<1> DEFINE r == Import(farm, file)
<1>2. Tidy(farm) /\ Ordered(farm) /\ IsFile(file) BY <1>1, WhatClientsSend DEF SqlInv
<1>3. farm' = r.s /\ disturbed' = (disturbed \/ ~r.ok) BY <1>1
<1> HIDE DEF r
<1>4. Tidy(r.s) /\ Ordered(r.s) /\ r.ok \in BOOLEAN /\ (r.ok => StoreFollows(r.s))
  BY <1>1, <1>2, ImportKeeps DEF r
<1>5. Tidy(farm)' /\ Ordered(farm)' /\ (~disturbed' => StoreFollows(farm)') BY <1>3, <1>4
<1>6. QED BY <1>1, <1>5 DEF SqlInv

LEMMA SqlNextKeeps ==
  ASSUME SqlInv, ModeInv, SqlNext
  PROVE  SqlInv'
BY SqlPrintersKeep, SqlCreateFloorKeeps, SqlCreateFloorFailsKeeps, SqlFloorsKeep, SqlAddPrinterKeeps,
   SqlAddPrinterFailsKeeps, SqlGroupsKeep, SqlImportKeeps DEF SqlNext

\* With SQLite no request is a MongoDB one.
LEMMA MongoOnly ==
  ASSUME SqlInv, MongoNext
  PROVE  mode.db # "sqlite"
<1>1. SUFFICES ASSUME mode.db = "sqlite" PROVE FALSE OBVIOUS
<1>2. \A c \in Slots : req[c] = Idle BY <1>1 DEF SqlInv
<1>3. \A c \in Slots : req[c].op = "idle" /\ req[c].ans # Pending BY <1>2, NoValues DEF Idle
<1>4. ~StartBatch BY <1>1 DEF StartBatch
<1>5. ASSUME NEW c \in Slots PROVE ~Arrive(c)
  BY <1>1 DEF Arrive, Start, StartCreate, StartUpdate, StartPatch, StartDelete, StartDeleteAll,
       StartCreateFloor, StartDeleteFloor, StartUpdateFloor, StartPlace, StartRemove, StartListFloors
<1>6. ASSUME NEW c \in Slots PROVE ~Database(c)
  <2>1. req[c].ans # Pending BY <1>3
  <2>2. QED
    BY <2>1 DEF Database, Serve, ServeInsertPrinter, ServeFindPrinter, ServeSavePrinter,
         ServePatchPrinter, ServeDeletePrinters, ServePull, ServeFindFloor, ServeListFloors,
         ServeInsertFloor, ServeDeleteFloor, ServeSaveFloor, ServeSavePlaces
<1>7. ASSUME NEW c \in Slots PROVE ~Resume(c)
  <2>1. req[c].op = "idle" BY <1>3
  <2>2. QED
    BY <2>1 DEF Resume, Answered, ResumeCreate, ResumeUpdate, ResumePatch, ResumeDelete,
         ResumeDeleteAll, ResumeLoadStore, ResumeInsertFloor,
         ResumeDeleteFloor, ResumeUpdateFloor, ResumePlace, ResumeRemove, ResumeSavePlaces
<1>8. QED BY <1>4, <1>5, <1>6, <1>7 DEF MongoNext

\* A new process: what it reads, it holds.
LEMMA BootedIs ==
  ASSUME NEW s \in Farms, NEW t, t = Booted(s)
  PROVE  /\ t \in Farms
         /\ t.printers = s.printers /\ t.floors = s.floors /\ t.groups = s.groups
         /\ t.order = s.order
         /\ t.cache = s.printers /\ t.store = s.floors
<1> DEFINE store == Overlaid(s.floors, <<>>)
<1>1. s.floors \in FloorRows /\ s.printers \in Printers /\ <<>> \in FloorRows /\ DOMAIN <<>> = {}
  BY FarmTables, EmptyTable DEF FloorRows
<1>2. store = s.floors
  <2>1. store \in FloorRows BY <1>1, OverlaidTable DEF FloorRows
  <2>2. DOMAIN store = DOMAIN s.floors /\ \A f \in DOMAIN s.floors : store[f] = s.floors[f]
    BY <1>1 DEF Overlaid
  <2> HIDE DEF store
  <2>3. QED BY <1>1, <2>1, <2>2, SameTable DEF FloorRows
<1>3. t = [s EXCEPT !.cache = s.printers, !.store = store]
  BY DEF Booted, ReloadStore, LoadCache, StoreFloors, Farms
<1> HIDE DEF store
<1>4. QED BY <1>1, <1>2, <1>3 DEF Farms

LEMMA BootedTidy ==
  ASSUME NEW s, Sound(s)
  PROVE  Tidy(Booted(s)) /\ StoreFollows(Booted(s)) /\ Booted(s).order = s.order
<1> DEFINE t == Booted(s)
<1>1. s \in Farms BY DEF Sound
<1> HIDE DEF t
<1>2. /\ t \in Farms
      /\ t.printers = s.printers /\ t.floors = s.floors /\ t.groups = s.groups /\ t.order = s.order
      /\ t.cache = s.printers /\ t.store = s.floors
  BY <1>1, BootedIs DEF t
<1>3. Sound(t) BY <1>2 DEF Sound, PlacesKnown, GroupsKnown, CacheFollows
<1>4. StoreFollows(t) BY <1>2 DEF StoreFollows, StoreShows
<1>5. QED BY <1>2, <1>3, <1>4 DEF Tidy, t

---------------------------------------------------------------------------
(* The requests with MongoDB                                               *)

\* Requests by their operation and the command they await.
Request(op, cmd, pss, fs, args, answers) ==
  [op: {op}, cmd: {cmd}, ps: pss, f: fs, arg: args, ans: answers \cup {Pending}, stale: BOOLEAN]

One == {{p} : p \in PrinterIds}
Updates == UpdateBodies(Conns)
Patches == {EnabledUpdate(e) : e \in BOOLEAN}
           \cup {DisabledReasonUpdate(r) : r \in Reasons \cup {None}}
           \cup {ConnectionUpdate(conn) : conn \in Conns} \cup {RateUpdate}
Titles == [name: FloorNames] \cup [level: Levels]

\* What they keep, ...
CreateArgs == [conn: Conns, todo: SUBSET PrinterIds]
UpdateFindArgs == [body: Updates, read: {None}, doc: {None}]
UpdateSaveArgs == [body: Updates, read: Printer, doc: Printer]
PatchArgs == [update: Patches]
TitleFindArgs == [update: Titles, doc: {None}]
TitleSaveArgs == [update: Titles, doc: Floor]
PlaceFindArgs == [cell: Cells, read: {None}, doc: {None}]
PlaceSaveArgs == [cell: Cells, read: Floor, doc: Floor]
RemoveFindArgs == [cell: {None}, read: {None}, doc: {None}]
RemoveSaveArgs == [cell: {None}, read: Floor, doc: Floor]

\* ... and what they are answered.
FoundPrinter == Printer \cup {None}
FoundFloor == Floor \cup {None}
Saved == {"saved", None}

\* The requests for printers, ...
Creates == Request("create", "insertPrinter", SUBSET PrinterIds, {None},
                   CreateArgs, PrinterIds)
UpdateFinds == Request("update", "findPrinter", One, {None},
                       UpdateFindArgs, FoundPrinter)
UpdateSaves == Request("update", "savePrinter", One, {None},
                       UpdateSaveArgs, Saved)
PatchFinds == Request("patch", "findPrinter", One, {None}, PatchArgs, FoundPrinter)
PatchSaves == Request("patch", "patchPrinter", One, {None}, PatchArgs, FoundPrinter)
Deletes == Request("delete", "deletePrinters", One, {None}, {None}, {"deleted"})
DeletePulls == Request("delete", "pull", One, {None}, {None}, {"pulled"})
DeleteAlls == Request("deleteAll", "deletePrinters", SUBSET PrinterIds, {None}, {None}, {"deleted"})

\* ... and for floors.
DeleteLists == Request("delete", "listFloors", One, {None}, {None}, FloorRows)
DeleteInserts == Request("delete", "insertFloor", One, FloorIds, Floor, FoundFloor)
Lists == Request("list", "listFloors", {{}}, {None}, {None}, FloorRows)
ListInserts == Request("list", "insertFloor", {{}}, FloorIds, Floor, FoundFloor)
FloorInserts == Request("createFloor", "insertFloor", {{}}, FloorIds, Floor, FoundFloor)
DeleteFloorFinds == Request("deleteFloor", "findFloor", {{}}, FloorIds, {None}, FoundFloor)
DeleteFloors == Request("deleteFloor", "deleteFloor", {{}}, FloorIds, {None}, {"deleted"})
TitleFinds == Request("updateFloor", "findFloor", {{}}, FloorIds,
                      TitleFindArgs, FoundFloor)
TitleSaves == Request("updateFloor", "saveFloor", {{}}, FloorIds,
                      TitleSaveArgs, Saved)
PlaceFinds == Request("place", "findFloor", One, FloorIds,
                      PlaceFindArgs, FoundFloor)
PlaceSaves == Request("place", "savePlaces", One, FloorIds,
                      PlaceSaveArgs, Saved)
RemoveFinds == Request("remove", "findFloor", One, FloorIds,
                       RemoveFindArgs, FoundFloor)
RemoveSaves == Request("remove", "savePlaces", One, FloorIds,
                       RemoveSaveArgs, Saved)

\* What a request may be.
Legal(r) ==
  \/ r = Idle
  \/ r \in Creates /\ r.arg.todo \subseteq r.ps /\ (r.ans # Pending => r.ans \in r.arg.todo)
  \/ r \in UpdateFinds
  \/ r \in UpdateSaves /\ r.arg.doc = Assign(r.arg.body, r.arg.read)
  \/ r \in PatchFinds \/ r \in PatchSaves \/ r \in Deletes \/ r \in DeletePulls \/ r \in DeleteAlls
  \/ r \in DeleteLists \/ r \in DeleteInserts \/ r \in Lists \/ r \in ListInserts
  \/ r \in FloorInserts \/ r \in DeleteFloorFinds \/ r \in DeleteFloors
  \/ r \in TitleFinds \/ r \in TitleSaves
  \/ r \in PlaceFinds \/ r \in PlaceSaves \/ r \in RemoveFinds \/ r \in RemoveSaves

MongoTypes == mode.db = "mongo" =>
  /\ farm \in Farms /\ farm.groups = <<>>
  /\ placed = None
  /\ req = [c \in Slots |-> req[c]]
  /\ \A c \in Slots : Legal(req[c])

\* Printers that a create has inserted.
Inserted(r) == r.ps \ (IF r.ans = Pending THEN r.arg.todo ELSE r.arg.todo \ {r.ans})

Changed(r) == r.ans # Pending /\ r.ans # None

\* What a request that is alone has still to tell the caches: the printers it
\* inserted, ...
CreateOwes(s, r) ==
  /\ s.store = s.floors
  /\ s.printers = Overlaid([p \in Inserted(r) |-> NewPrinter(r.arg.conn)], s.cache)

\* ... nothing yet, ...
FindOwes(s, r) ==
  /\ s.store = s.floors /\ s.cache = s.printers
  /\ r.ans # Pending => r.ans = FindPrinter(s, The(r.ps))

\* ... the printer it saved, which it had read, ...
SaveOwes(s, r) ==
  /\ s.store = s.floors
  /\ IF r.ans = Pending
     THEN /\ s.cache = s.printers
          /\ The(r.ps) \in DOMAIN s.printers /\ s.printers[The(r.ps)] = r.arg.read
     ELSE r.ans # None /\ s.printers = Put(s.cache, The(r.ps), r.arg.doc)

\* ... the printers it deleted, ...
DeleteOwes(s, r) ==
  /\ s.store = s.floors
  /\ s.printers = IF r.ans = Pending THEN s.cache ELSE Restrict(s.cache, DOMAIN s.cache \ r.ps)

\* ... the places of a deleted printer, ...
PullOwes(s, r) ==
  /\ s.cache = s.printers
  /\ IF r.ans = Pending THEN s.store = s.floors ELSE DOMAIN s.store = DOMAIN s.floors

ListOwes(s, r) ==
  /\ s.cache = s.printers /\ DOMAIN s.store = DOMAIN s.floors
  /\ r.ans # Pending => r.ans = s.floors

\* ... the floor it inserted, ...
NewFloorOwes(s, r) ==
  /\ s.cache = s.printers
  /\ s.floors = IF Changed(r) THEN Put(s.store, r.f, r.ans) ELSE s.store

FindFloorOwes(s, r) ==
  /\ s.store = s.floors /\ s.cache = s.printers
  /\ r.ans # Pending => r.ans = FindFloor(s, r.f)

\* ... the floor it deleted, ...
DeleteFloorOwes(s, r) ==
  /\ s.cache = s.printers
  /\ s.floors = IF r.ans = Pending THEN s.store ELSE Restrict(s.store, DOMAIN s.store \ {r.f})

\* ... or the floor it saved: all of it but what it saves is still what it read.
SaveFloorOwes(s, r) ==
  /\ s.cache = s.printers
  /\ s.floors = IF Changed(r) THEN Put(s.store, r.f, r.arg.doc) ELSE s.store
  /\ r.ans = Pending => r.f \in DOMAIN s.floors
  /\ r.ans = Pending /\ r.cmd = "saveFloor" => r.arg.doc.printers = s.floors[r.f].printers
  /\ r.ans = Pending /\ r.cmd = "savePlaces" =>
       r.arg.doc.name = s.floors[r.f].name /\ r.arg.doc.level = s.floors[r.f].level

Owes(s, r) ==
  /\ ~r.stale
  /\ \/ r.cmd = "insertPrinter" /\ CreateOwes(s, r)
     \/ r.cmd = "findPrinter" /\ FindOwes(s, r)
     \/ r.cmd = "savePrinter" /\ SaveOwes(s, r)
     \/ r.cmd = "deletePrinters" /\ DeleteOwes(s, r)
     \/ r.cmd = "pull" /\ PullOwes(s, r)
     \/ r.cmd = "listFloors" /\ ListOwes(s, r)
     \/ r.cmd = "insertFloor" /\ NewFloorOwes(s, r)
     \/ r.cmd = "findFloor" /\ FindFloorOwes(s, r)
     \/ r.cmd = "deleteFloor" /\ DeleteFloorOwes(s, r)
     \/ r.cmd \in {"saveFloor", "savePlaces"} /\ SaveFloorOwes(s, r)

\* The requests of a batch are patches of different printers.
Told(c) == req[c].op = "patch" /\ req[c].cmd = "patchPrinter" /\ req[c].ans # Pending

Patching ==
  /\ farm.store = farm.floors
  /\ DOMAIN farm.cache = DOMAIN farm.printers
  /\ \A c \in Slots : req[c] # Idle => req[c].op = "patch"
  /\ \A c, d \in Slots : c # d /\ req[c] # Idle /\ req[d] # Idle => req[c].ps # req[d].ps
  /\ \A c \in Slots : Told(c) => req[c].ans = FindPrinter(farm, The(req[c].ps))
  /\ \A p \in DOMAIN farm.printers :
       farm.cache[p] = farm.printers[p] \/ \E c \in Slots : Told(c) /\ req[c].ps = {p}

Alone(c) ==
  /\ req[c] # Idle /\ req[c].op # "patch"
  /\ \A d \in Slots : d # c => req[d] = Idle

MongoCaches == mode.db = "mongo" =>
  (~disturbed => Patching \/ \E c \in Slots : Alone(c) /\ Owes(farm, req[c]))

---------------------------------------------------------------------------
(* What the commands of MongoDB make of a farm                             *)

WithPrinters(s, rows) == [s EXCEPT !.printers = rows]
WithCache(s, cache) == [s EXCEPT !.cache = cache]
WithStore(s, store) == [s EXCEPT !.store = store]

\* The printers of a farm replaced.
LEMMA WithPrintersIs ==
  ASSUME NEW s \in Farms, NEW rows \in Printers, NEW t, t = WithPrinters(s, rows)
  PROVE  /\ t \in Farms /\ t.printers = rows
         /\ t.cache = s.cache /\ t.floors = s.floors /\ t.store = s.store
         /\ t.groups = s.groups /\ t.order = s.order
BY DEF Farms, WithPrinters

\* The printer cache replaced.
LEMMA WithCacheIs ==
  ASSUME NEW s \in Farms, NEW cache \in Printers, NEW t, t = WithCache(s, cache)
  PROVE  /\ t \in Farms /\ t.cache = cache
         /\ t.printers = s.printers /\ t.floors = s.floors /\ t.store = s.store
         /\ t.groups = s.groups /\ t.order = s.order
BY DEF Farms, WithCache

\* The floor store replaced.
LEMMA WithStoreIs ==
  ASSUME NEW s \in Farms, NEW store \in FloorRows, NEW t, t = WithStore(s, store)
  PROVE  /\ t \in Farms /\ t.store = store
         /\ t.printers = s.printers /\ t.cache = s.cache /\ t.floors = s.floors
         /\ t.groups = s.groups /\ t.order = s.order
BY DEF Farms, WithStore

\* insert
LEMMA InsertIs ==
  ASSUME NEW s \in Farms, NEW p \in PrinterIds, NEW conn \in Conns, NEW t, t = OrmInsert(s, p, conn)
  PROVE  /\ t \in Farms /\ t.printers = Put(s.printers, p, NewPrinter(conn))
         /\ t.cache = s.cache /\ t.floors = s.floors /\ t.store = s.store /\ t.groups = s.groups
<1>1. s.printers \in Table(PrinterIds, Printer) BY FarmTables DEF Printers
<1>2. Put(s.printers, p, NewPrinter(conn)) \in Printers
  BY <1>1, PutTable, NewIsPrinter DEF Printers
<1>3. t = WithPrinters(s, Put(s.printers, p, NewPrinter(conn)))
  BY DEF OrmInsert, WithPrinters
<1>4. QED BY <1>2, <1>3, WithPrintersIs

\* A table whose row at one key is replaced.
LEMMA RowSet ==
  ASSUME NEW s \in Farms, NEW p \in DOMAIN s.printers, NEW row \in Printer,
         NEW t, t = WithPrinters(s, [s.printers EXCEPT ![p] = row])
  PROVE  /\ t \in Farms
         /\ t.printers = Put(s.printers, p, row)
         /\ DOMAIN t.printers = DOMAIN s.printers /\ t.printers[p] = row
         /\ \A q \in DOMAIN s.printers : q # p => t.printers[q] = s.printers[q]
         /\ t.cache = s.cache /\ t.floors = s.floors /\ t.store = s.store /\ t.groups = s.groups
<1>1. s.printers \in Table(PrinterIds, Printer) BY FarmTables DEF Printers
<1>2. /\ [s.printers EXCEPT ![p] = row] \in Printers
      /\ [s.printers EXCEPT ![p] = row] = Put(s.printers, p, row)
  BY <1>1, SetTable DEF Printers
<1>3. /\ DOMAIN Put(s.printers, p, row) = DOMAIN s.printers
      /\ Put(s.printers, p, row)[p] = row
      /\ \A q \in DOMAIN s.printers : q # p => Put(s.printers, p, row)[q] = s.printers[q]
  BY DEF Put
<1>4. QED BY <1>2, <1>3, WithPrintersIs

\* What Document.save stores, by field.
Merged(row, doc, read) == [x \in DOMAIN row |-> IF doc[x] # read[x] THEN doc[x] ELSE row[x]]

LEMMA MergedIs ==
  ASSUME NEW row \in Printer, NEW doc \in Printer, NEW read \in Printer
  PROVE  Merged(row, doc, read) \in Printer /\ (row = read => Merged(row, doc, read) = doc)
BY DEF Merged, Printer

\* Document.save of a printer that exists, ...
LEMMA SavePrinterPuts ==
  ASSUME NEW s \in Farms, NEW p \in DOMAIN s.printers, NEW doc \in Printer, NEW read \in Printer,
         NEW t, t = SavePrinter(s, p, doc, read)
  PROVE  /\ t \in Farms /\ t.cache = s.cache /\ t.floors = s.floors
         /\ t.store = s.store /\ t.groups = s.groups
         /\ t.printers = Put(s.printers, p, Merged(s.printers[p], doc, read))
         /\ DOMAIN t.printers = DOMAIN s.printers
         /\ t.printers[p] = Merged(s.printers[p], doc, read)
         /\ \A q \in DOMAIN s.printers : q # p => t.printers[q] = s.printers[q]
<1> DEFINE row == Merged(s.printers[p], doc, read)
<1>1. s.printers[p] \in Printer BY FarmTables
<1>2. row \in Printer BY <1>1, MergedIs
<1>3. t = WithPrinters(s, [s.printers EXCEPT ![p] = row])
  BY DEF SavePrinter, WithPrinters, Merged
<1> HIDE DEF row
<1>4. /\ t \in Farms
      /\ t.printers = Put(s.printers, p, row)
      /\ DOMAIN t.printers = DOMAIN s.printers /\ t.printers[p] = row
      /\ \A q \in DOMAIN s.printers : q # p => t.printers[q] = s.printers[q]
      /\ t.cache = s.cache /\ t.floors = s.floors /\ t.store = s.store /\ t.groups = s.groups
  BY <1>2, <1>3, RowSet
<1>5. QED BY <1>4 DEF row

\* ... which nobody changed, ...
LEMMA SaveReadPuts ==
  ASSUME NEW s \in Farms, NEW p \in DOMAIN s.printers, NEW doc \in Printer,
         NEW t, t = SavePrinter(s, p, doc, s.printers[p])
  PROVE  t.printers = Put(s.printers, p, doc)
<1>1. s.printers[p] \in Printer BY FarmTables
<1>2. Merged(s.printers[p], doc, s.printers[p]) = doc BY <1>1, MergedIs
<1>3. t.printers = Put(s.printers, p, Merged(s.printers[p], doc, s.printers[p]))
  BY <1>1, SavePrinterPuts
<1>4. QED BY <1>2, <1>3

\* ... and of any.
LEMMA SavePrinterIs ==
  ASSUME NEW s \in Farms, NEW p, NEW doc \in Printer, NEW read \in Printer,
         NEW t, t = SavePrinter(s, p, doc, read)
  PROVE  /\ t \in Farms /\ t.cache = s.cache /\ t.floors = s.floors
         /\ t.store = s.store /\ t.groups = s.groups
         /\ DOMAIN t.printers = DOMAIN s.printers
<1>1. CASE p \notin DOMAIN s.printers BY <1>1 DEF SavePrinter
<1>2. CASE p \in DOMAIN s.printers BY <1>2, SavePrinterPuts
<1>3. QED BY <1>1, <1>2

\* findByIdAndUpdate
LEMMA FindAndUpdateIs ==
  ASSUME NEW s \in Farms, NEW p, NEW update, Fits(update), NEW t, t = FindByIdAndUpdate(s, p, update)
  PROVE  /\ t \in Farms /\ t.cache = s.cache /\ t.floors = s.floors
         /\ t.store = s.store /\ t.groups = s.groups
         /\ DOMAIN t.printers = DOMAIN s.printers
         /\ \A q \in DOMAIN s.printers : q # p => t.printers[q] = s.printers[q]
<1>1. CASE p \notin DOMAIN s.printers BY <1>1 DEF FindByIdAndUpdate
<1>2. CASE p \in DOMAIN s.printers
  <2>1. s.printers[p] \in Printer BY <1>2, FarmTables
  <2> DEFINE row == Assign(update, s.printers[p])
  <2>2. row \in Printer BY <2>1, AssignPrinter
  <2>3. t = WithPrinters(s, [s.printers EXCEPT ![p] = row])
    BY <1>2 DEF FindByIdAndUpdate, WithPrinters
  <2> HIDE DEF row
  <2>4. /\ t \in Farms
        /\ DOMAIN t.printers = DOMAIN s.printers
        /\ \A q \in DOMAIN s.printers : q # p => t.printers[q] = s.printers[q]
        /\ t.cache = s.cache /\ t.floors = s.floors /\ t.store = s.store /\ t.groups = s.groups
    BY <1>2, <2>2, <2>3, RowSet
  <2>5. QED BY <2>4
<1>3. QED BY <1>1, <1>2

\* What patches set.
LEMMA PatchesFit ==
  \A update \in Patches : Fits(update)
<1>1. \A e \in BOOLEAN : Fits(EnabledUpdate(e)) BY DEF EnabledUpdate, Fits
<1>2. \A e \in Reasons \cup {None} : Fits(DisabledReasonUpdate(e))
  BY DEF DisabledReasonUpdate, Fits
<1>3. \A conn \in Conns : Fits(ConnectionUpdate(conn)) BY DEF ConnectionUpdate, Fits
<1>4. Fits(RateUpdate) BY DEF RateUpdate, Fits
<1>5. QED BY <1>1, <1>2, <1>3, <1>4 DEF Patches

\* deleteMany
LEMMA RemovePrintersIs ==
  ASSUME NEW s \in Farms, NEW ps, NEW t, t = RemovePrinters(s, ps)
  PROVE  /\ t \in Farms /\ t.printers = Restrict(s.printers, DOMAIN s.printers \ ps)
         /\ t.cache = s.cache /\ t.floors = s.floors /\ t.store = s.store /\ t.groups = s.groups
<1> DEFINE rows == Restrict(s.printers, DOMAIN s.printers \ ps)
<1>1. s.printers \in Table(PrinterIds, Printer) BY FarmTables DEF Printers
<1>2. rows \in Printers BY <1>1, RestrictTable DEF Printers
<1>3. t = WithPrinters(s, rows) BY DEF RemovePrinters, WithPrinters
<1> HIDE DEF rows
<1>4. /\ t \in Farms /\ t.printers = rows
      /\ t.cache = s.cache /\ t.floors = s.floors /\ t.store = s.store /\ t.groups = s.groups
  BY <1>2, <1>3, WithPrintersIs
<1>5. QED BY <1>4 DEF rows

\* HandlePrintersDeleted, as a table.
LEMMA DeletedIs ==
  ASSUME NEW s \in Farms, NEW ps, NEW t, t = HandlePrintersDeleted(s, ps)
  PROVE  /\ t \in Farms /\ t.cache = Restrict(s.cache, DOMAIN s.cache \ ps)
         /\ t.printers = s.printers /\ t.floors = s.floors /\ t.store = s.store /\ t.groups = s.groups
<1>1. t \in Farms /\ t.printers = s.printers /\ t.floors = s.floors
      /\ t.store = s.store /\ t.groups = s.groups
  BY DeleteKeysIs
<1>2. t.cache = Restrict(s.cache, DOMAIN s.cache \ ps)
  BY DEF HandlePrintersDeleted, DeleteKeysBatch, Farms
<1>3. QED BY <1>1, <1>2

\* A printer told to the cache.
LEMMA ToldIs ==
  ASSUME NEW s \in Farms, NEW p \in PrinterIds, NEW printer \in Printer,
         NEW t, t = HandlePrinterCreatedOrUpdated(s, p, printer)
  PROVE  /\ t \in Farms /\ t.cache = Put(s.cache, p, printer)
         /\ t.printers = s.printers /\ t.floors = s.floors /\ t.store = s.store /\ t.groups = s.groups
<1>1. s.cache \in Table(PrinterIds, Printer) BY FarmTables DEF Printers
<1>2. Put(s.cache, p, printer) \in Printers BY <1>1, PutTable DEF Printers
<1>3. printer # None BY NoValues
<1>4. t = WithCache(s, Put(s.cache, p, printer))
  BY <1>3 DEF HandlePrinterCreatedOrUpdated, SetKeyValue, WithCache
<1>5. QED BY <1>2, <1>4, WithCacheIs

\* New printers told to the cache.
LEMMA CreatedIs ==
  ASSUME NEW s \in Farms, NEW ps \in SUBSET PrinterIds, NEW conn \in Conns,
         NEW made, made = [p \in ps |-> NewPrinter(conn)],
         NEW t, t = HandleBatchPrinterCreated(s, made)
  PROVE  /\ t \in Farms /\ t.cache = Overlaid(made, s.cache)
         /\ t.printers = s.printers /\ t.floors = s.floors /\ t.store = s.store /\ t.groups = s.groups
<1>1. s.cache \in Table(PrinterIds, Printer) BY FarmTables DEF Printers
<1>2. made \in Table(PrinterIds, Printer) BY NewIsPrinter, TableIs
<1>3. Overlaid(made, s.cache) \in Printers BY <1>1, <1>2, OverlaidTable DEF Printers
<1>4. t = WithCache(s, Overlaid(made, s.cache))
  BY DEF HandleBatchPrinterCreated, SetKeyValuesBatch, WithCache
<1>5. QED BY <1>3, <1>4, WithCacheIs

\* $pull
LEMMA PullIs ==
  ASSUME NEW s \in Farms, NEW p, NEW t, t = PullPrinter(s, p)
  PROVE  /\ t \in Farms
         /\ t.printers = s.printers /\ t.cache = s.cache /\ t.store = s.store /\ t.groups = s.groups
         /\ DOMAIN t.floors = DOMAIN s.floors
         /\ \A f \in DOMAIN s.floors :
              t.floors[f].printers = {pos \in s.floors[f].printers : pos.printer # p}
<1> DEFINE floors == [f \in DOMAIN s.floors |->
             [s.floors[f] EXCEPT !.printers = {pos \in @ : pos.printer # p}]]
<1>1. s.floors \in Table(FloorIds, Floor) BY FarmTables DEF FloorRows
<1>2. \A f \in DOMAIN s.floors : s.floors[f] \in Floor BY FarmTables
<1>3. \A f \in DOMAIN s.floors :
        /\ floors[f] \in Floor
        /\ floors[f].printers = {pos \in s.floors[f].printers : pos.printer # p}
  BY <1>2 DEF Floor
<1>4. floors = [f \in DOMAIN s.floors |-> floors[f]] /\ DOMAIN floors = DOMAIN s.floors
  OBVIOUS
<1>5. t = WithFloors(s, floors) BY DEF PullPrinter, WithFloors
<1> HIDE DEF floors
<1>6. floors \in FloorRows BY <1>1, <1>3, <1>4, MapTable DEF FloorRows
<1>7. /\ t \in Farms /\ t.floors = floors
      /\ t.printers = s.printers /\ t.cache = s.cache /\ t.store = s.store /\ t.groups = s.groups
  BY <1>5, <1>6, WithFloorsIs
<1>8. QED BY <1>3, <1>4, <1>7

\* A floor's document replaced.
LEMMA FloorSet ==
  ASSUME NEW s \in Farms, NEW f \in DOMAIN s.floors, NEW floor \in Floor,
         NEW t, t = WithFloors(s, [s.floors EXCEPT ![f] = floor])
  PROVE  /\ t \in Farms
         /\ t.floors = Put(s.floors, f, floor)
         /\ DOMAIN t.floors = DOMAIN s.floors /\ t.floors[f] = floor
         /\ \A g \in DOMAIN s.floors : g # f => t.floors[g] = s.floors[g]
         /\ t.printers = s.printers /\ t.cache = s.cache /\ t.store = s.store /\ t.groups = s.groups
<1>1. s.floors \in Table(FloorIds, Floor) BY FarmTables DEF FloorRows
<1>2. /\ [s.floors EXCEPT ![f] = floor] \in FloorRows
      /\ [s.floors EXCEPT ![f] = floor] = Put(s.floors, f, floor)
  BY <1>1, SetTable DEF FloorRows
<1>3. /\ DOMAIN Put(s.floors, f, floor) = DOMAIN s.floors
      /\ Put(s.floors, f, floor)[f] = floor
      /\ \A g \in DOMAIN s.floors : g # f => Put(s.floors, f, floor)[g] = s.floors[g]
  BY DEF Put
<1>4. QED BY <1>2, <1>3, WithFloorsIs

\* The insert of a floor: the index on the level refuses a second one.
LEMMA InsertFloorIs ==
  ASSUME NEW s \in Farms, NEW f \in FloorIds, NEW floor \in Floor,
         NEW t, t = InsertFloor(s, f, floor.name, floor.level, floor.printers)
  PROVE  /\ t \in Farms
         /\ t.floors = IF LevelTaken(s, floor.level) THEN s.floors ELSE Put(s.floors, f, floor)
         /\ t.printers = s.printers /\ t.cache = s.cache /\ t.store = s.store /\ t.groups = s.groups
<1>1. s.floors \in Table(FloorIds, Floor) BY FarmTables DEF FloorRows
<1>2. Put(s.floors, f, floor) \in FloorRows BY <1>1, PutTable DEF FloorRows
<1>3. CASE LevelTaken(s, floor.level) BY <1>3 DEF InsertFloor
<1>4. CASE ~LevelTaken(s, floor.level)
  <2>1. NewFloor(floor.name, floor.level, floor.printers) = floor BY DEF NewFloor, Floor
  <2>2. t = WithFloors(s, Put(s.floors, f, floor))
    BY <1>4, <2>1 DEF InsertFloor, AddFloor, WithFloors
  <2>3. QED BY <1>2, <1>4, <2>2, WithFloorsIs
<1>5. QED BY <1>3, <1>4

\* The delete of a floor.
LEMMA DeleteFloorIs ==
  ASSUME NEW s \in Farms, NEW f, NEW t, t = DeleteFloor(s, f)
  PROVE  /\ t \in Farms /\ t.floors = Restrict(s.floors, DOMAIN s.floors \ {f})
         /\ t.printers = s.printers /\ t.cache = s.cache /\ t.store = s.store /\ t.groups = s.groups
<1>1. s.floors \in Table(FloorIds, Floor) BY FarmTables DEF FloorRows
<1>2. Restrict(s.floors, DOMAIN s.floors \ {f}) \in FloorRows
  BY <1>1, RestrictTable DEF FloorRows
<1>3. t = WithFloors(s, Restrict(s.floors, DOMAIN s.floors \ {f}))
  BY DEF DeleteFloor, OrmDeleteFloor, WithFloors
<1>4. QED BY <1>2, <1>3, WithFloorsIs

\* A floor told that it is gone.
LEMMA DropFloorIs ==
  ASSUME NEW s \in Farms, NEW f, NEW t, t = DropFloor(s, f)
  PROVE  /\ t \in Farms /\ t.store = Restrict(s.store, DOMAIN s.store \ {f})
         /\ t.printers = s.printers /\ t.cache = s.cache /\ t.floors = s.floors /\ t.groups = s.groups
<1>1. s.store \in Table(FloorIds, Floor) BY FarmTables DEF FloorRows
<1>2. Restrict(s.store, DOMAIN s.store \ {f}) \in FloorRows
  BY <1>1, RestrictTable DEF FloorRows
<1>3. t = WithStore(s, Restrict(s.store, DOMAIN s.store \ {f})) BY DEF DropFloor, WithStore
<1>4. QED BY <1>2, <1>3, WithStoreIs

\* A floor told to the store.
LEMMA StoredIs ==
  ASSUME NEW s \in Farms, NEW f \in FloorIds, NEW floor \in Floor, NEW t, t = StoreFloor(s, f, floor)
  PROVE  /\ t \in Farms /\ t.store = Put(s.store, f, floor)
         /\ t.printers = s.printers /\ t.cache = s.cache /\ t.floors = s.floors /\ t.groups = s.groups
<1>1. s.store \in Table(FloorIds, Floor) BY FarmTables DEF FloorRows
<1>2. Put(s.store, f, floor) \in FloorRows BY <1>1, PutTable DEF FloorRows
<1>3. t = WithStore(s, Put(s.store, f, floor)) BY DEF StoreFloor, WithStore
<1>4. QED BY <1>2, <1>3, WithStoreIs

\* All floors told to the store.
LEMMA AllStoredIs ==
  ASSUME NEW s \in Farms, NEW floors \in FloorRows, NEW t, t = StoreFloors(s, floors)
  PROVE  /\ t \in Farms
         /\ DOMAIN s.store = DOMAIN floors => t.store = floors
         /\ t.printers = s.printers /\ t.cache = s.cache /\ t.floors = s.floors /\ t.groups = s.groups
<1> DEFINE store == Overlaid(floors, s.store)
<1>1. s.store \in Table(FloorIds, Floor) /\ floors \in Table(FloorIds, Floor)
  BY FarmTables DEF FloorRows
<1>2. store \in FloorRows BY <1>1, OverlaidTable DEF FloorRows
<1>3. ASSUME DOMAIN s.store = DOMAIN floors
      PROVE  store = floors
  <2>1. DOMAIN store = DOMAIN floors /\ \A f \in DOMAIN store : store[f] = floors[f]
    BY <1>3 DEF Overlaid
  <2> HIDE DEF store
  <2>2. QED BY <1>1, <1>2, <2>1, SameTable DEF FloorRows
<1>4. t = WithStore(s, store) BY DEF StoreFloors, WithStore
<1> HIDE DEF store
<1>5. t \in Farms /\ t.store = store /\ t.printers = s.printers /\ t.cache = s.cache
      /\ t.floors = s.floors /\ t.groups = s.groups
  BY <1>2, <1>4, WithStoreIs
<1>6. QED BY <1>3, <1>5

\* A document saved with its level or name.
LEMMA SaveFloorIs ==
  ASSUME NEW s \in Farms, NEW f \in DOMAIN s.floors, NEW doc \in Floor,
         NEW t, t = SaveFloor(s, f, doc)
  PROVE  /\ t \in Farms /\ DOMAIN t.floors = DOMAIN s.floors
         /\ t.floors[f].printers = s.floors[f].printers
         /\ \A g \in DOMAIN s.floors : g # f => t.floors[g] = s.floors[g]
         /\ doc.printers = s.floors[f].printers => t.floors = Put(s.floors, f, doc)
         /\ t.printers = s.printers /\ t.cache = s.cache /\ t.store = s.store /\ t.groups = s.groups
<1> DEFINE floor == [s.floors[f] EXCEPT !.name = doc.name, !.level = doc.level]
<1>1. s.floors[f] \in Floor BY FarmTables
<1>2. /\ floor \in Floor /\ floor.printers = s.floors[f].printers
      /\ doc.printers = s.floors[f].printers => floor = doc
  BY <1>1 DEF Floor
<1>3. t = WithFloors(s, [s.floors EXCEPT ![f] = floor]) BY DEF SaveFloor, WithFloors
<1> HIDE DEF floor
<1>4. /\ t \in Farms
      /\ t.floors = Put(s.floors, f, floor)
      /\ DOMAIN t.floors = DOMAIN s.floors /\ t.floors[f] = floor
      /\ \A g \in DOMAIN s.floors : g # f => t.floors[g] = s.floors[g]
      /\ t.printers = s.printers /\ t.cache = s.cache /\ t.store = s.store /\ t.groups = s.groups
  BY <1>2, <1>3, FloorSet
<1>5. QED BY <1>2, <1>4

\* A document saved with its array.
LEMMA SavePlacesIs ==
  ASSUME NEW s \in Farms, NEW f \in DOMAIN s.floors, NEW places \in SUBSET Position,
         NEW t, t = SavePlaces(s, f, places)
  PROVE  /\ t \in Farms /\ DOMAIN t.floors = DOMAIN s.floors
         /\ t.floors[f].printers = places
         /\ \A g \in DOMAIN s.floors : g # f => t.floors[g] = s.floors[g]
         /\ \A doc \in Floor :
              doc.name = s.floors[f].name /\ doc.level = s.floors[f].level /\ doc.printers = places
                => t.floors = Put(s.floors, f, doc)
         /\ t.printers = s.printers /\ t.cache = s.cache /\ t.store = s.store /\ t.groups = s.groups
<1> DEFINE floor == [s.floors[f] EXCEPT !.printers = places]
<1>1. s.floors[f] \in Floor BY FarmTables
<1>2. /\ floor \in Floor /\ floor.printers = places
      /\ \A doc \in Floor :
           doc.name = s.floors[f].name /\ doc.level = s.floors[f].level /\ doc.printers = places
             => floor = doc
  BY <1>1 DEF Floor
<1>3. t = WithFloors(s, [s.floors EXCEPT ![f] = floor]) BY DEF SavePlaces, WithFloors
<1> HIDE DEF floor
<1>4. /\ t \in Farms
      /\ t.floors = Put(s.floors, f, floor)
      /\ DOMAIN t.floors = DOMAIN s.floors /\ t.floors[f] = floor
      /\ \A g \in DOMAIN s.floors : g # f => t.floors[g] = s.floors[g]
      /\ t.printers = s.printers /\ t.cache = s.cache /\ t.store = s.store /\ t.groups = s.groups
  BY <1>2, <1>3, FloorSet
<1>5. QED BY <1>2, <1>4

\* What the finds answer.
LEMMA FindIs ==
  ASSUME NEW s \in Farms
  PROVE  /\ \A p : FindPrinter(s, p) \in Printer \cup {None} /\ (FindPrinter(s, p) # None <=> p \in DOMAIN s.printers)
         /\ \A f : FindFloor(s, f) \in Floor \cup {None} /\ (FindFloor(s, f) # None <=> f \in DOMAIN s.floors)
BY FarmTables, NoValues DEF FindPrinter, FindFloor

---------------------------------------------------------------------------
(* Requests                                                                *)

\* What a set of one printer chooses.
LEMMA TheIs ==
  /\ \A p : The({p}) = p
  /\ \A ps \in One : The(ps) \in PrinterIds /\ ps = {The(ps)}
BY DEF The, One

\* A request by its fields.
LEMMA RequestIs ==
  ASSUME NEW op, NEW cmd, NEW pss, NEW fs, NEW args, NEW answers,
         NEW r \in Request(op, cmd, pss, fs, args, answers)
  PROVE  /\ r.op = op /\ r.cmd = cmd /\ r.ps \in pss /\ r.f \in fs /\ r.arg \in args
         /\ r.ans \in answers \cup {Pending} /\ r.stale \in BOOLEAN
BY DEF Request

\* A request answered.
AnsweredBy(r, ans) == [r EXCEPT !.ans = ans]

LEMMA AnsweredIs ==
  ASSUME NEW op, NEW cmd, NEW pss, NEW fs, NEW args, NEW answers,
         NEW r \in Request(op, cmd, pss, fs, args, answers), NEW ans \in answers,
         NEW t, t = AnsweredBy(r, ans)
  PROVE  /\ t \in Request(op, cmd, pss, fs, args, answers)
         /\ t.op = op /\ t.cmd = cmd /\ t.ps = r.ps /\ t.f = r.f
         /\ t.arg = r.arg /\ t.ans = ans /\ t.stale = r.stale
BY DEF Request, AnsweredBy

\* A request that sends its next command.
NextOf(r, cmd, arg) == [r EXCEPT !.cmd = cmd, !.arg = arg, !.ans = Pending]

LEMMA NextIs ==
  ASSUME NEW op, NEW cmd, NEW pss, NEW fs, NEW args, NEW answers,
         NEW r \in Request(op, cmd, pss, fs, args, answers),
         NEW next, NEW arg, NEW nextArgs, arg \in nextArgs, NEW nextAnswers,
         NEW t, t = NextOf(r, next, arg)
  PROVE  /\ t \in Request(op, next, pss, fs, nextArgs, nextAnswers)
         /\ t.op = op /\ t.cmd = next /\ t.ps = r.ps /\ t.f = r.f
         /\ t.arg = arg /\ t.ans = Pending /\ t.stale = r.stale
BY DEF Request, NextOf


\* A request that arrives.
LEMMA SentIn ==
  ASSUME NEW op, NEW ps, NEW f, NEW arg, NEW cmd, NEW t, t = Sent(op, ps, f, arg, cmd),
         NEW pss, ps \in pss, NEW fs, f \in fs, NEW args, arg \in args, NEW answers
  PROVE  t \in Request(op, cmd, pss, fs, args, answers)
BY DEF Request, Sent

\* No request is nobody's.
LEMMA IdleIs ==
  /\ Idle.op = "idle" /\ Idle.f = None /\ Idle.ps = {} /\ Idle.ans # Pending /\ Idle.stale = FALSE
  /\ Legal(Idle)
BY NoValues DEF Idle, Legal

\* The operation and the command of each kind of request.
LEMMA Kinds ==
  ASSUME NEW r
  PROVE  /\ r \in Creates => r.op = "create" /\ r.cmd = "insertPrinter"
         /\ r \in UpdateFinds => r.op = "update" /\ r.cmd = "findPrinter"
         /\ r \in UpdateSaves => r.op = "update" /\ r.cmd = "savePrinter"
         /\ r \in PatchFinds => r.op = "patch" /\ r.cmd = "findPrinter"
         /\ r \in PatchSaves => r.op = "patch" /\ r.cmd = "patchPrinter"
         /\ r \in Deletes => r.op = "delete" /\ r.cmd = "deletePrinters"
         /\ r \in DeletePulls => r.op = "delete" /\ r.cmd = "pull"
         /\ r \in DeleteAlls => r.op = "deleteAll" /\ r.cmd = "deletePrinters"
         /\ r \in DeleteLists => r.op = "delete" /\ r.cmd = "listFloors"
         /\ r \in DeleteInserts => r.op = "delete" /\ r.cmd = "insertFloor"
         /\ r \in Lists => r.op = "list" /\ r.cmd = "listFloors"
         /\ r \in ListInserts => r.op = "list" /\ r.cmd = "insertFloor"
         /\ r \in FloorInserts => r.op = "createFloor" /\ r.cmd = "insertFloor"
         /\ r \in DeleteFloorFinds => r.op = "deleteFloor" /\ r.cmd = "findFloor"
         /\ r \in DeleteFloors => r.op = "deleteFloor" /\ r.cmd = "deleteFloor"
         /\ r \in TitleFinds => r.op = "updateFloor" /\ r.cmd = "findFloor"
         /\ r \in TitleSaves => r.op = "updateFloor" /\ r.cmd = "saveFloor"
         /\ r \in PlaceFinds => r.op = "place" /\ r.cmd = "findFloor"
         /\ r \in PlaceSaves => r.op = "place" /\ r.cmd = "savePlaces"
         /\ r \in RemoveFinds => r.op = "remove" /\ r.cmd = "findFloor"
         /\ r \in RemoveSaves => r.op = "remove" /\ r.cmd = "savePlaces"
<1>1. r \in Creates => r.op = "create" /\ r.cmd = "insertPrinter" BY RequestIs DEF Creates
<1>2. r \in UpdateFinds => r.op = "update" /\ r.cmd = "findPrinter"
  BY RequestIs DEF UpdateFinds
<1>3. r \in UpdateSaves => r.op = "update" /\ r.cmd = "savePrinter"
  BY RequestIs DEF UpdateSaves
<1>4. r \in PatchFinds => r.op = "patch" /\ r.cmd = "findPrinter"
  BY RequestIs DEF PatchFinds
<1>5. r \in PatchSaves => r.op = "patch" /\ r.cmd = "patchPrinter"
  BY RequestIs DEF PatchSaves
<1>6. r \in Deletes => r.op = "delete" /\ r.cmd = "deletePrinters" BY RequestIs DEF Deletes
<1>7. r \in DeletePulls => r.op = "delete" /\ r.cmd = "pull" BY RequestIs DEF DeletePulls
<1>8. r \in DeleteAlls => r.op = "deleteAll" /\ r.cmd = "deletePrinters"
  BY RequestIs DEF DeleteAlls
<1>9. r \in DeleteLists => r.op = "delete" /\ r.cmd = "listFloors"
  BY RequestIs DEF DeleteLists
<1>10. r \in DeleteInserts => r.op = "delete" /\ r.cmd = "insertFloor"
  BY RequestIs DEF DeleteInserts
<1>11. r \in Lists => r.op = "list" /\ r.cmd = "listFloors" BY RequestIs DEF Lists
<1>12. r \in ListInserts => r.op = "list" /\ r.cmd = "insertFloor"
  BY RequestIs DEF ListInserts
<1>13. r \in FloorInserts => r.op = "createFloor" /\ r.cmd = "insertFloor"
  BY RequestIs DEF FloorInserts
<1>14. r \in DeleteFloorFinds => r.op = "deleteFloor" /\ r.cmd = "findFloor"
  BY RequestIs DEF DeleteFloorFinds
<1>15. r \in DeleteFloors => r.op = "deleteFloor" /\ r.cmd = "deleteFloor"
  BY RequestIs DEF DeleteFloors
<1>16. r \in TitleFinds => r.op = "updateFloor" /\ r.cmd = "findFloor"
  BY RequestIs DEF TitleFinds
<1>17. r \in TitleSaves => r.op = "updateFloor" /\ r.cmd = "saveFloor"
  BY RequestIs DEF TitleSaves
<1>18. r \in PlaceFinds => r.op = "place" /\ r.cmd = "findFloor" BY RequestIs DEF PlaceFinds
<1>19. r \in PlaceSaves => r.op = "place" /\ r.cmd = "savePlaces"
  BY RequestIs DEF PlaceSaves
<1>20. r \in RemoveFinds => r.op = "remove" /\ r.cmd = "findFloor"
  BY RequestIs DEF RemoveFinds
<1>21. r \in RemoveSaves => r.op = "remove" /\ r.cmd = "savePlaces"
  BY RequestIs DEF RemoveSaves
<1>22. QED
  BY <1>1, <1>2, <1>3, <1>4, <1>5, <1>6, <1>7, <1>8, <1>9, <1>10, <1>11, <1>12, <1>13, <1>14, <1>15, <1>16, <1>17, <1>18, <1>19, <1>20, <1>21

\* What a request is, by its operation and its command.
LEMMA LegalIs ==
  ASSUME NEW r, Legal(r)
  PROVE  /\ r.op = "idle" <=> r = Idle
         /\ r # Idle => r.op \in {"create", "update", "patch", "delete", "deleteAll", "list",
              "createFloor", "deleteFloor", "updateFloor", "place", "remove"}
         /\ r.op = "create" /\ r.cmd = "insertPrinter" => r \in Creates /\ r.arg.todo \subseteq r.ps /\ (r.ans # Pending => r.ans \in r.arg.todo)
         /\ r.op = "update" /\ r.cmd = "findPrinter" => r \in UpdateFinds
         /\ r.op = "update" /\ r.cmd = "savePrinter" => r \in UpdateSaves /\ r.arg.doc = Assign(r.arg.body, r.arg.read)
         /\ r.op = "patch" /\ r.cmd = "findPrinter" => r \in PatchFinds
         /\ r.op = "patch" /\ r.cmd = "patchPrinter" => r \in PatchSaves
         /\ r.op = "delete" /\ r.cmd = "deletePrinters" => r \in Deletes
         /\ r.op = "delete" /\ r.cmd = "pull" => r \in DeletePulls
         /\ r.op = "deleteAll" /\ r.cmd = "deletePrinters" => r \in DeleteAlls
         /\ r.op = "delete" /\ r.cmd = "listFloors" => r \in DeleteLists
         /\ r.op = "delete" /\ r.cmd = "insertFloor" => r \in DeleteInserts
         /\ r.op = "list" /\ r.cmd = "listFloors" => r \in Lists
         /\ r.op = "list" /\ r.cmd = "insertFloor" => r \in ListInserts
         /\ r.op = "createFloor" /\ r.cmd = "insertFloor" => r \in FloorInserts
         /\ r.op = "deleteFloor" /\ r.cmd = "findFloor" => r \in DeleteFloorFinds
         /\ r.op = "deleteFloor" /\ r.cmd = "deleteFloor" => r \in DeleteFloors
         /\ r.op = "updateFloor" /\ r.cmd = "findFloor" => r \in TitleFinds
         /\ r.op = "updateFloor" /\ r.cmd = "saveFloor" => r \in TitleSaves
         /\ r.op = "place" /\ r.cmd = "findFloor" => r \in PlaceFinds
         /\ r.op = "place" /\ r.cmd = "savePlaces" => r \in PlaceSaves
         /\ r.op = "remove" /\ r.cmd = "findFloor" => r \in RemoveFinds
         /\ r.op = "remove" /\ r.cmd = "savePlaces" => r \in RemoveSaves
BY Kinds, IdleIs DEF Legal

\* What a request awaits, by its command.
LEMMA AwaitedIs ==
  ASSUME NEW r, Legal(r), r # Idle
  PROVE  /\ r.cmd = "insertPrinter" => r \in Creates
         /\ r.cmd = "findPrinter" => r \in UpdateFinds \/ r \in PatchFinds
         /\ r.cmd = "savePrinter" => r \in UpdateSaves
         /\ r.cmd = "patchPrinter" => r \in PatchSaves
         /\ r.cmd = "deletePrinters" => r \in Deletes \/ r \in DeleteAlls
         /\ r.cmd = "pull" => r \in DeletePulls
         /\ r.cmd = "listFloors" => r \in DeleteLists \/ r \in Lists
         /\ r.cmd = "insertFloor" => r \in DeleteInserts \/ r \in ListInserts \/ r \in FloorInserts
         /\ r.cmd = "findFloor" => r \in DeleteFloorFinds \/ r \in TitleFinds \/ r \in PlaceFinds \/ r \in RemoveFinds
         /\ r.cmd = "deleteFloor" => r \in DeleteFloors
         /\ r.cmd = "saveFloor" => r \in TitleSaves
         /\ r.cmd = "savePlaces" => r \in PlaceSaves \/ r \in RemoveSaves
BY Kinds, IdleIs DEF Legal

\* The fields of each kind of request.
LEMMA CreatesAre ==
  ASSUME NEW r \in Creates
  PROVE  /\ r.op = "create" /\ r.cmd = "insertPrinter" /\ r.ps \in SUBSET PrinterIds /\ r.f = None
         /\ r.arg \in CreateArgs /\ r.arg.conn \in Conns /\ r.arg.todo \in SUBSET PrinterIds
         /\ r.ans \in PrinterIds \cup {Pending} /\ r.stale \in BOOLEAN
<1>1. /\ r.op = "create" /\ r.cmd = "insertPrinter" /\ r.ps \in SUBSET PrinterIds /\ r.f = None /\ r.arg \in CreateArgs
      /\ r.ans \in PrinterIds \cup {Pending} /\ r.stale \in BOOLEAN
  BY RequestIs DEF Creates
<1>2. QED BY <1>1 DEF CreateArgs

LEMMA UpdateSavesAre ==
  ASSUME NEW r \in UpdateSaves
  PROVE  /\ r.op = "update" /\ r.cmd = "savePrinter" /\ r.ps \in One /\ r.f = None
         /\ r.arg \in UpdateSaveArgs /\ r.arg.body \in Updates /\ r.arg.read \in Printer /\ r.arg.doc \in Printer
         /\ r.ans \in {"saved", None, Pending} /\ r.stale \in BOOLEAN
<1>1. /\ r.op = "update" /\ r.cmd = "savePrinter" /\ r.ps \in One /\ r.f = None /\ r.arg \in UpdateSaveArgs
      /\ r.ans \in Saved \cup {Pending} /\ r.stale \in BOOLEAN
  BY RequestIs DEF UpdateSaves
<1>2. QED BY <1>1 DEF UpdateSaveArgs, Saved

LEMMA PatchFindsAre ==
  ASSUME NEW r \in PatchFinds
  PROVE  /\ r.op = "patch" /\ r.cmd = "findPrinter" /\ r.ps \in One /\ r.f = None
         /\ r.arg \in PatchArgs /\ r.arg.update \in Patches
         /\ r.ans \in Printer \cup {None, Pending} /\ r.stale \in BOOLEAN
<1>1. /\ r.op = "patch" /\ r.cmd = "findPrinter" /\ r.ps \in One /\ r.f = None /\ r.arg \in PatchArgs
      /\ r.ans \in FoundPrinter \cup {Pending} /\ r.stale \in BOOLEAN
  BY RequestIs DEF PatchFinds
<1>2. QED BY <1>1 DEF PatchArgs, FoundPrinter

LEMMA PatchSavesAre ==
  ASSUME NEW r \in PatchSaves
  PROVE  /\ r.op = "patch" /\ r.cmd = "patchPrinter" /\ r.ps \in One /\ r.f = None
         /\ r.arg \in PatchArgs /\ r.arg.update \in Patches
         /\ r.ans \in Printer \cup {None, Pending} /\ r.stale \in BOOLEAN
<1>1. /\ r.op = "patch" /\ r.cmd = "patchPrinter" /\ r.ps \in One /\ r.f = None /\ r.arg \in PatchArgs
      /\ r.ans \in FoundPrinter \cup {Pending} /\ r.stale \in BOOLEAN
  BY RequestIs DEF PatchSaves
<1>2. QED BY <1>1 DEF PatchArgs, FoundPrinter

LEMMA DeletesAre ==
  ASSUME NEW r \in Deletes
  PROVE  /\ r.op = "delete" /\ r.cmd = "deletePrinters" /\ r.ps \in One /\ r.f = None
         /\ r.arg = None
         /\ r.ans \in {"deleted", Pending} /\ r.stale \in BOOLEAN
<1>1. /\ r.op = "delete" /\ r.cmd = "deletePrinters" /\ r.ps \in One /\ r.f = None /\ r.arg \in {None}
      /\ r.ans \in {"deleted"} \cup {Pending} /\ r.stale \in BOOLEAN
  BY RequestIs DEF Deletes
<1>2. QED BY <1>1

LEMMA DeletePullsAre ==
  ASSUME NEW r \in DeletePulls
  PROVE  /\ r.op = "delete" /\ r.cmd = "pull" /\ r.ps \in One /\ r.f = None
         /\ r.arg = None
         /\ r.ans \in {"pulled", Pending} /\ r.stale \in BOOLEAN
<1>1. /\ r.op = "delete" /\ r.cmd = "pull" /\ r.ps \in One /\ r.f = None /\ r.arg \in {None}
      /\ r.ans \in {"pulled"} \cup {Pending} /\ r.stale \in BOOLEAN
  BY RequestIs DEF DeletePulls
<1>2. QED BY <1>1

LEMMA DeleteAllsAre ==
  ASSUME NEW r \in DeleteAlls
  PROVE  /\ r.op = "deleteAll" /\ r.cmd = "deletePrinters" /\ r.ps \in SUBSET PrinterIds /\ r.f = None
         /\ r.arg = None
         /\ r.ans \in {"deleted", Pending} /\ r.stale \in BOOLEAN
<1>1. /\ r.op = "deleteAll" /\ r.cmd = "deletePrinters" /\ r.ps \in SUBSET PrinterIds /\ r.f = None /\ r.arg \in {None}
      /\ r.ans \in {"deleted"} \cup {Pending} /\ r.stale \in BOOLEAN
  BY RequestIs DEF DeleteAlls
<1>2. QED BY <1>1

LEMMA DeleteListsAre ==
  ASSUME NEW r \in DeleteLists
  PROVE  /\ r.op = "delete" /\ r.cmd = "listFloors" /\ r.ps \in One /\ r.f = None
         /\ r.arg = None
         /\ r.ans \in FloorRows \cup {Pending} /\ r.stale \in BOOLEAN
<1>1. /\ r.op = "delete" /\ r.cmd = "listFloors" /\ r.ps \in One /\ r.f = None /\ r.arg \in {None}
      /\ r.ans \in FloorRows \cup {Pending} /\ r.stale \in BOOLEAN
  BY RequestIs DEF DeleteLists
<1>2. QED BY <1>1

LEMMA DeleteInsertsAre ==
  ASSUME NEW r \in DeleteInserts
  PROVE  /\ r.op = "delete" /\ r.cmd = "insertFloor" /\ r.ps \in One /\ r.f \in FloorIds
         /\ r.arg \in Floor
         /\ r.ans \in Floor \cup {None, Pending} /\ r.stale \in BOOLEAN
<1>1. /\ r.op = "delete" /\ r.cmd = "insertFloor" /\ r.ps \in One /\ r.f \in FloorIds /\ r.arg \in Floor
      /\ r.ans \in FoundFloor \cup {Pending} /\ r.stale \in BOOLEAN
  BY RequestIs DEF DeleteInserts
<1>2. QED BY <1>1 DEF FoundFloor

LEMMA ListsAre ==
  ASSUME NEW r \in Lists
  PROVE  /\ r.op = "list" /\ r.cmd = "listFloors" /\ r.ps = {} /\ r.f = None
         /\ r.arg = None
         /\ r.ans \in FloorRows \cup {Pending} /\ r.stale \in BOOLEAN
<1>1. /\ r.op = "list" /\ r.cmd = "listFloors" /\ r.ps = {} /\ r.f = None /\ r.arg \in {None}
      /\ r.ans \in FloorRows \cup {Pending} /\ r.stale \in BOOLEAN
  BY RequestIs DEF Lists
<1>2. QED BY <1>1

LEMMA ListInsertsAre ==
  ASSUME NEW r \in ListInserts
  PROVE  /\ r.op = "list" /\ r.cmd = "insertFloor" /\ r.ps = {} /\ r.f \in FloorIds
         /\ r.arg \in Floor
         /\ r.ans \in Floor \cup {None, Pending} /\ r.stale \in BOOLEAN
<1>1. /\ r.op = "list" /\ r.cmd = "insertFloor" /\ r.ps = {} /\ r.f \in FloorIds /\ r.arg \in Floor
      /\ r.ans \in FoundFloor \cup {Pending} /\ r.stale \in BOOLEAN
  BY RequestIs DEF ListInserts
<1>2. QED BY <1>1 DEF FoundFloor

LEMMA FloorInsertsAre ==
  ASSUME NEW r \in FloorInserts
  PROVE  /\ r.op = "createFloor" /\ r.cmd = "insertFloor" /\ r.ps = {} /\ r.f \in FloorIds
         /\ r.arg \in Floor
         /\ r.ans \in Floor \cup {None, Pending} /\ r.stale \in BOOLEAN
<1>1. /\ r.op = "createFloor" /\ r.cmd = "insertFloor" /\ r.ps = {} /\ r.f \in FloorIds /\ r.arg \in Floor
      /\ r.ans \in FoundFloor \cup {Pending} /\ r.stale \in BOOLEAN
  BY RequestIs DEF FloorInserts
<1>2. QED BY <1>1 DEF FoundFloor

LEMMA DeleteFloorFindsAre ==
  ASSUME NEW r \in DeleteFloorFinds
  PROVE  /\ r.op = "deleteFloor" /\ r.cmd = "findFloor" /\ r.ps = {} /\ r.f \in FloorIds
         /\ r.arg = None
         /\ r.ans \in Floor \cup {None, Pending} /\ r.stale \in BOOLEAN
<1>1. /\ r.op = "deleteFloor" /\ r.cmd = "findFloor" /\ r.ps = {} /\ r.f \in FloorIds /\ r.arg \in {None}
      /\ r.ans \in FoundFloor \cup {Pending} /\ r.stale \in BOOLEAN
  BY RequestIs DEF DeleteFloorFinds
<1>2. QED BY <1>1 DEF FoundFloor

LEMMA DeleteFloorsAre ==
  ASSUME NEW r \in DeleteFloors
  PROVE  /\ r.op = "deleteFloor" /\ r.cmd = "deleteFloor" /\ r.ps = {} /\ r.f \in FloorIds
         /\ r.arg = None
         /\ r.ans \in {"deleted", Pending} /\ r.stale \in BOOLEAN
<1>1. /\ r.op = "deleteFloor" /\ r.cmd = "deleteFloor" /\ r.ps = {} /\ r.f \in FloorIds /\ r.arg \in {None}
      /\ r.ans \in {"deleted"} \cup {Pending} /\ r.stale \in BOOLEAN
  BY RequestIs DEF DeleteFloors
<1>2. QED BY <1>1

LEMMA TitleFindsAre ==
  ASSUME NEW r \in TitleFinds
  PROVE  /\ r.op = "updateFloor" /\ r.cmd = "findFloor" /\ r.ps = {} /\ r.f \in FloorIds
         /\ r.arg \in TitleFindArgs /\ r.arg.update \in Titles /\ r.arg.doc \in {None}
         /\ r.ans \in Floor \cup {None, Pending} /\ r.stale \in BOOLEAN
<1>1. /\ r.op = "updateFloor" /\ r.cmd = "findFloor" /\ r.ps = {} /\ r.f \in FloorIds /\ r.arg \in TitleFindArgs
      /\ r.ans \in FoundFloor \cup {Pending} /\ r.stale \in BOOLEAN
  BY RequestIs DEF TitleFinds
<1>2. QED BY <1>1 DEF TitleFindArgs, FoundFloor

LEMMA TitleSavesAre ==
  ASSUME NEW r \in TitleSaves
  PROVE  /\ r.op = "updateFloor" /\ r.cmd = "saveFloor" /\ r.ps = {} /\ r.f \in FloorIds
         /\ r.arg \in TitleSaveArgs /\ r.arg.update \in Titles /\ r.arg.doc \in Floor
         /\ r.ans \in {"saved", None, Pending} /\ r.stale \in BOOLEAN
<1>1. /\ r.op = "updateFloor" /\ r.cmd = "saveFloor" /\ r.ps = {} /\ r.f \in FloorIds /\ r.arg \in TitleSaveArgs
      /\ r.ans \in Saved \cup {Pending} /\ r.stale \in BOOLEAN
  BY RequestIs DEF TitleSaves
<1>2. QED BY <1>1 DEF TitleSaveArgs, Saved

LEMMA PlaceFindsAre ==
  ASSUME NEW r \in PlaceFinds
  PROVE  /\ r.op = "place" /\ r.cmd = "findFloor" /\ r.ps \in One /\ r.f \in FloorIds
         /\ r.arg \in PlaceFindArgs /\ r.arg.cell \in Cells /\ r.arg.read \in {None} /\ r.arg.doc \in {None}
         /\ r.ans \in Floor \cup {None, Pending} /\ r.stale \in BOOLEAN
<1>1. /\ r.op = "place" /\ r.cmd = "findFloor" /\ r.ps \in One /\ r.f \in FloorIds /\ r.arg \in PlaceFindArgs
      /\ r.ans \in FoundFloor \cup {Pending} /\ r.stale \in BOOLEAN
  BY RequestIs DEF PlaceFinds
<1>2. QED BY <1>1 DEF PlaceFindArgs, FoundFloor

LEMMA PlaceSavesAre ==
  ASSUME NEW r \in PlaceSaves
  PROVE  /\ r.op = "place" /\ r.cmd = "savePlaces" /\ r.ps \in One /\ r.f \in FloorIds
         /\ r.arg \in PlaceSaveArgs /\ r.arg.cell \in Cells /\ r.arg.read \in Floor /\ r.arg.doc \in Floor
         /\ r.ans \in {"saved", None, Pending} /\ r.stale \in BOOLEAN
<1>1. /\ r.op = "place" /\ r.cmd = "savePlaces" /\ r.ps \in One /\ r.f \in FloorIds /\ r.arg \in PlaceSaveArgs
      /\ r.ans \in Saved \cup {Pending} /\ r.stale \in BOOLEAN
  BY RequestIs DEF PlaceSaves
<1>2. QED BY <1>1 DEF PlaceSaveArgs, Saved

LEMMA RemoveFindsAre ==
  ASSUME NEW r \in RemoveFinds
  PROVE  /\ r.op = "remove" /\ r.cmd = "findFloor" /\ r.ps \in One /\ r.f \in FloorIds
         /\ r.arg \in RemoveFindArgs /\ r.arg.cell \in {None} /\ r.arg.read \in {None} /\ r.arg.doc \in {None}
         /\ r.ans \in Floor \cup {None, Pending} /\ r.stale \in BOOLEAN
<1>1. /\ r.op = "remove" /\ r.cmd = "findFloor" /\ r.ps \in One /\ r.f \in FloorIds /\ r.arg \in RemoveFindArgs
      /\ r.ans \in FoundFloor \cup {Pending} /\ r.stale \in BOOLEAN
  BY RequestIs DEF RemoveFinds
<1>2. QED BY <1>1 DEF RemoveFindArgs, FoundFloor

LEMMA RemoveSavesAre ==
  ASSUME NEW r \in RemoveSaves
  PROVE  /\ r.op = "remove" /\ r.cmd = "savePlaces" /\ r.ps \in One /\ r.f \in FloorIds
         /\ r.arg \in RemoveSaveArgs /\ r.arg.cell \in {None} /\ r.arg.read \in Floor /\ r.arg.doc \in Floor
         /\ r.ans \in {"saved", None, Pending} /\ r.stale \in BOOLEAN
<1>1. /\ r.op = "remove" /\ r.cmd = "savePlaces" /\ r.ps \in One /\ r.f \in FloorIds /\ r.arg \in RemoveSaveArgs
      /\ r.ans \in Saved \cup {Pending} /\ r.stale \in BOOLEAN
  BY RequestIs DEF RemoveSaves
<1>2. QED BY <1>1 DEF RemoveSaveArgs, Saved

---------------------------------------------------------------------------
(* One request alone: what it owes                                         *)

\* The caches hold what the database holds.
Still(s) == s.cache = s.printers /\ s.store = s.floors

\* A request r of a farm s takes a step to r2 and t.
Fine(s, r, t, r2) ==
  /\ t \in Farms /\ t.groups = s.groups
  /\ Legal(r2)
  /\ r2 # Idle => r2.op = r.op
  /\ Owes(s, r) => IF r2 = Idle THEN Still(t) ELSE Owes(t, r2)

\* What is owed, by the command.
LEMMA OwesIs ==
  ASSUME NEW s, NEW r
  PROVE  /\ Owes(s, r) => ~r.stale
         /\ r.cmd = "insertPrinter" => (Owes(s, r) <=> ~r.stale /\ CreateOwes(s, r))
         /\ r.cmd = "findPrinter" => (Owes(s, r) <=> ~r.stale /\ FindOwes(s, r))
         /\ r.cmd = "savePrinter" => (Owes(s, r) <=> ~r.stale /\ SaveOwes(s, r))
         /\ r.cmd = "deletePrinters" => (Owes(s, r) <=> ~r.stale /\ DeleteOwes(s, r))
         /\ r.cmd = "pull" => (Owes(s, r) <=> ~r.stale /\ PullOwes(s, r))
         /\ r.cmd = "listFloors" => (Owes(s, r) <=> ~r.stale /\ ListOwes(s, r))
         /\ r.cmd = "insertFloor" => (Owes(s, r) <=> ~r.stale /\ NewFloorOwes(s, r))
         /\ r.cmd = "findFloor" => (Owes(s, r) <=> ~r.stale /\ FindFloorOwes(s, r))
         /\ r.cmd = "deleteFloor" => (Owes(s, r) <=> ~r.stale /\ DeleteFloorOwes(s, r))
         /\ r.cmd \in {"saveFloor", "savePlaces"} => (Owes(s, r) <=> ~r.stale /\ SaveFloorOwes(s, r))
BY DEF Owes

\* A request that is done.
LEMMA DoneFine ==
  ASSUME NEW s, NEW r, NEW t \in Farms, t.groups = s.groups, Owes(s, r) => Still(t)
  PROVE  Fine(s, r, t, Idle)
BY IdleIs DEF Fine

\* A request that goes on.
LEMMA OnFine ==
  ASSUME NEW s, NEW r, NEW t \in Farms, t.groups = s.groups, NEW r2, Legal(r2), r2.op = r.op,
         r2.op # "idle", Owes(s, r) => Owes(t, r2)
  PROVE  Fine(s, r, t, r2)
BY IdleIs DEF Fine

\* One more printer is inserted.
LEMMA InsertFine ==
  ASSUME NEW s \in Farms, NEW r \in Creates, Legal(r), r.ans = Pending, NEW p \in r.arg.todo,
         NEW t, t = OrmInsert(s, p, r.arg.conn), NEW r2, r2 = AnsweredBy(r, p)
  PROVE  Fine(s, r, t, r2)
<1>1. /\ r.arg.conn \in Conns /\ p \in PrinterIds /\ r.arg.todo \subseteq r.ps /\ r.ps \subseteq PrinterIds
      /\ r.op = "create" /\ r.cmd = "insertPrinter"
  BY LegalIs, CreatesAre
<1>2. /\ r2 \in Creates /\ r2.op = "create" /\ r2.cmd = "insertPrinter" /\ r2.ps = r.ps
      /\ r2.arg = r.arg /\ r2.ans = p /\ r2.stale = r.stale
  BY <1>1, AnsweredIs DEF Creates
<1>3. Legal(r2) BY <1>1, <1>2 DEF Legal
<1>4. /\ t \in Farms /\ t.printers = Put(s.printers, p, NewPrinter(r.arg.conn))
      /\ t.cache = s.cache /\ t.floors = s.floors /\ t.store = s.store /\ t.groups = s.groups
  BY <1>1, InsertIs
<1>5. Inserted(r2) = Inserted(r) \cup {p}
  <2>1. Inserted(r) = r.ps \ r.arg.todo BY DEF Inserted
  <2>2. Inserted(r2) = r.ps \ (r.arg.todo \ {p}) BY <1>1, <1>2, NoValues DEF Inserted
  <2>3. QED BY <1>1, <2>1, <2>2
<1>6. CreateOwes(s, r) => CreateOwes(t, r2)
  BY <1>2, <1>4, <1>5 DEF CreateOwes, Put, Overlaid
<1>7. Owes(s, r) => Owes(t, r2) BY <1>1, <1>2, <1>6, OwesIs
<1>8. QED BY <1>1, <1>2, <1>3, <1>4, <1>7, OnFine

\* The next printer is inserted.
LEMMA InsertNextFine ==
  ASSUME NEW s \in Farms, NEW r \in Creates, Legal(r), r.ans # Pending,
         NEW left, left = r.arg.todo \ {r.ans}, left # {},
         NEW arg, arg = [r.arg EXCEPT !.todo = left],
         NEW r2, r2 = NextOf(r, "insertPrinter", arg)
  PROVE  Fine(s, r, s, r2)
<1>1. /\ r.arg \in CreateArgs /\ r.arg.todo \subseteq r.ps
      /\ r.op = "create" /\ r.cmd = "insertPrinter"
  BY LegalIs, Kinds, RequestIs DEF Creates
<1>2. arg \in CreateArgs /\ arg.conn = r.arg.conn /\ arg.todo = left BY <1>1 DEF CreateArgs
<1>3. /\ r2 \in Creates /\ r2.op = "create" /\ r2.cmd = "insertPrinter" /\ r2.ps = r.ps
      /\ r2.arg = arg /\ r2.ans = Pending /\ r2.stale = r.stale
  BY <1>2, NextIs DEF Creates
<1>4. Legal(r2) BY <1>1, <1>2, <1>3 DEF Legal
<1>5. Inserted(r2) = Inserted(r) BY <1>2, <1>3 DEF Inserted
<1>6. CreateOwes(s, r) => CreateOwes(s, r2) BY <1>2, <1>3, <1>5 DEF CreateOwes, CreateArgs
<1>7. Owes(s, r) => Owes(s, r2) BY <1>1, <1>3, <1>6, OwesIs
<1>8. QED BY <1>1, <1>3, <1>4, <1>7, OnFine

\* All printers are inserted, and the cache is told.
LEMMA CreatedFine ==
  ASSUME NEW s \in Farms, NEW r \in Creates, Legal(r), r.ans # Pending, r.arg.todo \ {r.ans} = {},
         NEW made, made = [p \in r.ps |-> NewPrinter(r.arg.conn)],
         NEW t, t = HandleBatchPrinterCreated(s, made)
  PROVE  Fine(s, r, t, Idle)
<1>1. r.arg.conn \in Conns /\ r.ps \in SUBSET PrinterIds /\ r.cmd = "insertPrinter"
  BY CreatesAre
<1>2. /\ t \in Farms /\ t.cache = Overlaid(made, s.cache)
      /\ t.printers = s.printers /\ t.floors = s.floors /\ t.store = s.store /\ t.groups = s.groups
  BY <1>1, CreatedIs
<1>3. Inserted(r) = r.ps BY DEF Inserted
<1>4. CreateOwes(s, r) => Still(t) BY <1>2, <1>3 DEF CreateOwes, Still
<1>5. QED BY <1>1, <1>2, <1>4, OwesIs, DoneFine

\* The printer to be updated is read.
LEMMA FindPrinterFine ==
  ASSUME NEW s \in Farms, NEW r \in UpdateFinds, r.ans = Pending,
         NEW ans, ans = FindPrinter(s, The(r.ps)), NEW r2, r2 = AnsweredBy(r, ans)
  PROVE  Fine(s, r, s, r2)
<1>1. r.op = "update" /\ r.cmd = "findPrinter" BY Kinds
<1>2. ans \in FoundPrinter BY FindIs DEF FoundPrinter
<1>3. /\ r2 \in UpdateFinds /\ r2.op = "update" /\ r2.cmd = "findPrinter" /\ r2.ps = r.ps
      /\ r2.arg = r.arg /\ r2.ans = ans /\ r2.stale = r.stale
  BY <1>2, AnsweredIs DEF UpdateFinds
<1>4. Legal(r2) BY <1>3 DEF Legal
<1>5. FindOwes(s, r) => FindOwes(s, r2) BY <1>3 DEF FindOwes
<1>6. QED BY <1>1, <1>3, <1>4, <1>5, OwesIs, OnFine

\* It is gone.
LEMMA NotFoundFine ==
  ASSUME NEW s \in Farms, NEW r, r.cmd = "findPrinter" \/ r.cmd = "findFloor"
  PROVE  Fine(s, r, s, Idle)
<1>1. Owes(s, r) => Still(s) BY OwesIs DEF FindOwes, FindFloorOwes, Still
<1>2. QED BY <1>1, DoneFine

\* It is going to be saved.
LEMMA SaveNextFine ==
  ASSUME NEW s \in Farms, NEW r \in UpdateFinds, r.ans # Pending, r.ans # None,
         NEW arg, arg = [r.arg EXCEPT !.read = r.ans, !.doc = Assign(r.arg.body, r.ans)],
         NEW r2, r2 = NextOf(r, "savePrinter", arg)
  PROVE  Fine(s, r, s, r2)
<1>1. /\ r.op = "update" /\ r.cmd = "findPrinter" /\ r.ps \in One /\ r.ans \in Printer
      /\ r.arg \in UpdateFindArgs
  BY Kinds, RequestIs DEF UpdateFinds, FoundPrinter
<1>2. Fits(r.arg.body) BY <1>1, BodiesFit DEF Updates, UpdateFindArgs
<1>3. Assign(r.arg.body, r.ans) \in Printer BY <1>1, <1>2, AssignPrinter
<1>4. /\ arg \in UpdateSaveArgs
      /\ arg.read = r.ans /\ arg.doc = Assign(arg.body, arg.read)
  BY <1>1, <1>3 DEF UpdateFindArgs, UpdateSaveArgs
<1>5. /\ r2 \in UpdateSaves /\ r2.op = "update" /\ r2.cmd = "savePrinter" /\ r2.ps = r.ps
      /\ r2.arg = arg /\ r2.ans = Pending /\ r2.stale = r.stale
  BY <1>4, NextIs DEF UpdateFinds, UpdateSaves
<1>6. Legal(r2) BY <1>4, <1>5 DEF Legal
<1>7. FindOwes(s, r) => SaveOwes(s, r2)
  BY <1>1, <1>4, <1>5 DEF FindOwes, SaveOwes, FindPrinter, UpdateSaveArgs
<1>8. QED BY <1>1, <1>5, <1>6, <1>7, OwesIs, OnFine

\* It is saved, if it is still there.
LEMMA SavePrinterFine ==
  ASSUME NEW s \in Farms, NEW r \in UpdateSaves, Legal(r), r.ans = Pending,
         NEW p, p = The(r.ps),
         NEW t, t = SavePrinter(s, p, r.arg.doc, r.arg.read),
         NEW ans, ans = IF p \in DOMAIN s.printers THEN "saved" ELSE None,
         NEW r2, r2 = AnsweredBy(r, ans)
  PROVE  Fine(s, r, t, r2)
<1>1. /\ r.op = "update" /\ r.cmd = "savePrinter"
      /\ r.arg.doc \in Printer /\ r.arg.read \in Printer /\ r.arg.doc = Assign(r.arg.body, r.arg.read)
  BY UpdateSavesAre, LegalIs
<1>2. /\ r2 \in UpdateSaves /\ r2.op = "update" /\ r2.cmd = "savePrinter" /\ r2.ps = r.ps
      /\ r2.arg = r.arg /\ r2.ans = ans /\ r2.stale = r.stale
  BY <1>1, AnsweredIs DEF UpdateSaves, Saved
<1>3. Legal(r2) BY <1>1, <1>2 DEF Legal
<1>4. /\ t \in Farms /\ t.cache = s.cache /\ t.floors = s.floors
      /\ t.store = s.store /\ t.groups = s.groups
  BY <1>1, SavePrinterIs
<1>5. ASSUME SaveOwes(s, r) PROVE SaveOwes(t, r2)
  <2>1. /\ s.store = s.floors /\ s.cache = s.printers
        /\ p \in DOMAIN s.printers /\ s.printers[p] = r.arg.read
    BY <1>5 DEF SaveOwes
  <2>2. r2.ans = "saved" /\ r2.ans # Pending /\ r2.ans # None BY <1>2, <2>1, NoValues
  <2>3. t.printers = Put(s.printers, p, r.arg.doc) BY <1>1, <2>1, SaveReadPuts
  <2>4. t.printers = Put(t.cache, p, r2.arg.doc) /\ t.store = t.floors
    BY <1>2, <1>4, <2>1, <2>3
  <2>5. QED BY <1>2, <2>2, <2>4 DEF SaveOwes
<1>6. QED BY <1>1, <1>2, <1>3, <1>4, <1>5, OwesIs, OnFine

\* The cache is told.
LEMMA SavedFine ==
  ASSUME NEW s \in Farms, NEW r \in UpdateSaves, r.ans # Pending,
         NEW t, t = IF r.ans = None THEN s ELSE HandlePrinterCreatedOrUpdated(s, The(r.ps), r.arg.doc)
  PROVE  Fine(s, r, t, Idle)
<1>1. r.cmd = "savePrinter" /\ r.arg.doc \in Printer /\ The(r.ps) \in PrinterIds
  BY UpdateSavesAre, TheIs
<1>2. CASE r.ans = None
  <2>1. ~Owes(s, r) BY <1>1, <1>2, OwesIs DEF SaveOwes
  <2>2. QED BY <1>2, <2>1, DoneFine
<1>3. CASE r.ans # None
  <2>1. /\ t \in Farms /\ t.cache = Put(s.cache, The(r.ps), r.arg.doc)
        /\ t.printers = s.printers /\ t.floors = s.floors /\ t.store = s.store /\ t.groups = s.groups
    BY <1>1, <1>3, ToldIs
  <2>2. SaveOwes(s, r) => Still(t) BY <2>1 DEF SaveOwes, Still
  <2>3. QED BY <1>1, <2>1, <2>2, OwesIs, DoneFine
<1>4. QED BY <1>2, <1>3

\* Deletes: the rows go, ...
LEMMA DeleteFine ==
  ASSUME NEW s \in Farms, NEW r, r \in Deletes \/ r \in DeleteAlls, r.ans = Pending,
         NEW ps, ps = r.ps, NEW t, t = RemovePrinters(s, ps), NEW r2, r2 = AnsweredBy(r, "deleted")
  PROVE  Fine(s, r, t, r2)
<1>1. r.op # "idle" /\ r.cmd = "deletePrinters" BY DeletesAre, DeleteAllsAre
<1>2. /\ r2.op = r.op /\ r2.cmd = "deletePrinters" /\ r2.ps = r.ps
      /\ r2.ans = "deleted" /\ r2.stale = r.stale /\ Legal(r2)
  <2>1. CASE r \in Deletes
    <3>1. /\ r2 \in Deletes /\ r2.op = "delete" /\ r2.cmd = "deletePrinters" /\ r2.ps = r.ps
          /\ r2.ans = "deleted" /\ r2.stale = r.stale
      BY <2>1, AnsweredIs DEF Deletes
    <3>2. QED BY <2>1, <3>1, DeletesAre DEF Legal
  <2>2. CASE r \in DeleteAlls
    <3>1. /\ r2 \in DeleteAlls /\ r2.op = "deleteAll" /\ r2.cmd = "deletePrinters" /\ r2.ps = r.ps
          /\ r2.ans = "deleted" /\ r2.stale = r.stale
      BY <2>2, AnsweredIs DEF DeleteAlls
    <3>2. QED BY <2>2, <3>1, DeleteAllsAre DEF Legal
  <2>3. QED BY <2>1, <2>2
<1>5. /\ t \in Farms /\ t.printers = Restrict(s.printers, DOMAIN s.printers \ ps)
      /\ t.cache = s.cache /\ t.floors = s.floors /\ t.store = s.store /\ t.groups = s.groups
  BY RemovePrintersIs
<1>6. DeleteOwes(s, r) => DeleteOwes(t, r2) BY <1>2, <1>5, NoValues DEF DeleteOwes
<1>7. Owes(s, r) => Owes(t, r2) BY <1>1, <1>2, <1>6, OwesIs
<1>8. QED BY <1>1, <1>2, <1>5, <1>7, OnFine

\* ... then their cached copies, ...
LEMMA DeletedCached ==
  ASSUME NEW s \in Farms, NEW r, r.cmd = "deletePrinters", r.ans # Pending,
         NEW t, t = HandlePrintersDeleted(s, r.ps)
  PROVE  t \in Farms /\ t.groups = s.groups /\ (Owes(s, r) => Still(t) /\ ~r.stale)
<1> DEFINE ps == r.ps
<1>0. t = HandlePrintersDeleted(s, ps) OBVIOUS
<1> HIDE DEF ps
<1>1. /\ t \in Farms /\ t.cache = Restrict(s.cache, DOMAIN s.cache \ ps)
      /\ t.printers = s.printers /\ t.floors = s.floors /\ t.store = s.store /\ t.groups = s.groups
  BY <1>0, DeletedIs
<1>2. DeleteOwes(s, r) => Still(t) BY <1>1 DEF DeleteOwes, Still, ps
<1>3. QED BY <1>1, <1>2, OwesIs

LEMMA DeletedFine ==
  ASSUME NEW s \in Farms, NEW r \in Deletes, r.ans # Pending,
         NEW t, t = HandlePrintersDeleted(s, r.ps), NEW r2, r2 = NextOf(r, "pull", None)
  PROVE  Fine(s, r, t, r2)
<1>1. r.op = "delete" /\ r.cmd = "deletePrinters" BY DeletesAre
<1>2. /\ r2 \in DeletePulls /\ r2.op = "delete" /\ r2.cmd = "pull"
      /\ r2.ans = Pending /\ r2.stale = r.stale
  BY NextIs DEF Deletes, DeletePulls
<1>3. Legal(r2) BY <1>2 DEF Legal
<1>4. t \in Farms /\ t.groups = s.groups /\ (Owes(s, r) => Still(t) /\ ~r.stale)
  BY <1>1, DeletedCached
<1>5. Owes(s, r) => Owes(t, r2) BY <1>2, <1>4, OwesIs DEF Still, PullOwes
<1>6. QED BY <1>1, <1>2, <1>3, <1>4, <1>5, OnFine

\* ... of all of them at once, ...
LEMMA AllDeletedFine ==
  ASSUME NEW s \in Farms, NEW r \in DeleteAlls, r.ans # Pending,
         NEW t, t = HandlePrintersDeleted(s, r.ps)
  PROVE  Fine(s, r, t, Idle)
BY DeletedCached, DeleteAllsAre, DoneFine

\* ... then the places, ...
LEMMA PullFine ==
  ASSUME NEW s \in Farms, NEW r \in DeletePulls, r.ans = Pending,
         NEW t, t = PullPrinter(s, The(r.ps)), NEW r2, r2 = AnsweredBy(r, "pulled")
  PROVE  Fine(s, r, t, r2)
<1>1. r.op = "delete" /\ r.cmd = "pull" BY DeletePullsAre
<1>2. /\ r2 \in DeletePulls /\ r2.op = "delete" /\ r2.cmd = "pull"
      /\ r2.ans = "pulled" /\ r2.stale = r.stale
  BY AnsweredIs DEF DeletePulls
<1>3. Legal(r2) BY <1>2 DEF Legal
<1>4. /\ t \in Farms
      /\ t.printers = s.printers /\ t.cache = s.cache /\ t.store = s.store /\ t.groups = s.groups
      /\ DOMAIN t.floors = DOMAIN s.floors
  BY PullIs
<1>5. PullOwes(s, r) => PullOwes(t, r2) BY <1>2, <1>4, NoValues DEF PullOwes
<1>6. QED BY <1>1, <1>2, <1>3, <1>4, <1>5, OwesIs, OnFine

LEMMA PulledFine ==
  ASSUME NEW s \in Farms, NEW r \in DeletePulls, r.ans # Pending,
         NEW r2, r2 = NextOf(r, "listFloors", None)
  PROVE  Fine(s, r, s, r2)
<1>1. r.op = "delete" /\ r.cmd = "pull" BY DeletePullsAre
<1>2. /\ r2 \in DeleteLists /\ r2.op = "delete" /\ r2.cmd = "listFloors"
      /\ r2.ans = Pending /\ r2.stale = r.stale
  BY NextIs DEF DeletePulls, DeleteLists
<1>3. Legal(r2) BY <1>2 DEF Legal
<1>4. PullOwes(s, r) => ListOwes(s, r2) BY <1>2 DEF PullOwes, ListOwes
<1>5. QED BY <1>1, <1>2, <1>3, <1>4, OwesIs, OnFine

\* ... and the store reads all floors.
LEMMA ListFine ==
  ASSUME NEW s \in Farms, NEW r, r \in DeleteLists \/ r \in Lists, r.ans = Pending,
         NEW r2, r2 = AnsweredBy(r, s.floors)
  PROVE  Fine(s, r, s, r2)
<1>1. r.op # "idle" /\ r.cmd = "listFloors" BY DeleteListsAre, ListsAre
<1>2. s.floors \in FloorRows BY FarmTables
<1>3. /\ r2.op = r.op /\ r2.cmd = "listFloors" /\ r2.ans = s.floors /\ r2.stale = r.stale
      /\ r2 \in DeleteLists \/ r2 \in Lists
  <2> DEFINE ans == s.floors
  <2>0. r2 = AnsweredBy(r, ans) /\ ans \in FloorRows BY <1>2
  <2> HIDE DEF ans
  <2>1. CASE r \in DeleteLists
    <3>1. /\ r2 \in DeleteLists /\ r2.op = "delete" /\ r2.cmd = "listFloors" /\ r2.ps = r.ps
          /\ r2.f = r.f /\ r2.arg = r.arg /\ r2.ans = ans /\ r2.stale = r.stale
      BY <2>0, <2>1, AnsweredIs DEF DeleteLists
    <3>2. QED BY <2>1, <3>1, DeleteListsAre DEF ans
  <2>2. CASE r \in Lists
    <3>1. /\ r2 \in Lists /\ r2.op = "list" /\ r2.cmd = "listFloors" /\ r2.ps = r.ps
          /\ r2.f = r.f /\ r2.arg = r.arg /\ r2.ans = ans /\ r2.stale = r.stale
      BY <2>0, <2>2, AnsweredIs DEF Lists
    <3>2. QED BY <2>2, <3>1, ListsAre DEF ans
  <2>3. QED BY <2>1, <2>2
<1>5. Legal(r2) BY <1>3 DEF Legal
<1>6. ListOwes(s, r) => ListOwes(s, r2) BY <1>3 DEF ListOwes
<1>7. QED BY <1>1, <1>3, <1>5, <1>6, OwesIs, OnFine

LEMMA ListedFine ==
  ASSUME NEW s \in Farms, NEW r, r \in DeleteLists \/ r \in Lists, r.ans # Pending,
         NEW t, t = StoreFloors(s, r.ans)
  PROVE  Fine(s, r, t, Idle)
<1>1. r.cmd = "listFloors" /\ r.ans \in FloorRows BY DeleteListsAre, ListsAre
<1>2. /\ t \in Farms
      /\ DOMAIN s.store = DOMAIN r.ans => t.store = r.ans
      /\ t.printers = s.printers /\ t.cache = s.cache /\ t.floors = s.floors /\ t.groups = s.groups
  BY <1>1, AllStoredIs
<1>3. ListOwes(s, r) => Still(t) BY <1>2 DEF ListOwes, Still
<1>4. QED BY <1>1, <1>2, <1>3, OwesIs, DoneFine

\* There is none: a default floor is inserted, ...
DefaultOf(r, f, arg) == [r EXCEPT !.cmd = "insertFloor", !.f = f, !.arg = arg, !.ans = Pending]

LEMMA NoneListedFine ==
  ASSUME NEW s \in Farms, NEW r, r \in DeleteLists \/ r \in Lists, r.ans = <<>>,
         NEW f \in FloorIds, NEW arg \in Floor, NEW r2, r2 = DefaultOf(r, f, arg)
  PROVE  Fine(s, r, s, r2)
<1>1. r.op # "idle" /\ r.cmd = "listFloors" BY DeleteListsAre, ListsAre
<1>2. /\ r2.op = r.op /\ r2.cmd = "insertFloor" /\ r2.ans = Pending /\ r2.stale = r.stale
      /\ r \in DeleteLists => r2 \in DeleteInserts
      /\ r \in Lists => r2 \in ListInserts
  BY <1>1 DEF DeleteLists, Lists, DeleteInserts, ListInserts, Request, DefaultOf
<1>3. Legal(r2) BY <1>2 DEF Legal
<1>4. <<>> # Pending BY NoValues, EmptyTable DEF FloorRows, Table
<1>5. ASSUME ListOwes(s, r) PROVE NewFloorOwes(s, r2)
  <2>1. s.floors = <<>> /\ DOMAIN s.store = DOMAIN s.floors /\ s.cache = s.printers
    BY <1>4, <1>5 DEF ListOwes
  <2>2. s.floors \in Table(FloorIds, Floor) /\ s.store \in Table(FloorIds, Floor)
    BY FarmTables DEF FloorRows
  <2>3. s.store = s.floors
    <3>1. DOMAIN s.store = {} BY <2>1
    <3>2. s.store = <<>> <=> DOMAIN s.store = {} BY <2>2, EmptyOnly
    <3>3. QED BY <2>1, <3>1, <3>2
  <2>4. QED BY <1>2, <2>1, <2>3 DEF NewFloorOwes, Changed
<1>6. QED BY <1>1, <1>2, <1>3, <1>5, OwesIs, OnFine

\* ... as a floor that a client names is, ...
LEMMA InsertFloorFine ==
  ASSUME NEW s \in Farms, NEW r, r \in DeleteInserts \/ r \in ListInserts \/ r \in FloorInserts,
         r.ans = Pending, NEW floor, floor = r.arg,
         NEW t, t = InsertFloor(s, r.f, floor.name, floor.level, floor.printers),
         NEW ans, ans = IF LevelTaken(s, floor.level) THEN None ELSE floor,
         NEW r2, r2 = AnsweredBy(r, ans)
  PROVE  Fine(s, r, t, r2)
<1>1. r.op # "idle" /\ r.cmd = "insertFloor" /\ r.f \in FloorIds
  BY DeleteInsertsAre, ListInsertsAre, FloorInsertsAre
<1>2. floor \in Floor BY DeleteInsertsAre, ListInsertsAre, FloorInsertsAre
<1>3. ans \in FoundFloor /\ ans # Pending /\ (ans # None <=> ~LevelTaken(s, floor.level))
  BY <1>2, NoValues DEF FoundFloor
<1>4. /\ r2.op = r.op /\ r2.cmd = "insertFloor" /\ r2.f = r.f /\ r2.ans = ans /\ r2.stale = r.stale
      /\ r2 \in DeleteInserts \/ r2 \in ListInserts \/ r2 \in FloorInserts
  <2>1. CASE r \in DeleteInserts
    BY <1>3, <2>1, AnsweredIs, DeleteInsertsAre DEF DeleteInserts
  <2>2. CASE r \in ListInserts BY <1>3, <2>2, AnsweredIs, ListInsertsAre DEF ListInserts
  <2>3. CASE r \in FloorInserts BY <1>3, <2>3, AnsweredIs, FloorInsertsAre DEF FloorInserts
  <2>4. QED BY <2>1, <2>2, <2>3
<1>6. Legal(r2) BY <1>4 DEF Legal
<1>7. /\ t \in Farms
      /\ t.floors = IF LevelTaken(s, floor.level) THEN s.floors ELSE Put(s.floors, r.f, floor)
      /\ t.printers = s.printers /\ t.cache = s.cache /\ t.store = s.store /\ t.groups = s.groups
  BY <1>1, <1>2, InsertFloorIs
<1>8. NewFloorOwes(s, r) => NewFloorOwes(t, r2)
  BY <1>3, <1>4, <1>7 DEF NewFloorOwes, Changed
<1>9. Owes(s, r) => Owes(t, r2) BY <1>1, <1>4, <1>8, OwesIs
<1>10. QED BY <1>1, <1>4, <1>6, <1>7, <1>9, OnFine

\* ... and the store is told.
LEMMA FloorInsertedFine ==
  ASSUME NEW s \in Farms, NEW r, r \in DeleteInserts \/ r \in ListInserts \/ r \in FloorInserts,
         r.ans # Pending,
         NEW t, t = IF r.ans = None THEN s ELSE StoreFloor(s, r.f, r.ans)
  PROVE  Fine(s, r, t, Idle)
<1>1. r.cmd = "insertFloor" /\ r.f \in FloorIds /\ r.ans \in Floor \cup {None, Pending}
  BY DeleteInsertsAre, ListInsertsAre, FloorInsertsAre
<1>2. CASE r.ans = None
  <2>1. NewFloorOwes(s, r) => Still(s) BY <1>2 DEF NewFloorOwes, Changed, Still
  <2>2. QED BY <1>1, <1>2, <2>1, OwesIs, DoneFine
<1>3. CASE r.ans # None
  <2>1. /\ t \in Farms /\ t.store = Put(s.store, r.f, r.ans)
        /\ t.printers = s.printers /\ t.cache = s.cache /\ t.floors = s.floors /\ t.groups = s.groups
    BY <1>1, <1>3, StoredIs
  <2>2. NewFloorOwes(s, r) => Still(t) BY <1>3, <2>1 DEF NewFloorOwes, Changed, Still
  <2>3. QED BY <1>1, <2>1, <2>2, OwesIs, DoneFine
<1>4. QED BY <1>2, <1>3

\* The floor that a request names is read, ...
LEMMA FindFloorFine ==
  ASSUME NEW s \in Farms, NEW r,
         r \in DeleteFloorFinds \/ r \in TitleFinds \/ r \in PlaceFinds \/ r \in RemoveFinds,
         r.ans = Pending, NEW ans, ans = FindFloor(s, r.f), NEW r2, r2 = AnsweredBy(r, ans)
  PROVE  Fine(s, r, s, r2)
<1>1. ans \in FoundFloor BY FindIs DEF FoundFloor
<1>2. r.op # "idle" /\ r.cmd = "findFloor"
  BY DeleteFloorFindsAre, TitleFindsAre, PlaceFindsAre, RemoveFindsAre
<1>3. /\ r2.op = r.op /\ r2.cmd = "findFloor" /\ r2.f = r.f /\ r2.ans = ans /\ r2.stale = r.stale
      /\ r2 \in DeleteFloorFinds \/ r2 \in TitleFinds \/ r2 \in PlaceFinds \/ r2 \in RemoveFinds
  <2>1. CASE r \in DeleteFloorFinds
    <3>1. /\ r2 \in DeleteFloorFinds /\ r2.op = "deleteFloor" /\ r2.cmd = "findFloor" /\ r2.ps = r.ps
          /\ r2.f = r.f /\ r2.arg = r.arg /\ r2.ans = ans /\ r2.stale = r.stale
      BY <1>1, <2>1, AnsweredIs DEF DeleteFloorFinds
    <3>2. QED BY <2>1, <3>1, DeleteFloorFindsAre
  <2>2. CASE r \in TitleFinds BY <1>1, <2>2, AnsweredIs, TitleFindsAre DEF TitleFinds
  <2>3. CASE r \in PlaceFinds BY <1>1, <2>3, AnsweredIs, PlaceFindsAre DEF PlaceFinds
  <2>4. CASE r \in RemoveFinds BY <1>1, <2>4, AnsweredIs, RemoveFindsAre DEF RemoveFinds
  <2>5. QED BY <2>1, <2>2, <2>3, <2>4
<1>4. Legal(r2) BY <1>3 DEF Legal
<1>5. FindFloorOwes(s, r) => FindFloorOwes(s, r2) BY <1>3 DEF FindFloorOwes
<1>6. QED BY <1>2, <1>3, <1>4, <1>5, OwesIs, OnFine

\* ... to be deleted, ...
LEMMA DropNextFine ==
  ASSUME NEW s \in Farms, NEW r \in DeleteFloorFinds, r.ans # Pending, r.ans # None,
         NEW r2, r2 = NextOf(r, "deleteFloor", None)
  PROVE  Fine(s, r, s, r2)
<1>1. r.op = "deleteFloor" /\ r.cmd = "findFloor" BY DeleteFloorFindsAre
<1>2. /\ r2 \in DeleteFloors /\ r2.op = "deleteFloor" /\ r2.cmd = "deleteFloor"
      /\ r2.f = r.f /\ r2.ans = Pending /\ r2.stale = r.stale
  BY NextIs DEF DeleteFloorFinds, DeleteFloors
<1>3. Legal(r2) BY <1>2 DEF Legal
<1>4. FindFloorOwes(s, r) => DeleteFloorOwes(s, r2)
  BY <1>2 DEF FindFloorOwes, DeleteFloorOwes
<1>5. QED BY <1>1, <1>2, <1>3, <1>4, OwesIs, OnFine

LEMMA DeleteFloorFine ==
  ASSUME NEW s \in Farms, NEW r \in DeleteFloors, r.ans = Pending,
         NEW f, f = r.f, NEW t, t = DeleteFloor(s, f), NEW r2, r2 = AnsweredBy(r, "deleted")
  PROVE  Fine(s, r, t, r2)
<1>1. r.op = "deleteFloor" /\ r.cmd = "deleteFloor" BY DeleteFloorsAre
<1>2. /\ r2 \in DeleteFloors /\ r2.op = "deleteFloor" /\ r2.cmd = "deleteFloor"
      /\ r2.f = r.f /\ r2.ans = "deleted" /\ r2.stale = r.stale
  BY AnsweredIs DEF DeleteFloors
<1>3. Legal(r2) BY <1>2 DEF Legal
<1>4. /\ t \in Farms /\ t.floors = Restrict(s.floors, DOMAIN s.floors \ {f})
      /\ t.printers = s.printers /\ t.cache = s.cache /\ t.store = s.store /\ t.groups = s.groups
  BY DeleteFloorIs
<1>5. DeleteFloorOwes(s, r) => DeleteFloorOwes(t, r2)
  BY <1>2, <1>4, NoValues DEF DeleteFloorOwes
<1>6. QED BY <1>1, <1>2, <1>3, <1>4, <1>5, OwesIs, OnFine

LEMMA DroppedFine ==
  ASSUME NEW s \in Farms, NEW r \in DeleteFloors, r.ans # Pending,
         NEW f, f = r.f, NEW t, t = DropFloor(s, f)
  PROVE  Fine(s, r, t, Idle)
<1>1. r.cmd = "deleteFloor" BY DeleteFloorsAre
<1>2. /\ t \in Farms /\ t.store = Restrict(s.store, DOMAIN s.store \ {f})
      /\ t.printers = s.printers /\ t.cache = s.cache /\ t.floors = s.floors /\ t.groups = s.groups
  BY DropFloorIs
<1>3. DeleteFloorOwes(s, r) => Still(t) BY <1>2 DEF DeleteFloorOwes, Still
<1>4. QED BY <1>1, <1>2, <1>3, OwesIs, DoneFine

\* ... or saved with another name or level, ...
LEMMA Retitled ==
  ASSUME NEW floor \in Floor, NEW update \in Titles
  PROVE  Assign(update, floor) \in Floor /\ Assign(update, floor).printers = floor.printers
<1>1. CASE update \in [name: FloorNames] BY <1>1 DEF Assign, Floor
<1>2. CASE update \in [level: Levels] BY <1>2 DEF Assign, Floor
<1>3. QED BY <1>1, <1>2 DEF Titles

LEMMA SaveFloorNextFine ==
  ASSUME NEW s \in Farms, NEW r \in TitleFinds, r.ans # Pending, r.ans # None,
         NEW arg, arg = [r.arg EXCEPT !.doc = Assign(r.arg.update, r.ans)],
         NEW r2, r2 = NextOf(r, "saveFloor", arg)
  PROVE  Fine(s, r, s, r2)
<1>1. /\ r.op = "updateFloor" /\ r.cmd = "findFloor" /\ r.f \in FloorIds
      /\ r.arg \in TitleFindArgs /\ r.arg.update \in Titles /\ r.ans \in Floor
  BY TitleFindsAre
<1>2. Assign(r.arg.update, r.ans) \in Floor /\ Assign(r.arg.update, r.ans).printers = r.ans.printers
  BY <1>1, Retitled
<1>3. arg \in TitleSaveArgs /\ arg.doc = Assign(r.arg.update, r.ans)
  BY <1>1, <1>2 DEF TitleFindArgs, TitleSaveArgs
<1>4. /\ r2 \in TitleSaves /\ r2.op = "updateFloor" /\ r2.cmd = "saveFloor" /\ r2.f = r.f
      /\ r2.arg = arg /\ r2.ans = Pending /\ r2.stale = r.stale
  BY <1>3, NextIs DEF TitleFinds, TitleSaves
<1>5. Legal(r2) BY <1>4 DEF Legal
<1>6. ASSUME FindFloorOwes(s, r) PROVE SaveFloorOwes(s, r2)
  <2>1. s.store = s.floors /\ s.cache = s.printers /\ r.f \in DOMAIN s.floors /\ s.floors[r.f] = r.ans
    BY <1>1, <1>6 DEF FindFloorOwes, FindFloor
  <2>2. r2.arg.doc.printers = s.floors[r2.f].printers /\ r2.f \in DOMAIN s.floors
    BY <1>2, <1>3, <1>4, <2>1
  <2>3. r2.ans = Pending /\ r2.cmd # "savePlaces" BY <1>4
  <2>4. QED BY <2>1, <2>2, <2>3 DEF SaveFloorOwes, Changed
<1>7. QED BY <1>1, <1>4, <1>5, <1>6, OwesIs, OnFine

LEMMA SaveFloorFine ==
  ASSUME NEW s \in Farms, NEW r \in TitleSaves, r.ans = Pending,
         NEW f, f = r.f, NEW doc, doc = r.arg.doc, NEW refused \in BOOLEAN, f \notin DOMAIN s.floors => refused,
         NEW t, t = IF refused THEN s ELSE SaveFloor(s, f, doc),
         NEW ans, ans = IF refused THEN None ELSE "saved", NEW r2, r2 = AnsweredBy(r, ans)
  PROVE  Fine(s, r, t, r2)
<1>1. r.op = "updateFloor" /\ r.cmd = "saveFloor" /\ f \in FloorIds /\ doc \in Floor
  BY TitleSavesAre
<1>2. ans \in Saved BY DEF Saved
<1>3. /\ r2 \in TitleSaves /\ r2.op = "updateFloor" /\ r2.cmd = "saveFloor" /\ r2.f = r.f
      /\ r2.arg = r.arg /\ r2.ans = ans /\ r2.stale = r.stale
  BY <1>2, AnsweredIs DEF TitleSaves
<1>4. Legal(r2) BY <1>3 DEF Legal
<1>5. CASE refused
  <2>1. SaveFloorOwes(s, r) => SaveFloorOwes(s, r2)
    BY <1>1, <1>3, <1>5, NoValues DEF SaveFloorOwes, Changed
  <2>2. QED BY <1>1, <1>3, <1>4, <1>5, <2>1, OwesIs, OnFine
<1>6. CASE ~refused
  <2>1. f \in DOMAIN s.floors /\ t = SaveFloor(s, f, doc) BY <1>6
  <2>2. /\ t \in Farms
        /\ doc.printers = s.floors[f].printers => t.floors = Put(s.floors, f, doc)
        /\ t.printers = s.printers /\ t.cache = s.cache /\ t.store = s.store /\ t.groups = s.groups
    BY <1>1, <2>1, SaveFloorIs
  <2>3. r2.ans = "saved" /\ Changed(r2) /\ r2.ans # Pending
    BY <1>3, <1>6, NoValues DEF Changed
  <2>4. ~Changed(r) BY DEF Changed
  <2>5. SaveFloorOwes(s, r) => SaveFloorOwes(t, r2)
    BY <1>1, <1>3, <2>1, <2>2, <2>3, <2>4 DEF SaveFloorOwes
  <2>6. QED BY <1>1, <1>3, <1>4, <2>2, <2>5, OwesIs, OnFine
<1>7. QED BY <1>5, <1>6

\* ... and the store is told.
LEMMA FloorSavedFine ==
  ASSUME NEW s \in Farms, NEW r, r \in TitleSaves \/ r \in PlaceSaves \/ r \in RemoveSaves,
         r.ans # Pending, NEW f, f = r.f, NEW doc, doc = r.arg.doc,
         NEW t, t = IF r.ans = None THEN s ELSE StoreFloor(s, f, doc)
  PROVE  Fine(s, r, t, Idle)
<1>1. r.cmd \in {"saveFloor", "savePlaces"} /\ f \in FloorIds /\ doc \in Floor
  BY TitleSavesAre, PlaceSavesAre, RemoveSavesAre
<1>2. CASE r.ans = None
  <2>1. SaveFloorOwes(s, r) => Still(s) BY <1>2 DEF SaveFloorOwes, Changed, Still
  <2>2. QED BY <1>1, <1>2, <2>1, OwesIs, DoneFine
<1>3. CASE r.ans # None
  <2>1. t = StoreFloor(s, f, doc) BY <1>3
  <2>2. /\ t \in Farms /\ t.store = Put(s.store, f, doc)
        /\ t.printers = s.printers /\ t.cache = s.cache /\ t.floors = s.floors /\ t.groups = s.groups
    BY <1>1, <2>1, StoredIs
  <2>3. SaveFloorOwes(s, r) => Still(t) BY <1>3, <2>2 DEF SaveFloorOwes, Changed, Still
  <2>4. QED BY <1>1, <2>2, <2>3, OwesIs, DoneFine
<1>4. QED BY <1>2, <1>3

\* The arrays of places that a request may make.
LEMMA PlacedIs ==
  ASSUME NEW places \in SUBSET Position, NEW p \in PrinterIds, NEW cell \in Cells,
         NEW new \in Placed(places, p, cell)
  PROVE  new \in SUBSET Position
BY DEF Placed, Position

LEMMA RemovedIs ==
  ASSUME NEW places \in SUBSET Position, NEW p, NEW new \in Removed(places, p)
  PROVE  new \in SUBSET Position
BY DEF Removed

\* What a request is going to save.
ToSave(r, places) == [r.arg EXCEPT !.read = r.ans, !.doc = [r.ans EXCEPT !.printers = places]]

\* A place is asked for, or given up: the array is going to be saved, ...
LEMMA SavePlacesNextFine ==
  ASSUME NEW s \in Farms, NEW r, r \in PlaceFinds \/ r \in RemoveFinds, r.ans # Pending, r.ans # None,
         NEW places \in SUBSET Position,
         NEW arg, arg = ToSave(r, places), NEW r2, r2 = NextOf(r, "savePlaces", arg)
  PROVE  /\ Fine(s, r, s, r2)
         /\ r \in PlaceFinds => r2 \in PlaceSaves
         /\ r \in RemoveFinds => r2 \in RemoveSaves
         /\ r2.ans = Pending /\ r2.f = r.f /\ r2.ps = r.ps /\ r2.stale = r.stale
         /\ r2.arg.read = r.ans /\ r2.arg.cell = r.arg.cell /\ r2.arg.doc.printers = places
<1>1. r.op # "idle" /\ r.cmd = "findFloor" /\ r.f \in FloorIds /\ r.ans \in Floor
  BY PlaceFindsAre, RemoveFindsAre
<1> DEFINE doc == [r.ans EXCEPT !.printers = places]
<1>2. doc \in Floor /\ doc.name = r.ans.name /\ doc.level = r.ans.level /\ doc.printers = places
  BY <1>1, FloorWith
<1>3. arg = [r.arg EXCEPT !.read = r.ans, !.doc = doc] BY DEF ToSave
<1> HIDE DEF doc
<1>4. /\ arg.doc = doc /\ arg.read = r.ans /\ arg.cell = r.arg.cell
      /\ r \in PlaceFinds => arg \in PlaceSaveArgs
      /\ r \in RemoveFinds => arg \in RemoveSaveArgs
  <2>1. r.arg \in PlaceFindArgs \/ r.arg \in RemoveFindArgs BY PlaceFindsAre, RemoveFindsAre
  <2>2. arg.doc = doc /\ arg.read = r.ans /\ arg.cell = r.arg.cell
    BY <1>3, <2>1 DEF PlaceFindArgs, RemoveFindArgs
  <2>3. r \in PlaceFinds => arg \in PlaceSaveArgs
    BY <1>1, <1>2, <1>3, PlaceFindsAre DEF PlaceFindArgs, PlaceSaveArgs
  <2>4. r \in RemoveFinds => arg \in RemoveSaveArgs
    BY <1>1, <1>2, <1>3, RemoveFindsAre DEF RemoveFindArgs, RemoveSaveArgs
  <2>5. QED BY <2>2, <2>3, <2>4
<1>5. /\ r2.op = r.op /\ r2.cmd = "savePlaces" /\ r2.f = r.f /\ r2.ps = r.ps
      /\ r2.arg = arg /\ r2.ans = Pending /\ r2.stale = r.stale
      /\ r \in PlaceFinds => r2 \in PlaceSaves
      /\ r \in RemoveFinds => r2 \in RemoveSaves
  <2>1. CASE r \in PlaceFinds
    <3>1. /\ r2 \in PlaceSaves /\ r2.op = "place" /\ r2.cmd = "savePlaces" /\ r2.ps = r.ps /\ r2.f = r.f
          /\ r2.arg = arg /\ r2.ans = Pending /\ r2.stale = r.stale
      BY <1>4, <2>1, NextIs DEF PlaceFinds, PlaceSaves
    <3>2. r.op = "place" /\ ~(r \in RemoveFinds) BY <2>1, PlaceFindsAre, RemoveFindsAre
    <3>3. QED BY <3>1, <3>2
  <2>2. CASE r \in RemoveFinds
    <3>1. /\ r2 \in RemoveSaves /\ r2.op = "remove" /\ r2.cmd = "savePlaces" /\ r2.ps = r.ps /\ r2.f = r.f
          /\ r2.arg = arg /\ r2.ans = Pending /\ r2.stale = r.stale
      BY <1>4, <2>2, NextIs DEF RemoveFinds, RemoveSaves
    <3>2. r.op = "remove" /\ ~(r \in PlaceFinds) BY <2>2, PlaceFindsAre, RemoveFindsAre
    <3>3. QED BY <3>1, <3>2
  <2>3. QED BY <2>1, <2>2
<1>6. Legal(r2) BY <1>5 DEF Legal
<1>7. ASSUME FindFloorOwes(s, r) PROVE SaveFloorOwes(s, r2)
  <2>1. s.store = s.floors /\ s.cache = s.printers /\ r.f \in DOMAIN s.floors /\ s.floors[r.f] = r.ans
    BY <1>1, <1>7 DEF FindFloorOwes, FindFloor
  <2>2. ~Changed(r2) /\ r2.cmd # "saveFloor" /\ r2.f = r.f /\ r2.arg.doc = doc
    BY <1>4, <1>5 DEF Changed
  <2>3. doc.name = s.floors[r.f].name /\ doc.level = s.floors[r.f].level BY <1>2, <2>1
  <2>4. QED BY <2>1, <2>2, <2>3 DEF SaveFloorOwes
<1>8. Fine(s, r, s, r2) BY <1>1, <1>5, <1>6, <1>7, OwesIs, OnFine
<1>9. QED BY <1>2, <1>4, <1>5, <1>8

\* ... or left as it is, and the store is told; ...
LEMMA NotPlacedFine ==
  ASSUME NEW s \in Farms, NEW r \in RemoveFinds, r.ans # Pending, r.ans # None,
         NEW f, f = r.f, NEW doc, doc = r.ans, NEW t, t = StoreFloor(s, f, doc)
  PROVE  Fine(s, r, t, Idle)
<1>1. r.cmd = "findFloor" /\ f \in FloorIds /\ doc \in Floor BY RemoveFindsAre
<1>2. /\ t \in Farms /\ t.store = Put(s.store, f, doc)
      /\ t.printers = s.printers /\ t.cache = s.cache /\ t.floors = s.floors /\ t.groups = s.groups
  BY <1>1, StoredIs
<1>3. ASSUME FindFloorOwes(s, r) PROVE Still(t)
  <2>1. s.store = s.floors /\ s.cache = s.printers /\ f \in DOMAIN s.floors /\ s.floors[f] = doc
    BY <1>1, <1>3, NoValues DEF FindFloorOwes, FindFloor
  <2>2. s.floors \in Table(FloorIds, Floor) BY FarmTables DEF FloorRows
  <2>3. s.floors = [x \in DOMAIN s.floors |-> s.floors[x]] BY <2>2, TableIs
  <2>4. Put(s.store, f, doc) = s.floors BY <2>1, <2>3 DEF Put
  <2>5. QED BY <1>2, <2>1, <2>4 DEF Still
<1>4. QED BY <1>1, <1>2, <1>3, OwesIs, DoneFine

\* ... it is saved, ...
LEMMA SavePlacesFine ==
  ASSUME NEW s \in Farms, NEW r, r \in PlaceSaves \/ r \in RemoveSaves, r.ans = Pending,
         NEW f, f = r.f, f \in DOMAIN s.floors, NEW places \in SUBSET Position,
         ~r.stale => places = r.arg.doc.printers,
         NEW t, t = SavePlaces(s, f, places), NEW r2, r2 = AnsweredBy(r, "saved")
  PROVE  Fine(s, r, t, r2) /\ r2.stale = r.stale
<1>1. r.op # "idle" /\ r.cmd = "savePlaces" /\ r.arg.doc \in Floor
  BY PlaceSavesAre, RemoveSavesAre
<1>2. /\ r2.op = r.op /\ r2.cmd = "savePlaces" /\ r2.f = r.f /\ r2.arg = r.arg
      /\ r2.ans = "saved" /\ r2.stale = r.stale
      /\ r2 \in PlaceSaves \/ r2 \in RemoveSaves
  <2>1. "saved" \in Saved BY DEF Saved
  <2>2. CASE r \in PlaceSaves
    <3>1. /\ r2 \in PlaceSaves /\ r2.op = "place" /\ r2.cmd = "savePlaces" /\ r2.ps = r.ps /\ r2.f = r.f
          /\ r2.arg = r.arg /\ r2.ans = "saved" /\ r2.stale = r.stale
      BY <2>1, <2>2, AnsweredIs DEF PlaceSaves
    <3>2. QED BY <2>2, <3>1, PlaceSavesAre
  <2>3. CASE r \in RemoveSaves
    <3>1. /\ r2 \in RemoveSaves /\ r2.op = "remove" /\ r2.cmd = "savePlaces" /\ r2.ps = r.ps /\ r2.f = r.f
          /\ r2.arg = r.arg /\ r2.ans = "saved" /\ r2.stale = r.stale
      BY <2>1, <2>3, AnsweredIs DEF RemoveSaves
    <3>2. QED BY <2>3, <3>1, RemoveSavesAre
  <2>4. QED BY <2>2, <2>3
<1>3. Legal(r2) BY <1>2 DEF Legal
<1>4. /\ t \in Farms
      /\ t.printers = s.printers /\ t.cache = s.cache /\ t.store = s.store /\ t.groups = s.groups
  BY SavePlacesIs
<1>5. ASSUME SaveFloorOwes(s, r), ~r.stale PROVE SaveFloorOwes(t, r2)
  <2> DEFINE doc == r.arg.doc
  <2>1. /\ doc.name = s.floors[f].name /\ doc.level = s.floors[f].level /\ doc.printers = places
        /\ s.cache = s.printers /\ s.floors = s.store /\ doc \in Floor
    BY <1>1, <1>5 DEF SaveFloorOwes, Changed
  <2>2. r2.arg.doc = doc BY <1>2
  <2> HIDE DEF doc
  <2>3. t.floors = Put(s.floors, f, doc) BY <2>1, SavePlacesIs
  <2>4. Changed(r2) /\ r2.ans # Pending BY <1>2, NoValues DEF Changed
  <2>5. QED BY <1>2, <1>4, <2>1, <2>2, <2>3, <2>4 DEF SaveFloorOwes
<1>6. QED BY <1>1, <1>2, <1>3, <1>4, <1>5, OwesIs, OnFine

\* ... or, when somebody else changed it, refused.
LEMMA RefusedFine ==
  ASSUME NEW s \in Farms, NEW r, r \in PlaceSaves \/ r \in RemoveSaves, r.ans = Pending,
         r.f \notin DOMAIN s.floors \/ r.stale, NEW r2, r2 = AnsweredBy(r, None)
  PROVE  Fine(s, r, s, r2)
<1>1. r.op # "idle" /\ r.cmd = "savePlaces" BY PlaceSavesAre, RemoveSavesAre
<1>2. r2.op = r.op /\ (r2 \in PlaceSaves \/ r2 \in RemoveSaves)
  <2>1. None \in Saved BY DEF Saved
  <2>2. CASE r \in PlaceSaves
    <3>1. r2 \in PlaceSaves /\ r2.op = "place" BY <2>1, <2>2, AnsweredIs DEF PlaceSaves
    <3>2. QED BY <2>2, <3>1, PlaceSavesAre
  <2>3. CASE r \in RemoveSaves
    <3>1. r2 \in RemoveSaves /\ r2.op = "remove" BY <2>1, <2>3, AnsweredIs DEF RemoveSaves
    <3>2. QED BY <2>3, <3>1, RemoveSavesAre
  <2>4. QED BY <2>2, <2>3
<1>3. Legal(r2) BY <1>2 DEF Legal
<1>4. ~Owes(s, r) BY <1>1, OwesIs DEF SaveFloorOwes
<1>5. QED BY <1>1, <1>2, <1>3, <1>4, OnFine

---------------------------------------------------------------------------
(* One step of a request                                                   *)

\* The request of slot c becomes r2 and the farm s; the others are at most marked.
Stepped(c, s, r2) ==
  /\ farm' = s
  /\ req' = [d \in Slots |-> req'[d]] /\ req'[c] = r2
  /\ \A d \in Slots : d # c => Legal(req'[d]) /\ (req[d] = Idle => req'[d] = Idle)
  /\ UNCHANGED <<mode, disturbed, placed>>

Becomes(c, r2) == req' = [req EXCEPT ![c] = r2]

LEMMA OnlyOne ==
  ASSUME MongoTypes, mode.db = "mongo", NEW c \in Slots, NEW s, NEW r2,
         farm' = s, Becomes(c, r2), UNCHANGED <<mode, disturbed, placed>>
  PROVE  /\ Stepped(c, s, r2) /\ req'[c] = r2
         /\ \A d \in Slots : d # c => req'[d] = req[d]
<1>1. req = [d \in Slots |-> req[d]] /\ \A d \in Slots : Legal(req[d]) BY DEF MongoTypes
<1>2. /\ req' = [d \in Slots |-> req'[d]] /\ req'[c] = r2
      /\ \A d \in Slots : d # c => req'[d] = req[d]
  BY <1>1 DEF Becomes
<1>3. QED BY <1>1, <1>2 DEF Stepped

\* A command is executed, ...
LEMMA ServeSteps ==
  ASSUME MongoTypes, mode.db = "mongo", NEW c \in Slots, NEW cmd, NEW s, NEW ans, Serve(c, cmd, s, ans)
  PROVE  /\ Stepped(c, s, AnsweredBy(req[c], ans)) /\ req'[c] = AnsweredBy(req[c], ans)
         /\ \A d \in Slots : d # c => req'[d] = req[d]
         /\ farm' = s /\ UNCHANGED <<mode, disturbed, placed>>
         /\ req[c].cmd = cmd /\ req[c].ans = Pending /\ req[c] # Idle /\ Legal(req[c])
<1>1. req = [d \in Slots |-> req[d]] /\ Legal(req[c]) BY DEF MongoTypes
<1>2. /\ farm' = s /\ UNCHANGED <<mode, disturbed, placed>>
      /\ req[c].cmd = cmd /\ req[c].ans = Pending
      /\ req' = [req EXCEPT ![c].ans = ans]
  BY DEF Serve
<1>3. Becomes(c, AnsweredBy(req[c], ans)) BY <1>1, <1>2 DEF AnsweredBy, Becomes
<1>4. /\ Stepped(c, s, AnsweredBy(req[c], ans)) /\ req'[c] = AnsweredBy(req[c], ans)
      /\ \A d \in Slots : d # c => req'[d] = req[d]
  BY <1>2, <1>3, OnlyOne
<1>5. req[c] # Idle BY <1>2, IdleIs
<1>6. QED BY <1>1, <1>2, <1>4, <1>5

\* ... and an answer leads to the next, ...
LEMMA AwaitSteps ==
  ASSUME MongoTypes, mode.db = "mongo", NEW c \in Slots, NEW s, NEW cmd, NEW arg, Await(c, s, cmd, arg)
  PROVE  /\ Stepped(c, s, NextOf(req[c], cmd, arg)) /\ req'[c] = NextOf(req[c], cmd, arg)
         /\ \A d \in Slots : d # c => req'[d] = req[d]
         /\ farm' = s /\ UNCHANGED <<mode, disturbed, placed>>
<1>1. req = [d \in Slots |-> req[d]] BY DEF MongoTypes
<1>2. /\ farm' = s /\ UNCHANGED <<mode, disturbed, placed>>
      /\ req' = [req EXCEPT ![c].cmd = cmd, ![c].arg = arg, ![c].ans = Pending]
  BY DEF Await
<1>3. Becomes(c, NextOf(req[c], cmd, arg)) BY <1>1, <1>2 DEF NextOf, Becomes
<1>4. QED BY <1>2, <1>3, OnlyOne

\* ... or ends the request.
LEMMA FinishSteps ==
  ASSUME MongoTypes, mode.db = "mongo", NEW c \in Slots, NEW s, Finish(c, s)
  PROVE  /\ Stepped(c, s, Idle) /\ req'[c] = Idle
         /\ \A d \in Slots : d # c => req'[d] = req[d]
         /\ farm' = s /\ UNCHANGED <<mode, disturbed, placed>>
BY OnlyOne DEF Finish, Becomes

\* An answered request.
LEMMA AnsweredLegal ==
  ASSUME MongoTypes, mode.db = "mongo", NEW c \in Slots, NEW op, NEW cmd, Answered(c, op, cmd)
  PROVE  req[c].op = op /\ req[c].cmd = cmd /\ req[c].ans # Pending /\ Legal(req[c])
BY DEF Answered, MongoTypes

\* The types of what a step leaves.
LEMMA StepTypes ==
  ASSUME MongoTypes, mode.db = "mongo", NEW c \in Slots, NEW s \in Farms, s.groups = farm.groups,
         NEW r2, Legal(r2), Stepped(c, s, r2)
  PROVE  MongoTypes'
BY DEF MongoTypes, Stepped

\* A step of a request that is no patch.
LEMMA AloneSteps ==
  ASSUME MongoTypes, MongoCaches, mode.db = "mongo", NEW c \in Slots,
         req[c] # Idle, req[c].op # "patch", NEW s, NEW r2, Fine(farm, req[c], s, r2), Stepped(c, s, r2)
  PROVE  MongoTypes' /\ MongoCaches'
<1>1. s \in Farms /\ s.groups = farm.groups /\ Legal(r2) /\ (r2 # Idle => r2.op = req[c].op)
  BY DEF Fine
<1>2. MongoTypes' BY <1>1, StepTypes
<1>3. ASSUME ~disturbed'
      PROVE  (Patching \/ \E d \in Slots : Alone(d) /\ Owes(farm, req[d]))'
  <2>1. /\ farm' = s /\ req'[c] = r2 /\ ~disturbed
        /\ \A d \in Slots : d # c /\ req[d] = Idle => req'[d] = Idle
    BY <1>3 DEF Stepped
  <2>2. ~Patching BY DEF Patching
  <2>3. PICK d \in Slots : Alone(d) /\ Owes(farm, req[d]) BY <2>1, <2>2 DEF MongoCaches
  <2>4. d = c BY <2>3 DEF Alone
  <2>5. IF r2 = Idle THEN Still(s) ELSE Owes(s, r2) BY <2>3, <2>4 DEF Fine
  <2>6. \A e \in Slots : e # c => req'[e] = Idle BY <2>1, <2>3, <2>4 DEF Alone
  <2>7. CASE r2 = Idle
    <3>1. \A e \in Slots : req'[e] = Idle BY <2>1, <2>6, <2>7
    <3>2. farm'.cache = farm'.printers /\ farm'.store = farm'.floors
      BY <2>1, <2>5, <2>7 DEF Still
    <3>3. \A e \in Slots : ~Told(e)' BY <3>1, IdleIs DEF Told
    <3>4. Patching' BY <3>1, <3>2, <3>3 DEF Patching
    <3>5. QED BY <3>4
  <2>8. CASE r2 # Idle
    <3>1. Alone(c)' BY <1>1, <2>1, <2>6, <2>8 DEF Alone
    <3>2. Owes(farm, req[c])' BY <2>1, <2>5, <2>8
    <3>3. QED BY <3>1, <3>2
  <2>9. QED BY <2>7, <2>8
<1>4. MongoCaches' BY <1>3 DEF MongoCaches
<1>5. QED BY <1>2, <1>4

\* The commands on printers that are no patches.
LEMMA ServePrinters ==
  ASSUME MongoTypes, MongoCaches, mode.db = "mongo", NEW c \in Slots, req[c].op # "patch",
         \/ ServeInsertPrinter(c) \/ ServeFindPrinter(c) \/ ServeSavePrinter(c)
         \/ ServeDeletePrinters(c) \/ ServePull(c)
  PROVE  MongoTypes' /\ MongoCaches'
<1> DEFINE r == req[c]
<1>1. farm \in Farms BY DEF MongoTypes
<1>2. ASSUME NEW s, NEW r2, Fine(farm, r, s, r2), Stepped(c, s, r2), r # Idle
      PROVE  MongoTypes' /\ MongoCaches'
  BY <1>2, AloneSteps
<1>3. CASE ServeInsertPrinter(c)
  <2>1. PICK p \in r.arg.todo : Serve(c, "insertPrinter", OrmInsert(farm, p, r.arg.conn), p)
    BY <1>3 DEF ServeInsertPrinter
  <2> DEFINE s == OrmInsert(farm, p, r.arg.conn)
             r2 == AnsweredBy(r, p)
  <2>2. r.cmd = "insertPrinter" /\ r.ans = Pending /\ r # Idle /\ Legal(r) /\ Stepped(c, s, r2)
    BY <2>1, ServeSteps
  <2>3. r \in Creates BY <2>2, AwaitedIs
  <2>4. Fine(farm, r, s, r2) BY <1>1, <2>2, <2>3, InsertFine
  <2>5. QED BY <1>2, <2>2, <2>4
<1>4. CASE ServeFindPrinter(c)
  <2> DEFINE ans == FindPrinter(farm, The(r.ps))
             r2 == AnsweredBy(r, ans)
  <2>1. r.cmd = "findPrinter" /\ r.ans = Pending /\ r # Idle /\ Legal(r) /\ Stepped(c, farm, r2)
    BY <1>4, ServeSteps DEF ServeFindPrinter
  <2>2. r \in UpdateFinds BY <2>1, AwaitedIs, PatchFindsAre
  <2>3. Fine(farm, r, farm, r2) BY <1>1, <2>1, <2>2, FindPrinterFine
  <2>4. QED BY <1>2, <2>1, <2>3
<1>5. CASE ServeSavePrinter(c)
  <2> DEFINE p == The(r.ps)
             s == SavePrinter(farm, p, r.arg.doc, r.arg.read)
             ans == IF p \in DOMAIN farm.printers THEN "saved" ELSE None
             r2 == AnsweredBy(r, ans)
  <2>1. Serve(c, "savePrinter", s, ans) BY <1>5 DEF ServeSavePrinter
  <2>2. r.cmd = "savePrinter" /\ r.ans = Pending /\ r # Idle /\ Legal(r) /\ Stepped(c, s, r2)
    BY <2>1, ServeSteps
  <2>3. r \in UpdateSaves BY <2>2, AwaitedIs
  <2>4. Fine(farm, r, s, r2) BY <1>1, <2>2, <2>3, SavePrinterFine
  <2>5. QED BY <1>2, <2>2, <2>4
<1>6. CASE ServeDeletePrinters(c)
  <2> DEFINE ps == r.ps
             s == RemovePrinters(farm, ps)
             r2 == AnsweredBy(r, "deleted")
  <2>1. r.cmd = "deletePrinters" /\ r.ans = Pending /\ r # Idle /\ Legal(r) /\ Stepped(c, s, r2)
    BY <1>6, ServeSteps DEF ServeDeletePrinters
  <2>2. r \in Deletes \/ r \in DeleteAlls BY <2>1, AwaitedIs
  <2>3. Fine(farm, r, s, r2) BY <1>1, <2>1, <2>2, DeleteFine
  <2>4. QED BY <1>2, <2>1, <2>3
<1>7. CASE ServePull(c)
  <2> DEFINE s == PullPrinter(farm, The(r.ps))
             r2 == AnsweredBy(r, "pulled")
  <2>1. r.cmd = "pull" /\ r.ans = Pending /\ r # Idle /\ Legal(r) /\ Stepped(c, s, r2)
    BY <1>7, ServeSteps DEF ServePull
  <2>2. r \in DeletePulls BY <2>1, AwaitedIs
  <2>3. Fine(farm, r, s, r2) BY <1>1, <2>1, <2>2, PullFine
  <2>4. QED BY <1>2, <2>1, <2>3
<1>8. QED BY <1>3, <1>4, <1>5, <1>6, <1>7

\* The commands on floors, but the one that other requests notice.
LEMMA ServeFloors ==
  ASSUME MongoTypes, MongoCaches, mode.db = "mongo", NEW c \in Slots,
         \/ ServeFindFloor(c) \/ ServeListFloors(c) \/ ServeInsertFloor(c)
         \/ ServeDeleteFloor(c) \/ ServeSaveFloor(c)
  PROVE  MongoTypes' /\ MongoCaches'
<1> DEFINE r == req[c]
<1>1. farm \in Farms BY DEF MongoTypes
<1>2. ASSUME NEW s, NEW r2, Fine(farm, r, s, r2), Stepped(c, s, r2), r # Idle, r.op # "patch"
      PROVE  MongoTypes' /\ MongoCaches'
  BY <1>2, AloneSteps
<1>3. CASE ServeFindFloor(c)
  <2> DEFINE ans == FindFloor(farm, r.f)
             r2 == AnsweredBy(r, ans)
  <2>1. r.cmd = "findFloor" /\ r.ans = Pending /\ r # Idle /\ Legal(r) /\ Stepped(c, farm, r2)
    BY <1>3, ServeSteps DEF ServeFindFloor
  <2>2. r \in DeleteFloorFinds \/ r \in TitleFinds \/ r \in PlaceFinds \/ r \in RemoveFinds
    BY <2>1, AwaitedIs
  <2>3. Fine(farm, r, farm, r2) BY <1>1, <2>1, <2>2, FindFloorFine
  <2>4. r.op # "patch" BY <2>2, Kinds
  <2>5. QED BY <1>2, <2>1, <2>3, <2>4
<1>4. CASE ServeListFloors(c)
  <2> DEFINE r2 == AnsweredBy(r, farm.floors)
  <2>1. r.cmd = "listFloors" /\ r.ans = Pending /\ r # Idle /\ Legal(r) /\ Stepped(c, farm, r2)
    BY <1>4, ServeSteps DEF ServeListFloors
  <2>2. r \in DeleteLists \/ r \in Lists BY <2>1, AwaitedIs
  <2>3. Fine(farm, r, farm, r2) BY <1>1, <2>1, <2>2, ListFine
  <2>4. r.op # "patch" BY <2>2, Kinds
  <2>5. QED BY <1>2, <2>1, <2>3, <2>4
<1>5. CASE ServeInsertFloor(c)
  <2> DEFINE floor == r.arg
             s == InsertFloor(farm, r.f, floor.name, floor.level, floor.printers)
             ans == IF LevelTaken(farm, floor.level) THEN None ELSE floor
             r2 == AnsweredBy(r, ans)
  <2>1. Serve(c, "insertFloor", s, ans) BY <1>5 DEF ServeInsertFloor
  <2>2. r.cmd = "insertFloor" /\ r.ans = Pending /\ r # Idle /\ Legal(r) /\ Stepped(c, s, r2)
    BY <2>1, ServeSteps
  <2>3. r \in DeleteInserts \/ r \in ListInserts \/ r \in FloorInserts BY <2>2, AwaitedIs
  <2>4. Fine(farm, r, s, r2) BY <1>1, <2>2, <2>3, InsertFloorFine
  <2>5. r.op # "patch" BY <2>3, Kinds
  <2>6. QED BY <1>2, <2>2, <2>4, <2>5
<1>6. CASE ServeDeleteFloor(c)
  <2> DEFINE f == r.f
             s == DeleteFloor(farm, f)
             r2 == AnsweredBy(r, "deleted")
  <2>1. r.cmd = "deleteFloor" /\ r.ans = Pending /\ r # Idle /\ Legal(r) /\ Stepped(c, s, r2)
    BY <1>6, ServeSteps DEF ServeDeleteFloor
  <2>2. r \in DeleteFloors BY <2>1, AwaitedIs
  <2>3. Fine(farm, r, s, r2) BY <1>1, <2>1, <2>2, DeleteFloorFine
  <2>4. r.op # "patch" BY <2>2, Kinds
  <2>5. QED BY <1>2, <2>1, <2>3, <2>4
<1>7. CASE ServeSaveFloor(c)
  <2> DEFINE f == r.f
             doc == r.arg.doc
             refused == f \notin DOMAIN farm.floors \/ LevelRefused(farm, f, doc.level)
             s == IF refused THEN farm ELSE SaveFloor(farm, f, doc)
             ans == IF refused THEN None ELSE "saved"
             r2 == AnsweredBy(r, ans)
  <2>1. Serve(c, "saveFloor", s, ans) BY <1>7 DEF ServeSaveFloor
  <2>2. r.cmd = "saveFloor" /\ r.ans = Pending /\ r # Idle /\ Legal(r) /\ Stepped(c, s, r2)
    BY <2>1, ServeSteps
  <2>3. r \in TitleSaves BY <2>2, AwaitedIs
  <2>4. refused \in BOOLEAN /\ (f \notin DOMAIN farm.floors => refused) BY DEF LevelRefused
  <2>5. Fine(farm, r, s, r2)
    <3> HIDE DEF refused
    <3>1. QED BY <1>1, <2>2, <2>3, <2>4, SaveFloorFine
  <2>6. r.op # "patch" BY <2>3, Kinds
  <2>7. QED BY <1>2, <2>2, <2>5, <2>6
<1>8. QED BY <1>3, <1>4, <1>5, <1>6, <1>7

\* The answers about printers.
LEMMA ResumePrinters ==
  ASSUME MongoTypes, MongoCaches, mode.db = "mongo", NEW c \in Slots,
         ResumeCreate(c) \/ ResumeUpdate(c) \/ ResumeDelete(c) \/ ResumeDeleteAll(c)
  PROVE  MongoTypes' /\ MongoCaches'
<1> DEFINE r == req[c]
<1>1. farm \in Farms BY DEF MongoTypes
<1>2. ASSUME NEW s, NEW r2, Fine(farm, r, s, r2), Stepped(c, s, r2), r.op \notin {"idle", "patch"}
      PROVE  MongoTypes' /\ MongoCaches'
  BY <1>2, AloneSteps, IdleIs
<1>3. CASE ResumeCreate(c)
  <2>1. r.op = "create" /\ r.cmd = "insertPrinter" /\ r.ans # Pending /\ Legal(r)
    BY <1>3, AnsweredLegal DEF ResumeCreate
  <2>2. r \in Creates BY <2>1, LegalIs
  <2> DEFINE left == r.arg.todo \ {r.ans}
             arg == [r.arg EXCEPT !.todo = left]
             made == [p \in r.ps |-> NewPrinter(r.arg.conn)]
  <2>3. CASE left # {}
    <3>1. Await(c, farm, "insertPrinter", arg) BY <1>3, <2>3 DEF ResumeCreate
    <3>2. Stepped(c, farm, NextOf(r, "insertPrinter", arg)) BY <3>1, AwaitSteps
    <3>3. Fine(farm, r, farm, NextOf(r, "insertPrinter", arg))
      BY <1>1, <2>1, <2>2, <2>3, InsertNextFine
    <3>4. QED BY <1>2, <2>1, <3>2, <3>3
  <2>4. CASE left = {}
    <3>1. Finish(c, HandleBatchPrinterCreated(farm, made)) BY <1>3, <2>4 DEF ResumeCreate
    <3>2. Stepped(c, HandleBatchPrinterCreated(farm, made), Idle) BY <3>1, FinishSteps
    <3>3. Fine(farm, r, HandleBatchPrinterCreated(farm, made), Idle)
      BY <1>1, <2>1, <2>2, <2>4, CreatedFine
    <3>4. QED BY <1>2, <2>1, <3>2, <3>3
  <2>5. QED BY <2>3, <2>4
<1>4. CASE ResumeUpdate(c)
  <2>1. CASE Answered(c, "update", "findPrinter")
    <3>1. r.op = "update" /\ r.cmd = "findPrinter" /\ r.ans # Pending /\ Legal(r)
      BY <2>1, AnsweredLegal
    <3>2. r \in UpdateFinds BY <3>1, LegalIs
    <3> DEFINE arg == [r.arg EXCEPT !.read = r.ans, !.doc = Assign(r.arg.body, r.ans)]
    <3>3. CASE r.ans = None
      <4>1. Finish(c, farm) BY <1>4, <3>1, <3>3 DEF ResumeUpdate, Answered
      <4>2. Stepped(c, farm, Idle) BY <4>1, FinishSteps
      <4>3. Fine(farm, r, farm, Idle) BY <1>1, <3>1, NotFoundFine
      <4>4. QED BY <1>2, <3>1, <4>2, <4>3
    <3>4. CASE r.ans # None
      <4>1. Await(c, farm, "savePrinter", arg)
        BY <1>4, <3>1, <3>4 DEF ResumeUpdate, Answered
      <4>2. Stepped(c, farm, NextOf(r, "savePrinter", arg)) BY <4>1, AwaitSteps
      <4>3. Fine(farm, r, farm, NextOf(r, "savePrinter", arg))
        BY <1>1, <3>1, <3>2, <3>4, SaveNextFine
      <4>4. QED BY <1>2, <3>1, <4>2, <4>3
    <3>5. QED BY <3>3, <3>4
  <2>2. CASE Answered(c, "update", "savePrinter")
    <3>1. r.op = "update" /\ r.cmd = "savePrinter" /\ r.ans # Pending /\ Legal(r)
      BY <2>2, AnsweredLegal
    <3>2. r \in UpdateSaves BY <3>1, LegalIs
    <3> DEFINE s == IF r.ans = None THEN farm
                    ELSE HandlePrinterCreatedOrUpdated(farm, The(r.ps), r.arg.doc)
    <3>3. Finish(c, s) BY <1>4, <3>1 DEF ResumeUpdate, Answered
    <3>4. Stepped(c, s, Idle) BY <3>3, FinishSteps
    <3>5. Fine(farm, r, s, Idle) BY <1>1, <3>1, <3>2, SavedFine
    <3>6. QED BY <1>2, <3>1, <3>4, <3>5
  <2>3. QED BY <1>4, <2>1, <2>2 DEF ResumeUpdate
<1>5. CASE ResumeDelete(c)
  <2>1. CASE /\ Answered(c, "delete", "deletePrinters")
             /\ Await(c, HandlePrintersDeleted(farm, r.ps), "pull", None)
    <3>1. r.op = "delete" /\ r.cmd = "deletePrinters" /\ r.ans # Pending /\ Legal(r)
      BY <2>1, AnsweredLegal
    <3>2. r \in Deletes BY <3>1, LegalIs
    <3> DEFINE s == HandlePrintersDeleted(farm, r.ps)
    <3>3. Stepped(c, s, NextOf(r, "pull", None)) BY <2>1, AwaitSteps
    <3>4. Fine(farm, r, s, NextOf(r, "pull", None)) BY <1>1, <3>1, <3>2, DeletedFine
    <3>5. QED BY <1>2, <3>1, <3>3, <3>4
  <2>2. CASE Answered(c, "delete", "pull") /\ Await(c, farm, "listFloors", None)
    <3>1. r.op = "delete" /\ r.cmd = "pull" /\ r.ans # Pending /\ Legal(r)
      BY <2>2, AnsweredLegal
    <3>2. r \in DeletePulls BY <3>1, LegalIs
    <3>3. Stepped(c, farm, NextOf(r, "listFloors", None)) BY <2>2, AwaitSteps
    <3>4. Fine(farm, r, farm, NextOf(r, "listFloors", None)) BY <1>1, <3>1, <3>2, PulledFine
    <3>5. QED BY <1>2, <3>1, <3>3, <3>4
  <2>3. QED BY <1>5, <2>1, <2>2 DEF ResumeDelete
<1>6. CASE ResumeDeleteAll(c)
  <2> DEFINE s == HandlePrintersDeleted(farm, r.ps)
  <2>1. r.op = "deleteAll" /\ r.cmd = "deletePrinters" /\ r.ans # Pending /\ Legal(r)
    BY <1>6, AnsweredLegal DEF ResumeDeleteAll
  <2>2. r \in DeleteAlls BY <2>1, LegalIs
  <2>3. Stepped(c, s, Idle) BY <1>6, FinishSteps DEF ResumeDeleteAll
  <2>4. Fine(farm, r, s, Idle) BY <1>1, <2>1, <2>2, AllDeletedFine
  <2>5. QED BY <1>2, <2>1, <2>3, <2>4
<1>7. QED BY <1>3, <1>4, <1>5, <1>6

\* The answers about floors that are read, inserted and deleted.
LEMMA ResumeNewFloors ==
  ASSUME MongoTypes, MongoCaches, mode.db = "mongo", NEW c \in Slots,
         ResumeLoadStore(c) \/ ResumeInsertFloor(c) \/ ResumeDeleteFloor(c)
  PROVE  MongoTypes' /\ MongoCaches'
<1> DEFINE r == req[c]
<1>1. farm \in Farms /\ req = [d \in Slots |-> req[d]] BY DEF MongoTypes
<1>2. ASSUME NEW s, NEW r2, Fine(farm, r, s, r2), Stepped(c, s, r2), r.op \notin {"idle", "patch"}
      PROVE  MongoTypes' /\ MongoCaches'
  BY <1>2, AloneSteps, IdleIs
<1>3. CASE ResumeLoadStore(c)
  <2>1. r.op \in {"delete", "list"} /\ r.cmd = "listFloors" /\ r.ans # Pending /\ Legal(r)
    BY <1>3, AnsweredLegal DEF ResumeLoadStore
  <2>2. r \in DeleteLists \/ r \in Lists BY <2>1, LegalIs
  <2>3. CASE r.ans # <<>>
    <3> DEFINE s == StoreFloors(farm, r.ans)
    <3>1. Finish(c, s) BY <1>3, <2>3 DEF ResumeLoadStore
    <3>2. Stepped(c, s, Idle) BY <3>1, FinishSteps
    <3>3. Fine(farm, r, s, Idle) BY <1>1, <2>1, <2>2, ListedFine
    <3>4. QED BY <1>2, <2>1, <3>2, <3>3
  <2>4. CASE r.ans = <<>>
    <3> DEFINE arg == NewFloor(DefaultName, DefaultLevel, {})
    <3>1. PICK f \in FloorIds :
            /\ farm' = farm
            /\ req' = [req EXCEPT ![c].cmd = "insertFloor", ![c].f = f,
                 ![c].arg = arg, ![c].ans = Pending]
            /\ UNCHANGED <<mode, disturbed, placed>>
      BY <1>3, <2>4 DEF ResumeLoadStore
    <3>2. arg \in Floor BY DefaultFloor DEF NewFloor, Floor
    <3> HIDE DEF arg
    <3>3. Becomes(c, DefaultOf(r, f, arg)) BY <1>1, <3>1 DEF Becomes, DefaultOf
    <3>4. Stepped(c, farm, DefaultOf(r, f, arg)) BY <3>1, <3>3, OnlyOne
    <3>5. Fine(farm, r, farm, DefaultOf(r, f, arg))
      BY <1>1, <2>2, <2>4, <3>2, NoneListedFine
    <3>6. QED BY <1>2, <2>1, <3>4, <3>5
  <2>5. QED BY <2>3, <2>4
<1>4. CASE ResumeInsertFloor(c)
  <2>1. r.op \in {"createFloor", "delete", "list"} /\ r.cmd = "insertFloor" /\ r.ans # Pending /\ Legal(r)
    BY <1>4, AnsweredLegal DEF ResumeInsertFloor
  <2>2. r \in DeleteInserts \/ r \in ListInserts \/ r \in FloorInserts BY <2>1, LegalIs
  <2> DEFINE s == IF r.ans = None THEN farm ELSE StoreFloor(farm, r.f, r.ans)
  <2>3. Finish(c, s) BY <1>4 DEF ResumeInsertFloor
  <2>4. Stepped(c, s, Idle) BY <2>3, FinishSteps
  <2>5. Fine(farm, r, s, Idle) BY <1>1, <2>1, <2>2, FloorInsertedFine
  <2>6. QED BY <1>2, <2>1, <2>4, <2>5
<1>5. CASE ResumeDeleteFloor(c)
  <2>1. CASE Answered(c, "deleteFloor", "findFloor")
    <3>1. r.op = "deleteFloor" /\ r.cmd = "findFloor" /\ r.ans # Pending /\ Legal(r)
      BY <2>1, AnsweredLegal
    <3>2. r \in DeleteFloorFinds BY <3>1, LegalIs
    <3>3. CASE r.ans = None
      <4>1. Finish(c, farm) BY <1>5, <3>1, <3>3 DEF ResumeDeleteFloor, Answered
      <4>2. Stepped(c, farm, Idle) BY <4>1, FinishSteps
      <4>3. Fine(farm, r, farm, Idle) BY <1>1, <3>1, NotFoundFine
      <4>4. QED BY <1>2, <3>1, <4>2, <4>3
    <3>4. CASE r.ans # None
      <4>1. Await(c, farm, "deleteFloor", None)
        BY <1>5, <3>1, <3>4 DEF ResumeDeleteFloor, Answered
      <4>2. Stepped(c, farm, NextOf(r, "deleteFloor", None)) BY <4>1, AwaitSteps
      <4>3. Fine(farm, r, farm, NextOf(r, "deleteFloor", None))
        BY <1>1, <3>1, <3>2, <3>4, DropNextFine
      <4>4. QED BY <1>2, <3>1, <4>2, <4>3
    <3>5. QED BY <3>3, <3>4
  <2>2. CASE Answered(c, "deleteFloor", "deleteFloor")
    <3>1. r.op = "deleteFloor" /\ r.cmd = "deleteFloor" /\ r.ans # Pending /\ Legal(r)
      BY <2>2, AnsweredLegal
    <3>2. r \in DeleteFloors BY <3>1, LegalIs
    <3> DEFINE s == DropFloor(farm, r.f)
    <3>3. Finish(c, s) BY <1>5, <3>1 DEF ResumeDeleteFloor, Answered
    <3>4. Stepped(c, s, Idle) BY <3>3, FinishSteps
    <3>5. Fine(farm, r, s, Idle) BY <1>1, <3>1, <3>2, DroppedFine
    <3>6. QED BY <1>2, <3>1, <3>4, <3>5
  <2>3. QED BY <1>5, <2>1, <2>2 DEF ResumeDeleteFloor
<1>6. QED BY <1>3, <1>4, <1>5

\* A request whose floor got another version.
Marked(r) == [r EXCEPT !.stale = TRUE]

LEMMA MarkedIs ==
  ASSUME NEW op, NEW cmd, NEW pss, NEW fs, NEW args, NEW answers,
         NEW r \in Request(op, cmd, pss, fs, args, answers)
  PROVE  /\ Marked(r) \in Request(op, cmd, pss, fs, args, answers)
         /\ Marked(r).op = op /\ Marked(r).cmd = cmd /\ Marked(r).ps = r.ps /\ Marked(r).f = r.f
         /\ Marked(r).arg = r.arg /\ Marked(r).ans = r.ans /\ Marked(r).stale = TRUE
BY DEF Request, Marked

LEMMA MarkedLegal ==
  ASSUME NEW r, Legal(r), r # Idle
  PROVE  /\ Legal(Marked(r))
         /\ Marked(r).op = r.op /\ Marked(r).cmd = r.cmd /\ Marked(r).ps = r.ps /\ Marked(r).f = r.f
         /\ Marked(r).arg = r.arg /\ Marked(r).ans = r.ans /\ Marked(r).stale = TRUE
<1>1. CASE r \in Creates
  <2>1. /\ Marked(r) \in Creates
        /\ Marked(r).op = "create" /\ Marked(r).cmd = "insertPrinter" /\ Marked(r).ps = r.ps /\ Marked(r).f = r.f
        /\ Marked(r).arg = r.arg /\ Marked(r).ans = r.ans /\ Marked(r).stale = TRUE
    BY <1>1, MarkedIs DEF Creates
  <2>2. r.op = "create" /\ r.cmd = "insertPrinter" BY <1>1, Kinds
  <2>3. QED BY <2>1, <2>2, LegalIs DEF Legal
<1>2. CASE r \in UpdateFinds
  <2>1. /\ Marked(r) \in UpdateFinds
        /\ Marked(r).op = "update" /\ Marked(r).cmd = "findPrinter" /\ Marked(r).ps = r.ps /\ Marked(r).f = r.f
        /\ Marked(r).arg = r.arg /\ Marked(r).ans = r.ans /\ Marked(r).stale = TRUE
    BY <1>2, MarkedIs DEF UpdateFinds
  <2>2. r.op = "update" /\ r.cmd = "findPrinter" BY <1>2, Kinds
  <2>3. QED BY <2>1, <2>2 DEF Legal
<1>3. CASE r \in UpdateSaves
  <2>1. /\ Marked(r) \in UpdateSaves
        /\ Marked(r).op = "update" /\ Marked(r).cmd = "savePrinter" /\ Marked(r).ps = r.ps /\ Marked(r).f = r.f
        /\ Marked(r).arg = r.arg /\ Marked(r).ans = r.ans /\ Marked(r).stale = TRUE
    BY <1>3, MarkedIs DEF UpdateSaves
  <2>2. r.op = "update" /\ r.cmd = "savePrinter" BY <1>3, Kinds
  <2>3. QED BY <2>1, <2>2, LegalIs DEF Legal
<1>4. CASE r \in PatchFinds
  <2>1. /\ Marked(r) \in PatchFinds
        /\ Marked(r).op = "patch" /\ Marked(r).cmd = "findPrinter" /\ Marked(r).ps = r.ps /\ Marked(r).f = r.f
        /\ Marked(r).arg = r.arg /\ Marked(r).ans = r.ans /\ Marked(r).stale = TRUE
    BY <1>4, MarkedIs DEF PatchFinds
  <2>2. r.op = "patch" /\ r.cmd = "findPrinter" BY <1>4, Kinds
  <2>3. QED BY <2>1, <2>2 DEF Legal
<1>5. CASE r \in PatchSaves
  <2>1. /\ Marked(r) \in PatchSaves
        /\ Marked(r).op = "patch" /\ Marked(r).cmd = "patchPrinter" /\ Marked(r).ps = r.ps /\ Marked(r).f = r.f
        /\ Marked(r).arg = r.arg /\ Marked(r).ans = r.ans /\ Marked(r).stale = TRUE
    BY <1>5, MarkedIs DEF PatchSaves
  <2>2. r.op = "patch" /\ r.cmd = "patchPrinter" BY <1>5, Kinds
  <2>3. QED BY <2>1, <2>2 DEF Legal
<1>6. CASE r \in Deletes
  <2>1. /\ Marked(r) \in Deletes
        /\ Marked(r).op = "delete" /\ Marked(r).cmd = "deletePrinters" /\ Marked(r).ps = r.ps /\ Marked(r).f = r.f
        /\ Marked(r).arg = r.arg /\ Marked(r).ans = r.ans /\ Marked(r).stale = TRUE
    BY <1>6, MarkedIs DEF Deletes
  <2>2. r.op = "delete" /\ r.cmd = "deletePrinters" BY <1>6, Kinds
  <2>3. QED BY <2>1, <2>2 DEF Legal
<1>7. CASE r \in DeletePulls
  <2>1. /\ Marked(r) \in DeletePulls
        /\ Marked(r).op = "delete" /\ Marked(r).cmd = "pull" /\ Marked(r).ps = r.ps /\ Marked(r).f = r.f
        /\ Marked(r).arg = r.arg /\ Marked(r).ans = r.ans /\ Marked(r).stale = TRUE
    BY <1>7, MarkedIs DEF DeletePulls
  <2>2. r.op = "delete" /\ r.cmd = "pull" BY <1>7, Kinds
  <2>3. QED BY <2>1, <2>2 DEF Legal
<1>8. CASE r \in DeleteAlls
  <2>1. /\ Marked(r) \in DeleteAlls
        /\ Marked(r).op = "deleteAll" /\ Marked(r).cmd = "deletePrinters" /\ Marked(r).ps = r.ps /\ Marked(r).f = r.f
        /\ Marked(r).arg = r.arg /\ Marked(r).ans = r.ans /\ Marked(r).stale = TRUE
    BY <1>8, MarkedIs DEF DeleteAlls
  <2>2. r.op = "deleteAll" /\ r.cmd = "deletePrinters" BY <1>8, Kinds
  <2>3. QED BY <2>1, <2>2 DEF Legal
<1>9. CASE r \in DeleteLists
  <2>1. /\ Marked(r) \in DeleteLists
        /\ Marked(r).op = "delete" /\ Marked(r).cmd = "listFloors" /\ Marked(r).ps = r.ps /\ Marked(r).f = r.f
        /\ Marked(r).arg = r.arg /\ Marked(r).ans = r.ans /\ Marked(r).stale = TRUE
    BY <1>9, MarkedIs DEF DeleteLists
  <2>2. r.op = "delete" /\ r.cmd = "listFloors" BY <1>9, Kinds
  <2>3. QED BY <2>1, <2>2 DEF Legal
<1>10. CASE r \in DeleteInserts
  <2>1. /\ Marked(r) \in DeleteInserts
        /\ Marked(r).op = "delete" /\ Marked(r).cmd = "insertFloor" /\ Marked(r).ps = r.ps /\ Marked(r).f = r.f
        /\ Marked(r).arg = r.arg /\ Marked(r).ans = r.ans /\ Marked(r).stale = TRUE
    BY <1>10, MarkedIs DEF DeleteInserts
  <2>2. r.op = "delete" /\ r.cmd = "insertFloor" BY <1>10, Kinds
  <2>3. QED BY <2>1, <2>2 DEF Legal
<1>11. CASE r \in Lists
  <2>1. /\ Marked(r) \in Lists
        /\ Marked(r).op = "list" /\ Marked(r).cmd = "listFloors" /\ Marked(r).ps = r.ps /\ Marked(r).f = r.f
        /\ Marked(r).arg = r.arg /\ Marked(r).ans = r.ans /\ Marked(r).stale = TRUE
    BY <1>11, MarkedIs DEF Lists
  <2>2. r.op = "list" /\ r.cmd = "listFloors" BY <1>11, Kinds
  <2>3. QED BY <2>1, <2>2 DEF Legal
<1>12. CASE r \in ListInserts
  <2>1. /\ Marked(r) \in ListInserts
        /\ Marked(r).op = "list" /\ Marked(r).cmd = "insertFloor" /\ Marked(r).ps = r.ps /\ Marked(r).f = r.f
        /\ Marked(r).arg = r.arg /\ Marked(r).ans = r.ans /\ Marked(r).stale = TRUE
    BY <1>12, MarkedIs DEF ListInserts
  <2>2. r.op = "list" /\ r.cmd = "insertFloor" BY <1>12, Kinds
  <2>3. QED BY <2>1, <2>2 DEF Legal
<1>13. CASE r \in FloorInserts
  <2>1. /\ Marked(r) \in FloorInserts
        /\ Marked(r).op = "createFloor" /\ Marked(r).cmd = "insertFloor" /\ Marked(r).ps = r.ps /\ Marked(r).f = r.f
        /\ Marked(r).arg = r.arg /\ Marked(r).ans = r.ans /\ Marked(r).stale = TRUE
    BY <1>13, MarkedIs DEF FloorInserts
  <2>2. r.op = "createFloor" /\ r.cmd = "insertFloor" BY <1>13, Kinds
  <2>3. QED BY <2>1, <2>2 DEF Legal
<1>14. CASE r \in DeleteFloorFinds
  <2>1. /\ Marked(r) \in DeleteFloorFinds
        /\ Marked(r).op = "deleteFloor" /\ Marked(r).cmd = "findFloor" /\ Marked(r).ps = r.ps /\ Marked(r).f = r.f
        /\ Marked(r).arg = r.arg /\ Marked(r).ans = r.ans /\ Marked(r).stale = TRUE
    BY <1>14, MarkedIs DEF DeleteFloorFinds
  <2>2. r.op = "deleteFloor" /\ r.cmd = "findFloor" BY <1>14, Kinds
  <2>3. QED BY <2>1, <2>2 DEF Legal
<1>15. CASE r \in DeleteFloors
  <2>1. /\ Marked(r) \in DeleteFloors
        /\ Marked(r).op = "deleteFloor" /\ Marked(r).cmd = "deleteFloor" /\ Marked(r).ps = r.ps /\ Marked(r).f = r.f
        /\ Marked(r).arg = r.arg /\ Marked(r).ans = r.ans /\ Marked(r).stale = TRUE
    BY <1>15, MarkedIs DEF DeleteFloors
  <2>2. r.op = "deleteFloor" /\ r.cmd = "deleteFloor" BY <1>15, Kinds
  <2>3. QED BY <2>1, <2>2 DEF Legal
<1>16. CASE r \in TitleFinds
  <2>1. /\ Marked(r) \in TitleFinds
        /\ Marked(r).op = "updateFloor" /\ Marked(r).cmd = "findFloor" /\ Marked(r).ps = r.ps /\ Marked(r).f = r.f
        /\ Marked(r).arg = r.arg /\ Marked(r).ans = r.ans /\ Marked(r).stale = TRUE
    BY <1>16, MarkedIs DEF TitleFinds
  <2>2. r.op = "updateFloor" /\ r.cmd = "findFloor" BY <1>16, Kinds
  <2>3. QED BY <2>1, <2>2 DEF Legal
<1>17. CASE r \in TitleSaves
  <2>1. /\ Marked(r) \in TitleSaves
        /\ Marked(r).op = "updateFloor" /\ Marked(r).cmd = "saveFloor" /\ Marked(r).ps = r.ps /\ Marked(r).f = r.f
        /\ Marked(r).arg = r.arg /\ Marked(r).ans = r.ans /\ Marked(r).stale = TRUE
    BY <1>17, MarkedIs DEF TitleSaves
  <2>2. r.op = "updateFloor" /\ r.cmd = "saveFloor" BY <1>17, Kinds
  <2>3. QED BY <2>1, <2>2 DEF Legal
<1>18. CASE r \in PlaceFinds
  <2>1. /\ Marked(r) \in PlaceFinds
        /\ Marked(r).op = "place" /\ Marked(r).cmd = "findFloor" /\ Marked(r).ps = r.ps /\ Marked(r).f = r.f
        /\ Marked(r).arg = r.arg /\ Marked(r).ans = r.ans /\ Marked(r).stale = TRUE
    BY <1>18, MarkedIs DEF PlaceFinds
  <2>2. r.op = "place" /\ r.cmd = "findFloor" BY <1>18, Kinds
  <2>3. QED BY <2>1, <2>2 DEF Legal
<1>19. CASE r \in PlaceSaves
  <2>1. /\ Marked(r) \in PlaceSaves
        /\ Marked(r).op = "place" /\ Marked(r).cmd = "savePlaces" /\ Marked(r).ps = r.ps /\ Marked(r).f = r.f
        /\ Marked(r).arg = r.arg /\ Marked(r).ans = r.ans /\ Marked(r).stale = TRUE
    BY <1>19, MarkedIs DEF PlaceSaves
  <2>2. r.op = "place" /\ r.cmd = "savePlaces" BY <1>19, Kinds
  <2>3. QED BY <2>1, <2>2 DEF Legal
<1>20. CASE r \in RemoveFinds
  <2>1. /\ Marked(r) \in RemoveFinds
        /\ Marked(r).op = "remove" /\ Marked(r).cmd = "findFloor" /\ Marked(r).ps = r.ps /\ Marked(r).f = r.f
        /\ Marked(r).arg = r.arg /\ Marked(r).ans = r.ans /\ Marked(r).stale = TRUE
    BY <1>20, MarkedIs DEF RemoveFinds
  <2>2. r.op = "remove" /\ r.cmd = "findFloor" BY <1>20, Kinds
  <2>3. QED BY <2>1, <2>2 DEF Legal
<1>21. CASE r \in RemoveSaves
  <2>1. /\ Marked(r) \in RemoveSaves
        /\ Marked(r).op = "remove" /\ Marked(r).cmd = "savePlaces" /\ Marked(r).ps = r.ps /\ Marked(r).f = r.f
        /\ Marked(r).arg = r.arg /\ Marked(r).ans = r.ans /\ Marked(r).stale = TRUE
    BY <1>21, MarkedIs DEF RemoveSaves
  <2>2. r.op = "remove" /\ r.cmd = "savePlaces" BY <1>21, Kinds
  <2>3. QED BY <2>1, <2>2 DEF Legal
<1>22. QED
  BY <1>1, <1>2, <1>3, <1>4, <1>5, <1>6, <1>7, <1>8, <1>9, <1>10, <1>11, <1>12, <1>13, <1>14, <1>15, <1>16, <1>17, <1>18, <1>19, <1>20, <1>21 DEF Legal

\* An array is saved, and the requests that hold the floor are marked.
Saves(c, f, places) ==
  /\ farm' = SavePlaces(farm, f, places)
  /\ req' = [d \in Slots |->
       IF d = c THEN AnsweredBy(req[d], "saved")
       ELSE IF req[d].f = f /\ (req[d].cmd = "findFloor" => req[d].ans # Pending)
       THEN Marked(req[d])
       ELSE req[d]]
  /\ UNCHANGED <<mode, disturbed, placed>>

LEMMA SavesSteps ==
  ASSUME MongoTypes, mode.db = "mongo", NEW c \in Slots, NEW f \in FloorIds, NEW places, Saves(c, f, places)
  PROVE  Stepped(c, SavePlaces(farm, f, places), AnsweredBy(req[c], "saved"))
<1>1. \A d \in Slots : Legal(req[d]) BY DEF MongoTypes
<1>2. ASSUME NEW d \in Slots, req[d].f = f
      PROVE  req[d] # Idle /\ Legal(Marked(req[d]))
  <2>1. req[d] # Idle BY <1>2, IdleIs, NoValues
  <2>2. QED BY <1>1, <2>1, MarkedLegal
<1>3. req' = [d \in Slots |-> req'[d]] /\ req'[c] = AnsweredBy(req[c], "saved") BY DEF Saves
<1>4. \A d \in Slots : d # c => Legal(req'[d]) /\ (req[d] = Idle => req'[d] = Idle)
  BY <1>1, <1>2 DEF Saves
<1>5. QED BY <1>3, <1>4 DEF Saves, Stepped

\* What the save of an array may do.
LEMMA ServeSavePlacesIs ==
  ASSUME NEW c \in Slots, ServeSavePlaces(c), NEW f, f = req[c].f
  PROVE  /\ req[c].cmd = "savePlaces" /\ req[c].ans = Pending
         /\ \/ f \in DOMAIN farm.floors /\ ~req[c].stale /\ Saves(c, f, req[c].arg.doc.printers)
            \/ /\ f \notin DOMAIN farm.floors \/ req[c].stale
               /\ Serve(c, "savePlaces", farm, None)
            \/ /\ f \in DOMAIN farm.floors /\ req[c].stale /\ req[c].arg.cell # None
               /\ OnlyPushes(req[c].arg.read.printers, The(req[c].ps), req[c].arg.cell)
               /\ Saves(c, f, farm.floors[f].printers \cup (req[c].arg.doc.printers \ req[c].arg.read.printers))
BY DEF ServeSavePlaces, Saves, AnsweredBy, Marked

\* The command that other requests notice.
LEMMA ServeSavePlacesKeeps ==
  ASSUME MongoTypes, MongoCaches, mode.db = "mongo", NEW c \in Slots, ServeSavePlaces(c)
  PROVE  MongoTypes' /\ MongoCaches'
<1> DEFINE r == req[c]
           f == r.f
<1>1. farm \in Farms /\ Legal(r) BY DEF MongoTypes
<1>2. r.cmd = "savePlaces" /\ r.ans = Pending /\ r # Idle BY ServeSavePlacesIs, IdleIs
<1>3. r \in PlaceSaves \/ r \in RemoveSaves BY <1>1, <1>2, AwaitedIs
<1>4. f \in FloorIds /\ r.op # "patch" /\ r.arg.doc.printers \in SUBSET Position
  BY <1>3, PlaceSavesAre, RemoveSavesAre DEF Floor
<1>5. ASSUME f \in DOMAIN farm.floors, NEW places \in SUBSET Position,
             ~r.stale => places = r.arg.doc.printers, Saves(c, f, places)
      PROVE  MongoTypes' /\ MongoCaches'
  <2> DEFINE s == SavePlaces(farm, f, places)
             r2 == AnsweredBy(r, "saved")
  <2>1. Stepped(c, s, r2) BY <1>4, <1>5, SavesSteps
  <2>2. Fine(farm, r, s, r2) BY <1>1, <1>2, <1>3, <1>5, SavePlacesFine
  <2>3. QED BY <1>2, <1>4, <2>1, <2>2, AloneSteps
<1>6. CASE f \in DOMAIN farm.floors /\ ~r.stale /\ Saves(c, f, r.arg.doc.printers)
  BY <1>4, <1>5, <1>6
<1>7. CASE (f \notin DOMAIN farm.floors \/ r.stale) /\ Serve(c, "savePlaces", farm, None)
  <2> DEFINE r2 == AnsweredBy(r, None)
  <2>1. Stepped(c, farm, r2) BY <1>7, ServeSteps
  <2>2. Fine(farm, r, farm, r2) BY <1>1, <1>2, <1>3, <1>7, RefusedFine
  <2>3. QED BY <1>2, <1>4, <2>1, <2>2, AloneSteps
<1>8. CASE /\ f \in DOMAIN farm.floors /\ r.stale
           /\ Saves(c, f, farm.floors[f].printers \cup (r.arg.doc.printers \ r.arg.read.printers))
  <2>1. farm.floors[f] \in Floor BY <1>1, <1>8, FarmTables
  <2>2. farm.floors[f].printers \cup (r.arg.doc.printers \ r.arg.read.printers) \in SUBSET Position
    BY <1>4, <2>1 DEF Floor
  <2>3. QED BY <1>5, <1>8, <2>2
<1>9. QED BY <1>6, <1>7, <1>8, ServeSavePlacesIs

\* The answers about floors that are saved.
LEMMA ResumeFloors ==
  ASSUME MongoTypes, MongoCaches, mode.db = "mongo", NEW c \in Slots,
         ResumeUpdateFloor(c) \/ ResumePlace(c) \/ ResumeRemove(c) \/ ResumeSavePlaces(c)
  PROVE  MongoTypes' /\ MongoCaches'
<1> DEFINE r == req[c]
<1>1. farm \in Farms BY DEF MongoTypes
<1>2. ASSUME NEW s, NEW r2, Fine(farm, r, s, r2), Stepped(c, s, r2), r.op \notin {"idle", "patch"}
      PROVE  MongoTypes' /\ MongoCaches'
  BY <1>2, AloneSteps, IdleIs
<1>3. ASSUME Finish(c, farm), r.op \notin {"idle", "patch"}, r.cmd = "findFloor"
      PROVE  MongoTypes' /\ MongoCaches'
  <2>1. Stepped(c, farm, Idle) BY <1>3, FinishSteps
  <2>2. Fine(farm, r, farm, Idle) BY <1>1, <1>3, NotFoundFine
  <2>3. QED BY <1>2, <1>3, <2>1, <2>2
<1>4. ASSUME NEW places \in SUBSET Position, r \in PlaceFinds \/ r \in RemoveFinds, r.ans # Pending, r.ans # None,
             Await(c, farm, "savePlaces", ToSave(r, places))
      PROVE  MongoTypes' /\ MongoCaches'
  <2> DEFINE arg == ToSave(r, places)
             r2 == NextOf(r, "savePlaces", arg)
  <2>1. Stepped(c, farm, r2) BY <1>4, AwaitSteps
  <2>2. Fine(farm, r, farm, r2) BY <1>1, <1>4, SavePlacesNextFine
  <2>3. r.op \notin {"idle", "patch"} BY <1>4, PlaceFindsAre, RemoveFindsAre
  <2>4. QED BY <1>2, <2>1, <2>2, <2>3
<1>5. CASE ResumeUpdateFloor(c) /\ Answered(c, "updateFloor", "findFloor")
  <2>1. r.op = "updateFloor" /\ r.cmd = "findFloor" /\ r.ans # Pending /\ Legal(r)
    BY <1>5, AnsweredLegal
  <2>2. r \in TitleFinds BY <2>1, LegalIs
  <2> DEFINE arg == [r.arg EXCEPT !.doc = Assign(r.arg.update, r.ans)]
  <2>3. CASE r.ans = None
    <3>1. Finish(c, farm) BY <1>5, <2>1, <2>3 DEF ResumeUpdateFloor, Answered
    <3>2. QED BY <1>3, <2>1, <3>1
  <2>4. CASE r.ans # None
    <3>1. Await(c, farm, "saveFloor", arg)
      BY <1>5, <2>1, <2>4 DEF ResumeUpdateFloor, Answered
    <3>2. Stepped(c, farm, NextOf(r, "saveFloor", arg)) BY <3>1, AwaitSteps
    <3>3. Fine(farm, r, farm, NextOf(r, "saveFloor", arg))
      BY <1>1, <2>1, <2>2, <2>4, SaveFloorNextFine
    <3>4. QED BY <1>2, <2>1, <3>2, <3>3
  <2>5. QED BY <2>3, <2>4
<1>6. ASSUME r \in TitleSaves \/ r \in PlaceSaves \/ r \in RemoveSaves, r.ans # Pending,
             Finish(c, IF r.ans = None THEN farm ELSE StoreFloor(farm, r.f, r.arg.doc))
      PROVE  MongoTypes' /\ MongoCaches'
  <2> DEFINE s == IF r.ans = None THEN farm ELSE StoreFloor(farm, r.f, r.arg.doc)
  <2>1. Stepped(c, s, Idle) BY <1>6, FinishSteps
  <2>2. Fine(farm, r, s, Idle) BY <1>1, <1>6, FloorSavedFine
  <2>3. r.op \notin {"idle", "patch"} BY <1>6, TitleSavesAre, PlaceSavesAre, RemoveSavesAre
  <2>4. QED BY <1>2, <2>1, <2>2, <2>3
<1>7. CASE ResumeUpdateFloor(c) /\ Answered(c, "updateFloor", "saveFloor")
  <2>1. r.op = "updateFloor" /\ r.cmd = "saveFloor" /\ r.ans # Pending /\ Legal(r)
    BY <1>7, AnsweredLegal
  <2>2. r \in TitleSaves BY <2>1, LegalIs
  <2>3. Finish(c, IF r.ans = None THEN farm ELSE StoreFloor(farm, r.f, r.arg.doc))
    BY <1>7, <2>1 DEF ResumeUpdateFloor, Answered
  <2>4. QED BY <1>6, <2>1, <2>2, <2>3
<1>8. CASE ResumePlace(c)
  <2> DEFINE p == The(r.ps)
  <2>1. r.op = "place" /\ r.cmd = "findFloor" /\ r.ans # Pending /\ Legal(r)
    BY <1>8, AnsweredLegal DEF ResumePlace
  <2>2. r \in PlaceFinds BY <2>1, LegalIs
  <2>3. CASE r.ans = None \/ p \notin DOMAIN farm.cache
    <3>1. Finish(c, farm) BY <1>8, <2>3 DEF ResumePlace
    <3>2. QED BY <1>3, <2>1, <3>1
  <2>4. CASE ~(r.ans = None \/ p \notin DOMAIN farm.cache)
    <3>1. PICK places \in Placed(r.ans.printers, p, r.arg.cell) :
            Await(c, farm, "savePlaces", ToSave(r, places))
      BY <1>8, <2>4 DEF ResumePlace, ToSave
    <3>2. r.ans.printers \in SUBSET Position /\ p \in PrinterIds /\ r.arg.cell \in Cells
      BY <2>1, <2>2, <2>4, PlaceFindsAre, TheIs DEF Floor
    <3>3. places \in SUBSET Position BY <3>2, PlacedIs
    <3>4. QED BY <1>4, <2>1, <2>2, <2>4, <3>1, <3>3
  <2>5. QED BY <2>3, <2>4
<1>9. CASE ResumeRemove(c)
  <2> DEFINE p == The(r.ps)
  <2>1. r.op = "remove" /\ r.cmd = "findFloor" /\ r.ans # Pending /\ Legal(r)
    BY <1>9, AnsweredLegal DEF ResumeRemove
  <2>2. r \in RemoveFinds BY <2>1, LegalIs
  <2>3. CASE r.ans = None \/ p \notin DOMAIN farm.cache
    <3>1. Finish(c, farm) BY <1>9, <2>3 DEF ResumeRemove
    <3>2. QED BY <1>3, <2>1, <3>1
  <2>4. CASE ~(r.ans = None \/ p \notin DOMAIN farm.cache) /\ Removed(r.ans.printers, p) = {}
    <3> DEFINE s == StoreFloor(farm, r.f, r.ans)
    <3>1. Finish(c, s) BY <1>9, <2>4 DEF ResumeRemove
    <3>2. Stepped(c, s, Idle) BY <3>1, FinishSteps
    <3>3. Fine(farm, r, s, Idle) BY <1>1, <2>1, <2>2, <2>4, NotPlacedFine
    <3>4. QED BY <1>2, <2>1, <3>2, <3>3
  <2>5. CASE ~(r.ans = None \/ p \notin DOMAIN farm.cache) /\ Removed(r.ans.printers, p) # {}
    <3>1. PICK places \in Removed(r.ans.printers, p) :
            Await(c, farm, "savePlaces", ToSave(r, places))
      BY <1>9, <2>5 DEF ResumeRemove, ToSave
    <3>2. r.ans.printers \in SUBSET Position BY <2>1, <2>2, <2>5, RemoveFindsAre DEF Floor
    <3>3. places \in SUBSET Position BY <3>2, RemovedIs
    <3>4. QED BY <1>4, <2>1, <2>2, <2>5, <3>1, <3>3
  <2>6. QED BY <2>3, <2>4, <2>5
<1>10. CASE ResumeSavePlaces(c)
  <2>1. r.op \in {"place", "remove"} /\ r.cmd = "savePlaces" /\ r.ans # Pending /\ Legal(r)
    BY <1>10, AnsweredLegal DEF ResumeSavePlaces
  <2>2. r \in PlaceSaves \/ r \in RemoveSaves BY <2>1, LegalIs
  <2>3. QED BY <1>6, <1>10, <2>1, <2>2 DEF ResumeSavePlaces
<1>11. QED BY <1>5, <1>7, <1>8, <1>9, <1>10 DEF ResumeUpdateFloor

---------------------------------------------------------------------------
(* Patches that run together                                               *)

\* What a patch may do to a farm: it leaves the floors and the other printers alone.
Patched(s, r, t, r2) ==
  /\ t \in Farms /\ t.groups = s.groups
  /\ t.floors = s.floors /\ t.store = s.store
  /\ Legal(r2)
  /\ r2 # Idle => r2.op = "patch" /\ r2.ps = r.ps
  /\ DOMAIN t.printers = DOMAIN s.printers
  /\ \A q \in DOMAIN s.printers : {q} # r.ps => t.printers[q] = s.printers[q]

\* Whether what its printer is has still to be told.
Answers(r) == r.op = "patch" /\ r.cmd = "patchPrinter" /\ r.ans # Pending

\* After a patch alone or together with others the cache still follows.
LEMMA PatchSteps ==
  ASSUME MongoTypes, MongoCaches, mode.db = "mongo", NEW c \in Slots,
         req[c].op = "patch", req[c].ps \in One, NEW s, NEW r2, Patched(farm, req[c], s, r2),
         Stepped(c, s, r2), \A d \in Slots : d # c => req'[d] = req[d],
         Answers(r2) => r2.ans = FindPrinter(s, The(r2.ps)),
         DOMAIN farm.cache = DOMAIN farm.printers /\ (Answers(req[c]) => req[c].ans = FindPrinter(farm, The(req[c].ps)))
           => /\ DOMAIN s.cache = DOMAIN farm.cache
              /\ \A q \in DOMAIN farm.printers : {q} # req[c].ps => s.cache[q] = farm.cache[q]
              /\ \A q \in DOMAIN farm.printers : {q} = req[c].ps =>
                   \/ Answers(r2)
                   \/ s.cache[q] = s.printers[q]
                   \/ ~Answers(req[c]) /\ s.cache[q] = farm.cache[q] /\ s.printers[q] = farm.printers[q]
  PROVE  MongoTypes' /\ MongoCaches'
<1> DEFINE r == req[c]
           p == The(r.ps)
<1>1. /\ s \in Farms /\ s.groups = farm.groups /\ s.floors = farm.floors /\ s.store = farm.store
      /\ Legal(r2) /\ (r2 # Idle => r2.op = "patch" /\ r2.ps = r.ps)
      /\ DOMAIN s.printers = DOMAIN farm.printers
      /\ \A q \in DOMAIN farm.printers : {q} # r.ps => s.printers[q] = farm.printers[q]
  BY DEF Patched
<1>2. MongoTypes' BY <1>1, StepTypes
<1>3. farm' = s /\ req'[c] = r2 /\ disturbed' = disturbed BY DEF Stepped
<1>4. r # Idle BY IdleIs
<1>5. ASSUME ~disturbed PROVE Patching'
  <2>1. \A d \in Slots : ~Alone(d) BY <1>4 DEF Alone
  <2>2. Patching BY <1>5, <2>1 DEF MongoCaches
  <2>3. /\ farm.store = farm.floors /\ DOMAIN farm.cache = DOMAIN farm.printers
        /\ \A d \in Slots : req[d] # Idle => req[d].op = "patch"
        /\ \A d, e \in Slots : d # e /\ req[d] # Idle /\ req[e] # Idle => req[d].ps # req[e].ps
        /\ \A d \in Slots : Answers(req[d]) => req[d].ans = FindPrinter(farm, The(req[d].ps))
        /\ \A q \in DOMAIN farm.printers :
             farm.cache[q] = farm.printers[q] \/ \E d \in Slots : Answers(req[d]) /\ req[d].ps = {q}
    BY <2>2 DEF Patching, Told, Answers
  <2>4. /\ DOMAIN s.cache = DOMAIN farm.cache
        /\ \A q \in DOMAIN farm.printers : {q} # r.ps => s.cache[q] = farm.cache[q]
        /\ \A q \in DOMAIN farm.printers : {q} = r.ps =>
             \/ Answers(r2)
             \/ s.cache[q] = s.printers[q]
             \/ ~Answers(r) /\ s.cache[q] = farm.cache[q] /\ s.printers[q] = farm.printers[q]
    BY <2>3
  <2>5. s.store = s.floors /\ DOMAIN s.cache = DOMAIN s.printers BY <1>1, <2>3, <2>4
  <2>6. \A d \in Slots : req'[d] # Idle => req[d] # Idle /\ req'[d].op = "patch" /\ req'[d].ps = req[d].ps
    BY <1>1, <1>3, <1>4, <2>3
  <2>7. \A d, e \in Slots : d # e /\ req'[d] # Idle /\ req'[e] # Idle => req'[d].ps # req'[e].ps
    BY <2>3, <2>6
  <2>8. ASSUME NEW d \in Slots, Answers(req'[d]) PROVE req'[d].ans = FindPrinter(s, The(req'[d].ps))
    <3>1. CASE d = c BY <1>3, <2>8, <3>1
    <3>2. CASE d # c
      <4>1. req'[d] = req[d] /\ req[d] # Idle /\ Legal(req[d])
        BY <2>6, <2>8, <3>2, IdleIs DEF Answers, MongoTypes
      <4>2. req[d] \in PatchSaves BY <2>8, <4>1, LegalIs DEF Answers
      <4>3. req[d].ps \in One /\ req[d].ps # r.ps
        BY <1>4, <2>3, <3>2, <4>1, <4>2, PatchSavesAre
      <4>4. {The(req[d].ps)} # r.ps BY <4>3, TheIs
      <4>5. FindPrinter(s, The(req[d].ps)) = FindPrinter(farm, The(req[d].ps))
        BY <1>1, <4>4 DEF FindPrinter
      <4>6. QED BY <2>3, <2>8, <4>1, <4>5
    <3>3. QED BY <3>1, <3>2
  <2>9. ASSUME NEW q \in DOMAIN s.printers
        PROVE  s.cache[q] = s.printers[q] \/ \E d \in Slots : Answers(req'[d]) /\ req'[d].ps = {q}
    <3>1. q \in DOMAIN farm.printers BY <1>1
    <3>2. CASE {q} = r.ps
      <4>1. CASE Answers(r2) BY <1>1, <1>3, <3>2, <4>1, IdleIs DEF Answers
      <4>2. CASE s.cache[q] = s.printers[q] BY <4>2
      <4>3. CASE ~Answers(r) /\ s.cache[q] = farm.cache[q] /\ s.printers[q] = farm.printers[q]
        <5>1. ASSUME NEW d \in Slots, Answers(req[d]) PROVE req[d].ps # {q}
          <6>1. req[d] # Idle BY <5>1, IdleIs DEF Answers
          <6>2. d # c BY <4>3, <5>1
          <6>3. req[d].ps # req[c].ps BY <1>4, <2>3, <6>1, <6>2
          <6>4. QED BY <3>2, <6>3
        <5>2. QED BY <2>3, <3>1, <4>3, <5>1
      <4>4. QED BY <2>4, <3>1, <3>2, <4>1, <4>2, <4>3
    <3>3. CASE {q} # r.ps
      <4>1. s.cache[q] = farm.cache[q] /\ s.printers[q] = farm.printers[q]
        BY <1>1, <2>4, <3>1, <3>3
      <4>2. \A d \in Slots : req[d].ps = {q} => req'[d] = req[d] BY <3>3
      <4>3. QED BY <2>3, <3>1, <4>1, <4>2
    <3>4. QED BY <3>2, <3>3
  <2>10. QED BY <1>3, <2>5, <2>6, <2>7, <2>8, <2>9 DEF Patching, Told, Answers
<1>6. MongoCaches' BY <1>3, <1>5 DEF MongoCaches
<1>7. QED BY <1>2, <1>6

\* The printer to be patched is read.
LEMMA PatchFinds1 ==
  ASSUME MongoTypes, MongoCaches, mode.db = "mongo", NEW c \in Slots,
         req[c].op = "patch", ServeFindPrinter(c)
  PROVE  MongoTypes' /\ MongoCaches'
<1> DEFINE r == req[c]
           ans == FindPrinter(farm, The(r.ps))
           r2 == AnsweredBy(r, ans)
<1>1. farm \in Farms BY DEF MongoTypes
<1>2. /\ r.cmd = "findPrinter" /\ r.ans = Pending /\ r # Idle /\ Legal(r) /\ Stepped(c, farm, r2)
      /\ \A d \in Slots : d # c => req'[d] = req[d]
  BY ServeSteps DEF ServeFindPrinter
<1>3. r \in PatchFinds BY <1>2, LegalIs
<1>4. ans \in FoundPrinter BY <1>1, FindIs DEF FoundPrinter
<1>5. /\ r2 \in PatchFinds /\ r2.op = "patch" /\ r2.cmd = "findPrinter" /\ r2.ps = r.ps
  BY <1>3, <1>4, AnsweredIs DEF PatchFinds
<1> HIDE DEF r2
<1>6. Patched(farm, r, farm, r2) BY <1>1, <1>5 DEF Patched, Legal
<1>7. ~Answers(r2) /\ ~Answers(r) BY <1>2, <1>5 DEF Answers
<1>8. r.ps \in One BY <1>3, PatchFindsAre
<1>9. QED BY <1>2, <1>6, <1>7, <1>8, PatchSteps

\* The update is executed.
LEMMA PatchServed ==
  ASSUME MongoTypes, MongoCaches, mode.db = "mongo", NEW c \in Slots, ServePatchPrinter(c)
  PROVE  MongoTypes' /\ MongoCaches'
<1> DEFINE r == req[c]
           p == The(r.ps)
           s == FindByIdAndUpdate(farm, p, r.arg.update)
           ans == FindPrinter(s, p)
           r2 == AnsweredBy(r, ans)
<1>1. farm \in Farms BY DEF MongoTypes
<1>2. /\ r.cmd = "patchPrinter" /\ r.ans = Pending /\ r # Idle /\ Legal(r) /\ Stepped(c, s, r2)
      /\ \A d \in Slots : d # c => req'[d] = req[d]
  BY ServeSteps DEF ServePatchPrinter
<1>3. r \in PatchSaves BY <1>2, AwaitedIs
<1>4. r.ps \in One /\ r.arg.update \in Patches /\ r.op = "patch" BY <1>3, PatchSavesAre
<1>5. /\ s \in Farms /\ s.cache = farm.cache /\ s.floors = farm.floors
      /\ s.store = farm.store /\ s.groups = farm.groups
      /\ DOMAIN s.printers = DOMAIN farm.printers
      /\ \A q \in DOMAIN farm.printers : q # p => s.printers[q] = farm.printers[q]
  BY <1>1, <1>4, PatchesFit, FindAndUpdateIs
<1> HIDE DEF s
<1>6. ans \in FoundPrinter BY <1>5, FindIs DEF FoundPrinter
<1>7. r2 \in PatchSaves /\ r2.op = "patch" /\ r2.cmd = "patchPrinter" /\ r2.ps = r.ps /\ r2.ans = ans
  BY <1>3, <1>6, AnsweredIs DEF PatchSaves
<1>8. ans # Pending BY <1>6, NoValues DEF FoundPrinter
<1> HIDE DEF r2
<1>9. \A q : {q} # r.ps => q # p BY <1>4, TheIs
<1>10. Patched(farm, r, s, r2) BY <1>5, <1>7, <1>9 DEF Patched, Legal
<1>11. Answers(r2) BY <1>7, <1>8 DEF Answers
<1>12. Answers(r2) => r2.ans = FindPrinter(s, The(r2.ps)) BY <1>7
<1>13. QED BY <1>2, <1>4, <1>5, <1>10, <1>11, <1>12, PatchSteps

\* A patch is answered.
LEMMA ResumePatchKeeps ==
  ASSUME MongoTypes, MongoCaches, mode.db = "mongo", NEW c \in Slots, ResumePatch(c)
  PROVE  MongoTypes' /\ MongoCaches'
<1> DEFINE r == req[c]
           p == The(r.ps)
<1>1. farm \in Farms BY DEF MongoTypes
<1>2. ~Answers(Idle) BY IdleIs DEF Answers
<1>3. CASE Answered(c, "patch", "findPrinter")
  <2>1. r.op = "patch" /\ r.cmd = "findPrinter" /\ r.ans # Pending /\ Legal(r)
    BY <1>3, AnsweredLegal
  <2>2. r \in PatchFinds BY <2>1, LegalIs
  <2>3. r.ps \in One /\ r.arg \in PatchArgs BY <2>2, PatchFindsAre
  <2>4. ~Answers(r) BY <2>1 DEF Answers
  <2>5. CASE r.ans = None
    <3>1. Finish(c, farm) BY <2>1, <2>5 DEF ResumePatch, Answered
    <3>2. Stepped(c, farm, Idle) /\ \A d \in Slots : d # c => req'[d] = req[d]
      BY <3>1, FinishSteps
    <3>3. Patched(farm, r, farm, Idle) BY <1>1, IdleIs DEF Patched
    <3>4. QED BY <1>2, <2>1, <2>3, <2>4, <3>2, <3>3, PatchSteps
  <2>6. CASE r.ans # None
    <3> DEFINE arg == r.arg
               r2 == NextOf(r, "patchPrinter", arg)
    <3>1. Await(c, farm, "patchPrinter", r.arg) BY <2>1, <2>6 DEF ResumePatch, Answered
    <3>2. Stepped(c, farm, r2) /\ \A d \in Slots : d # c => req'[d] = req[d]
      BY <3>1, AwaitSteps
    <3>3. arg \in PatchArgs BY <2>3
    <3> HIDE DEF arg
    <3>4. r2 \in PatchSaves /\ r2.op = "patch" /\ r2.cmd = "patchPrinter" /\ r2.ps = r.ps /\ r2.ans = Pending
      BY <2>2, <3>3, NextIs DEF PatchFinds, PatchSaves
    <3> HIDE DEF r2
    <3>5. Patched(farm, r, farm, r2) BY <1>1, <3>4 DEF Patched, Legal
    <3>6. ~Answers(r2) BY <3>4 DEF Answers
    <3>7. QED BY <2>1, <2>3, <2>4, <3>2, <3>5, <3>6, PatchSteps
  <2>7. QED BY <2>5, <2>6
<1>4. CASE Answered(c, "patch", "patchPrinter")
  <2> DEFINE s == HandlePrinterCreatedOrUpdated(farm, p, r.ans)
  <2>1. r.op = "patch" /\ r.cmd = "patchPrinter" /\ r.ans # Pending /\ Legal(r)
    BY <1>4, AnsweredLegal
  <2>2. r \in PatchSaves BY <2>1, LegalIs
  <2>3. r.ps \in One /\ r.ans \in Printer \cup {None} BY <2>1, <2>2, PatchSavesAre
  <2>4. p \in PrinterIds /\ \A q : {q} # r.ps <=> q # p BY <2>3, TheIs
  <2>5. Finish(c, s) BY <2>1 DEF ResumePatch, Answered
  <2>6. Stepped(c, s, Idle) /\ \A d \in Slots : d # c => req'[d] = req[d]
    BY <2>5, FinishSteps
  <2>7. /\ s \in Farms /\ s.printers = farm.printers /\ s.floors = farm.floors
        /\ s.store = farm.store /\ s.groups = farm.groups
        /\ s.cache = IF r.ans = None THEN farm.cache ELSE Put(farm.cache, p, r.ans)
    <3>1. CASE r.ans = None BY <1>1, <3>1 DEF HandlePrinterCreatedOrUpdated
    <3>2. CASE r.ans # None
      <4>1. r.ans \in Printer BY <2>3, <3>2
      <4>2. /\ s \in Farms /\ s.cache = Put(farm.cache, p, r.ans)
            /\ s.printers = farm.printers /\ s.floors = farm.floors
            /\ s.store = farm.store /\ s.groups = farm.groups
        BY <1>1, <2>4, <4>1, ToldIs
      <4>3. QED BY <3>2, <4>2
    <3>3. QED BY <3>1, <3>2
  <2> HIDE DEF s
  <2>8. Patched(farm, r, s, Idle) BY <2>7, IdleIs DEF Patched
  <2>9. ASSUME DOMAIN farm.cache = DOMAIN farm.printers, r.ans = FindPrinter(farm, p)
        PROVE  /\ DOMAIN s.cache = DOMAIN farm.cache
               /\ \A q \in DOMAIN farm.printers : q # p => s.cache[q] = farm.cache[q]
               /\ p \in DOMAIN farm.printers => s.cache[p] = s.printers[p]
    <3>1. CASE p \in DOMAIN farm.printers
      <4>1. r.ans = farm.printers[p] /\ r.ans # None
        BY <1>1, <2>9, <3>1, FindIs DEF FindPrinter
      <4>2. QED BY <2>7, <2>9, <3>1, <4>1 DEF Put
    <3>2. CASE p \notin DOMAIN farm.printers BY <2>7, <2>9, <3>2 DEF FindPrinter
    <3>3. QED BY <3>1, <3>2
  <2>10. Answers(r) BY <2>1 DEF Answers
  <2>11. DOMAIN farm.cache = DOMAIN farm.printers /\ (Answers(r) => r.ans = FindPrinter(farm, The(r.ps)))
           => /\ DOMAIN s.cache = DOMAIN farm.cache
              /\ \A q \in DOMAIN farm.printers : {q} # r.ps => s.cache[q] = farm.cache[q]
              /\ \A q \in DOMAIN farm.printers : {q} = r.ps => s.cache[q] = s.printers[q]
    BY <2>4, <2>9, <2>10
  <2>12. QED BY <1>2, <2>1, <2>3, <2>6, <2>8, <2>11, PatchSteps
<1>5. QED BY <1>3, <1>4 DEF ResumePatch

---------------------------------------------------------------------------
(* Requests arrive                                                         *)

\* When nothing is in flight the caches hold what the database holds.
LEMMA QuietStill ==
  ASSUME MongoTypes, MongoCaches, mode.db = "mongo", AllIdle, ~disturbed
  PROVE  Still(farm) /\ Patching
<1>1. Patching
  <2>1. \A c \in Slots : ~Alone(c) BY DEF Alone, AllIdle
  <2>2. QED BY <2>1 DEF MongoCaches
<1>2. \A c \in Slots : ~Told(c) BY IdleIs DEF Told, AllIdle
<1>3. DOMAIN farm.cache = DOMAIN farm.printers /\ \A p \in DOMAIN farm.printers : farm.cache[p] = farm.printers[p]
  BY <1>1, <1>2 DEF Patching
<1>4. farm.cache \in Table(PrinterIds, Printer) /\ farm.printers \in Table(PrinterIds, Printer)
  BY FarmTables DEF MongoTypes, Printers
<1>5. farm.cache = farm.printers BY <1>3, <1>4, SameTable
<1>6. QED BY <1>1, <1>5 DEF Still, Patching

\* A request in its slot.
LEMMA StartIs ==
  ASSUME MongoTypes, NEW c \in Slots, NEW op, NEW ps, NEW f, NEW arg, NEW cmd, Start(c, op, ps, f, arg, cmd),
         NEW r2, r2 = Sent(op, ps, f, arg, cmd)
  PROVE  /\ mode.db = "mongo" /\ req[c] = Idle /\ op \in mode.ops /\ Admitted(op, ps, f)
         /\ req' = [d \in Slots |-> req'[d]] /\ req'[c] = r2
         /\ \A d \in Slots : d # c => req'[d] = req[d]
         /\ disturbed' = (disturbed \/ ~AllIdle)
         /\ UNCHANGED <<mode, farm, placed>>
<1>1. /\ mode.db = "mongo" /\ req[c] = Idle /\ op \in mode.ops /\ Admitted(op, ps, f)
      /\ disturbed' = (disturbed \/ ~AllIdle)
      /\ UNCHANGED <<mode, farm, placed>>
      /\ req' = [req EXCEPT ![c] = r2]
  BY DEF Start
<1>2. req = [d \in Slots |-> req[d]] BY <1>1 DEF MongoTypes
<1>3. QED BY <1>1, <1>2

\* A request that is no patch arrives.
LEMMA StartKeeps ==
  ASSUME MongoTypes, MongoCaches, NEW c \in Slots,
         NEW op, NEW ps, NEW f, NEW arg, NEW cmd, Start(c, op, ps, f, arg, cmd),
         NEW r2, r2 = Sent(op, ps, f, arg, cmd), Legal(r2), op \notin {"idle", "patch"}, Still(farm) => Owes(farm, r2)
  PROVE  MongoTypes' /\ MongoCaches'
<1>1. /\ mode.db = "mongo" /\ req[c] = Idle
      /\ req' = [d \in Slots |-> req'[d]] /\ req'[c] = r2
      /\ \A d \in Slots : d # c => req'[d] = req[d]
      /\ disturbed' = (disturbed \/ ~AllIdle)
      /\ UNCHANGED <<mode, farm, placed>>
  BY StartIs
<1>2. MongoTypes' BY <1>1 DEF MongoTypes
<1>3. r2.op = op BY DEF Sent
<1>4. ASSUME ~disturbed' PROVE Alone(c)' /\ Owes(farm, req[c])'
  <2>1. AllIdle /\ ~disturbed BY <1>1, <1>4
  <2>2. Still(farm) BY <1>1, <2>1, QuietStill
  <2>3. Alone(c)' BY <1>1, <1>3, <2>1, IdleIs DEF Alone, AllIdle
  <2>4. QED BY <1>1, <2>2, <2>3
<1>5. QED BY <1>2, <1>4 DEF MongoCaches

\* What a request owes when it arrives.
LEMMA ArrivedOwes ==
  ASSUME NEW s \in Farms, Still(s), NEW r, r.ans = Pending, ~r.stale,
         r.cmd \in {"findPrinter", "deletePrinters", "listFloors", "insertFloor", "findFloor"}
  PROVE  Owes(s, r)
<1>1. /\ FindOwes(s, r) /\ DeleteOwes(s, r) /\ ListOwes(s, r) /\ NewFloorOwes(s, r) /\ FindFloorOwes(s, r)
  BY DEF Still, FindOwes, DeleteOwes, ListOwes, NewFloorOwes, FindFloorOwes, Changed
<1>2. QED BY <1>1, OwesIs

\* The requests for printers, ...
LEMMA StartPrinters ==
  ASSUME MongoTypes, MongoCaches, ModeInv, mode.db = "mongo", NEW c \in Slots,
         StartCreate(c) \/ StartUpdate(c) \/ StartDelete(c) \/ StartDeleteAll(c)
  PROVE  MongoTypes' /\ MongoCaches'
<1>1. farm \in Farms /\ mode.conns \subseteq Conns BY ModeIs DEF MongoTypes
<1>2. InScope(farm) \subseteq PrinterIds /\ DOMAIN farm.cache \subseteq PrinterIds
  BY <1>1, FarmTables DEF InScope
<1>3. CASE StartCreate(c)
  <2>1. PICK ps \in SUBSET PrinterIds, conn \in mode.conns :
          Start(c, "create", ps, None, [conn |-> conn, todo |-> ps], "insertPrinter")
    BY <1>3 DEF StartCreate
  <2> DEFINE arg == [conn |-> conn, todo |-> ps]
             r2 == Sent("create", ps, None, arg, "insertPrinter")
  <2>2. arg \in CreateArgs /\ arg.todo = ps /\ arg.conn = conn BY <1>1 DEF CreateArgs
  <2>3. Start(c, "create", ps, None, arg, "insertPrinter") BY <2>1
  <2> HIDE DEF arg
  <2>4. /\ r2 \in Creates /\ r2.op = "create" /\ r2.cmd = "insertPrinter" /\ r2.ps = ps /\ r2.arg = arg
        /\ r2.ans = Pending /\ r2.stale = FALSE
    <3>1. r2 \in Creates BY <2>2 DEF Creates, Request, Sent
    <3>2. QED BY <3>1 DEF Sent
  <2>5. r2 = Sent("create", ps, None, arg, "insertPrinter") OBVIOUS
  <2> HIDE DEF r2
  <2>6. Legal(r2) BY <2>2, <2>4 DEF Legal
  <2>7. ASSUME Still(farm) PROVE Owes(farm, r2)
    <3>1. Inserted(r2) = {} BY <2>2, <2>4 DEF Inserted
    <3>2. farm.cache = [p \in DOMAIN farm.cache |-> farm.cache[p]]
      BY <1>1, FarmTables, TableIs DEF Printers
    <3>3. Overlaid([p \in {} |-> NewPrinter(r2.arg.conn)], farm.cache) = farm.cache
      BY <3>2 DEF Overlaid
    <3>4. CreateOwes(farm, r2) BY <2>7, <3>1, <3>3 DEF CreateOwes, Still
    <3>5. QED BY <2>4, <3>4, OwesIs
  <2>8. QED BY <2>3, <2>5, <2>6, <2>7, StartKeeps
<1>4. ASSUME NEW op, NEW ps, NEW arg, NEW cmd, Start(c, op, ps, None, arg, cmd), op \notin {"idle", "patch"},
             cmd \in {"findPrinter", "deletePrinters"},
             NEW r2, r2 = Sent(op, ps, None, arg, cmd), r2 \in UpdateFinds \/ r2 \in Deletes \/ r2 \in DeleteAlls
      PROVE  MongoTypes' /\ MongoCaches'
  <2>1. r2.op = op /\ r2.cmd = cmd /\ r2.ans = Pending /\ r2.stale = FALSE BY <1>4 DEF Sent
  <2>2. Legal(r2) BY <1>4 DEF Legal
  <2>3. Still(farm) => Owes(farm, r2) BY <1>1, <1>4, <2>1, ArrivedOwes
  <2>4. QED BY <1>4, <2>2, <2>3, StartKeeps
<1>5. CASE StartUpdate(c)
  <2>1. PICK p \in InScope(farm), body \in UpdateBodies(mode.conns) :
          Start(c, "update", {p}, None, [body |-> body, read |-> None, doc |-> None], "findPrinter")
    BY <1>5 DEF StartUpdate
  <2> DEFINE arg == [body |-> body, read |-> None, doc |-> None]
             r2 == Sent("update", {p}, None, arg, "findPrinter")
  <2>2. body \in Updates BY <1>1 DEF Updates, UpdateBodies
  <2>3. arg \in UpdateFindArgs /\ {p} \in One BY <1>2, <2>2 DEF UpdateFindArgs, One
  <2>4. Start(c, "update", {p}, None, arg, "findPrinter") BY <2>1
  <2> HIDE DEF arg
  <2>5. r2 \in UpdateFinds BY <2>3, SentIn DEF UpdateFinds
  <2>6. QED BY <1>4, <2>4, <2>5
<1>6. CASE StartDelete(c)
  <2>1. PICK p \in InScope(farm) : Start(c, "delete", {p}, None, None, "deletePrinters")
    BY <1>6 DEF StartDelete
  <2>2. {p} \in One BY <1>2 DEF One
  <2>3. Sent("delete", {p}, None, None, "deletePrinters") \in Deletes
    BY <2>2 DEF Sent, Request, Deletes
  <2>4. QED BY <1>4, <2>1, <2>3
<1>7. CASE StartDeleteAll(c)
  <2>1. Start(c, "deleteAll", DOMAIN farm.cache, None, None, "deletePrinters")
    BY <1>7 DEF StartDeleteAll
  <2>2. Sent("deleteAll", DOMAIN farm.cache, None, None, "deletePrinters") \in DeleteAlls
    BY <1>2 DEF Sent, Request, DeleteAlls
  <2>3. QED BY <1>4, <2>1, <2>2
<1>8. QED BY <1>3, <1>5, <1>6, <1>7

\* ... and for floors.
LEMMA StartFloors ==
  ASSUME MongoTypes, MongoCaches, ModeInv, mode.db = "mongo", NEW c \in Slots,
         \/ StartCreateFloor(c) \/ StartDeleteFloor(c) \/ StartUpdateFloor(c)
         \/ StartPlace(c) \/ StartRemove(c) \/ StartListFloors(c)
  PROVE  MongoTypes' /\ MongoCaches'
<1>1. farm \in Farms /\ mode.names \subseteq FloorNames BY ModeIs DEF MongoTypes
<1>2. DOMAIN farm.store \subseteq FloorIds BY <1>1, FarmTables
<1>3. ASSUME NEW op, NEW ps, NEW f, NEW arg, NEW cmd, Start(c, op, ps, f, arg, cmd), op \notin {"idle", "patch"},
             cmd \in {"insertFloor", "findFloor", "listFloors"},
             NEW r2, r2 = Sent(op, ps, f, arg, cmd),
             \/ r2 \in FloorInserts \/ r2 \in DeleteFloorFinds \/ r2 \in TitleFinds
             \/ r2 \in PlaceFinds \/ r2 \in RemoveFinds \/ r2 \in Lists
      PROVE  MongoTypes' /\ MongoCaches'
  <2>1. r2.op = op /\ r2.cmd = cmd /\ r2.ans = Pending /\ r2.stale = FALSE BY <1>3 DEF Sent
  <2>2. Legal(r2) BY <1>3 DEF Legal
  <2>3. Still(farm) => Owes(farm, r2) BY <1>1, <1>3, <2>1, ArrivedOwes
  <2>4. QED BY <1>3, <2>2, <2>3, StartKeeps
<1>4. CASE StartCreateFloor(c)
  <2>1. PICK f \in FloorIds, name \in mode.names, level \in Levels, places \in mode.layouts :
          Start(c, "createFloor", {}, f, NewFloor(name, level, places), "insertFloor")
    BY <1>4 DEF StartCreateFloor
  <2> DEFINE arg == NewFloor(name, level, places)
  <2>2. arg \in Floor BY <1>1, ModeIs DEF NewFloor, Floor
  <2>3. Start(c, "createFloor", {}, f, arg, "insertFloor") BY <2>1
  <2> HIDE DEF arg
  <2>4. Sent("createFloor", {}, f, arg, "insertFloor") \in FloorInserts
    BY <2>2, SentIn DEF FloorInserts
  <2>5. QED BY <1>3, <2>3, <2>4
<1>5. CASE StartDeleteFloor(c)
  <2>1. PICK f \in DOMAIN farm.store : Start(c, "deleteFloor", {}, f, None, "findFloor")
    BY <1>5 DEF StartDeleteFloor
  <2>2. Sent("deleteFloor", {}, f, None, "findFloor") \in DeleteFloorFinds
    BY <1>2, SentIn DEF DeleteFloorFinds
  <2>3. QED BY <1>3, <2>1, <2>2
<1>6. CASE StartUpdateFloor(c)
  <2>1. PICK f \in DOMAIN farm.store : \E update \in [name: mode.names] \cup [level: Levels] :
          Start(c, "updateFloor", {}, f, [update |-> update, doc |-> None], "findFloor")
    BY <1>6 DEF StartUpdateFloor
  <2>2. PICK update \in [name: mode.names] \cup [level: Levels] :
          Start(c, "updateFloor", {}, f, [update |-> update, doc |-> None], "findFloor")
    BY <2>1
  <2> DEFINE arg == [update |-> update, doc |-> None]
  <2>3. update \in Titles BY <1>1 DEF Titles
  <2>4. arg \in TitleFindArgs BY <2>3 DEF TitleFindArgs
  <2>5. Start(c, "updateFloor", {}, f, arg, "findFloor") BY <2>2
  <2> HIDE DEF arg
  <2>6. Sent("updateFloor", {}, f, arg, "findFloor") \in TitleFinds
    BY <1>2, <2>4, SentIn DEF TitleFinds
  <2>7. QED BY <1>3, <2>5, <2>6
<1>7. CASE StartPlace(c)
  <2>1. PICK f \in DOMAIN farm.store, p \in PrinterIds, cell \in Cells :
          Start(c, "place", {p}, f, [cell |-> cell, read |-> None, doc |-> None], "findFloor")
    BY <1>7 DEF StartPlace
  <2> DEFINE arg == [cell |-> cell, read |-> None, doc |-> None]
  <2>2. arg \in PlaceFindArgs /\ {p} \in One BY DEF PlaceFindArgs, One
  <2>3. Start(c, "place", {p}, f, arg, "findFloor") BY <2>1
  <2> HIDE DEF arg
  <2>4. Sent("place", {p}, f, arg, "findFloor") \in PlaceFinds
    BY <1>2, <2>2, SentIn DEF PlaceFinds
  <2>5. QED BY <1>3, <2>3, <2>4
<1>8. CASE StartRemove(c)
  <2>1. PICK f \in DOMAIN farm.store, p \in PrinterIds :
          Start(c, "remove", {p}, f, [cell |-> None, read |-> None, doc |-> None], "findFloor")
    BY <1>8 DEF StartRemove
  <2> DEFINE arg == [cell |-> None, read |-> None, doc |-> None]
  <2>2. arg \in RemoveFindArgs /\ {p} \in One BY DEF RemoveFindArgs, One
  <2>3. Start(c, "remove", {p}, f, arg, "findFloor") BY <2>1
  <2> HIDE DEF arg
  <2>4. Sent("remove", {p}, f, arg, "findFloor") \in RemoveFinds
    BY <1>2, <2>2, SentIn DEF RemoveFinds
  <2>5. QED BY <1>3, <2>3, <2>4
<1>9. CASE StartListFloors(c)
  <2>1. Start(c, "list", {}, None, None, "listFloors") BY <1>9 DEF StartListFloors
  <2>2. Sent("list", {}, None, None, "listFloors") \in Lists BY SentIn DEF Lists
  <2>3. QED BY <1>3, <2>1, <2>2
<1>10. QED BY <1>4, <1>5, <1>6, <1>7, <1>8, <1>9

\* Patches arrive when nothing is in flight.
LEMMA PatchesArrive ==
  ASSUME MongoTypes, MongoCaches, mode.db = "mongo",
         NEW News \in SUBSET Slots, UNCHANGED <<mode, farm, placed>>,
         req' = [d \in Slots |-> req'[d]],
         \A d \in News : req'[d] \in PatchFinds /\ req'[d].ans = Pending,
         \A d \in Slots \ News : req'[d] = req[d],
         \A d, e \in News : d # e => req'[d].ps # req'[e].ps,
         disturbed' = (disturbed \/ ~AllIdle)
  PROVE  MongoTypes' /\ MongoCaches'
<1>1. \A d \in Slots : Legal(req[d]) BY DEF MongoTypes
<1>2. \A d \in News : Legal(req'[d]) /\ req'[d].op = "patch" /\ req'[d].cmd = "findPrinter"
  BY Kinds DEF Legal
<1>3. \A d \in Slots : Legal(req'[d]) BY <1>1, <1>2
<1>4. MongoTypes' BY <1>3 DEF MongoTypes
<1>5. ASSUME ~disturbed' PROVE Patching'
  <2>1. AllIdle /\ ~disturbed BY <1>5
  <2>2. Still(farm) BY <2>1, QuietStill
  <2>3. \A d \in Slots : req'[d] # Idle => d \in News BY <2>1 DEF AllIdle
  <2>4. \A d \in Slots : req'[d] # Idle => req'[d].op = "patch" BY <1>2, <2>3
  <2>5. \A d, e \in Slots : d # e /\ req'[d] # Idle /\ req'[e] # Idle => req'[d].ps # req'[e].ps
    BY <2>3
  <2>6. \A d \in Slots : ~Told(d)'
    <3>1. \A d \in Slots : req'[d] = Idle \/ d \in News BY <2>3
    <3>2. \A d \in Slots : req'[d].op # "patch" \/ req'[d].ans = Pending BY <3>1, IdleIs
    <3>3. QED BY <3>2 DEF Told
  <2>7. QED BY <2>2, <2>4, <2>5, <2>6 DEF Patching, Still
<1>6. QED BY <1>4, <1>5 DEF MongoCaches

\* One patch, ...
LEMMA StartPatchKeeps ==
  ASSUME MongoTypes, MongoCaches, ModeInv, mode.db = "mongo", NEW c \in Slots, StartPatch(c)
  PROVE  MongoTypes' /\ MongoCaches'
<1>1. farm \in Farms /\ mode.conns \subseteq Conns BY ModeIs DEF MongoTypes
<1>2. InScope(farm) \subseteq PrinterIds BY <1>1, FarmTables DEF InScope
<1>3. PICK p \in InScope(farm), update \in PatchUpdates :
        Start(c, "patch", {p}, None, [update |-> update], "findPrinter")
  BY DEF StartPatch
<1> DEFINE arg == [update |-> update]
           r2 == Sent("patch", {p}, None, arg, "findPrinter")
<1>4. update \in Patches BY <1>1 DEF PatchUpdates, Patches
<1>5. arg \in PatchArgs /\ {p} \in One BY <1>2, <1>4 DEF PatchArgs, One
<1>6. Start(c, "patch", {p}, None, arg, "findPrinter") BY <1>3
<1> HIDE DEF arg
<1>7. r2 \in PatchFinds BY <1>5, SentIn DEF PatchFinds
<1>8. r2.ans = Pending BY DEF Sent
<1>9. /\ req' = [d \in Slots |-> req'[d]] /\ req'[c] = r2
      /\ \A d \in Slots : d # c => req'[d] = req[d]
      /\ disturbed' = (disturbed \/ ~AllIdle)
      /\ UNCHANGED <<mode, farm, placed>>
  BY <1>6, StartIs
<1> HIDE DEF r2
<1>10. {c} \in SUBSET Slots OBVIOUS
<1>11. \A d \in {c} : req'[d] \in PatchFinds /\ req'[d].ans = Pending BY <1>7, <1>8, <1>9
<1>12. \A d, e \in {c} : d # e => req'[d].ps # req'[e].ps OBVIOUS
<1>13. \A d \in Slots \ {c} : req'[d] = req[d] BY <1>9
<1>14. QED BY <1>9, <1>10, <1>11, <1>12, <1>13, PatchesArrive

\* ... or all of a batch.
LEMMA StartBatchKeeps ==
  ASSUME MongoTypes, MongoCaches, mode.db = "mongo", StartBatch
  PROVE  MongoTypes' /\ MongoCaches'
<1>1. farm \in Farms BY DEF MongoTypes
<1>2. PICK ps \in SUBSET PrinterIds, enabled \in BOOLEAN :
        LET toggled == Toggled(farm, ps, enabled)
            update(p) == Sent("patch", {p}, None, [update |-> EnabledUpdate(enabled)], "findPrinter")
        IN  /\ \E slot \in Injection(toggled, {c \in Slots : req[c] = Idle}) :
                 req' = [c \in Slots |-> IF c \in Range(slot)
                           THEN update(CHOOSE p \in toggled : slot[p] = c) ELSE req[c]]
            /\ disturbed' = (disturbed \/ ~AllIdle)
            /\ UNCHANGED <<mode, farm, placed>>
  BY DEF StartBatch
<1> DEFINE toggled == Toggled(farm, ps, enabled)
           arg == [update |-> EnabledUpdate(enabled)]
           update(p) == Sent("patch", {p}, None, arg, "findPrinter")
<1>3. /\ \E slot \in Injection(toggled, {c \in Slots : req[c] = Idle}) :
           req' = [c \in Slots |-> IF c \in Range(slot)
                     THEN update(CHOOSE p \in toggled : slot[p] = c) ELSE req[c]]
      /\ disturbed' = (disturbed \/ ~AllIdle)
      /\ UNCHANGED <<mode, farm, placed>>
  BY <1>2
<1>4. toggled \subseteq PrinterIds BY <1>1, FarmTables DEF Toggled
<1>5. arg \in PatchArgs BY DEF PatchArgs, Patches
<1> HIDE DEF toggled, arg
<1>6. PICK slot \in Injection(toggled, {c \in Slots : req[c] = Idle}) :
        req' = [c \in Slots |-> IF c \in Range(slot)
                  THEN update(CHOOSE p \in toggled : slot[p] = c) ELSE req[c]]
  BY <1>3
<1>7. slot \in [toggled -> {c \in Slots : req[c] = Idle}] BY DEF Injection
<1> DEFINE News == Range(slot)
           of(d) == CHOOSE p \in toggled : slot[p] = d
<1>8. News \in SUBSET Slots BY <1>7 DEF Range
<1>9. \A d \in News : of(d) \in toggled /\ slot[of(d)] = d BY <1>7 DEF Range
<1>10. req' = [c \in Slots |-> IF c \in News THEN update(of(c)) ELSE req[c]] BY <1>6
<1> HIDE DEF News, of
<1>11. \A d \in News : req'[d] = update(of(d)) BY <1>8, <1>10
<1>12. \A d \in Slots \ News : req'[d] = req[d] BY <1>10
<1>13. req' = [c \in Slots |-> req'[c]] BY <1>10
<1>14. ASSUME NEW p \in toggled PROVE update(p) \in PatchFinds /\ update(p).ans = Pending /\ update(p).ps = {p}
  <2>1. {p} \in One BY <1>4 DEF One
  <2>2. update(p) \in PatchFinds BY <1>5, <2>1, SentIn DEF PatchFinds
  <2>3. QED BY <2>2 DEF Sent
<1> HIDE DEF update
<1>15. \A d \in News : req'[d] \in PatchFinds /\ req'[d].ans = Pending BY <1>9, <1>11, <1>14
<1>16. \A d, e \in News : d # e => req'[d].ps # req'[e].ps
  <2>1. \A d \in News : req'[d].ps = {of(d)} /\ slot[of(d)] = d BY <1>9, <1>11, <1>14
  <2>2. QED BY <2>1
<1>17. QED BY <1>3, <1>8, <1>12, <1>13, <1>15, <1>16, PatchesArrive

\* All steps with MongoDB.
LEMMA MongoNextKeeps ==
  ASSUME MongoTypes, MongoCaches, ModeInv, mode.db = "mongo", MongoNext
  PROVE  MongoTypes' /\ MongoCaches'
<1>1. ASSUME NEW c \in Slots, Arrive(c)
      PROVE  MongoTypes' /\ MongoCaches'
  BY <1>1, StartPrinters, StartFloors, StartPatchKeeps DEF Arrive
<1>2. ASSUME NEW c \in Slots, Database(c)
      PROVE  MongoTypes' /\ MongoCaches'
  <2>1. CASE ServeFindPrinter(c) /\ req[c].op = "patch" BY <2>1, PatchFinds1
  <2>2. CASE ServeFindPrinter(c) /\ req[c].op # "patch" BY <2>2, ServePrinters
  <2>3. CASE ServeInsertPrinter(c) \/ ServeSavePrinter(c) \/ ServeDeletePrinters(c) \/ ServePull(c)
    <3>1. req[c].ans = Pending /\ req[c].cmd \in {"insertPrinter", "savePrinter", "deletePrinters", "pull"}
      BY <2>3 DEF Serve, ServeInsertPrinter, ServeSavePrinter, ServeDeletePrinters, ServePull
    <3>2. req[c] # Idle /\ Legal(req[c]) BY <3>1, IdleIs DEF MongoTypes
    <3>3. req[c].op # "patch" BY <3>1, <3>2, AwaitedIs, Kinds
    <3>4. QED BY <2>3, <3>3, ServePrinters
  <2>4. CASE ServePatchPrinter(c) BY <2>4, PatchServed
  <2>5. CASE ServeSavePlaces(c) BY <2>5, ServeSavePlacesKeeps
  <2>6. QED BY <1>2, <2>1, <2>2, <2>3, <2>4, <2>5, ServeFloors DEF Database
<1>3. ASSUME NEW c \in Slots, Resume(c)
      PROVE  MongoTypes' /\ MongoCaches'
  BY <1>3, ResumePrinters, ResumePatchKeeps, ResumeNewFloors, ResumeFloors DEF Resume
<1>4. QED BY <1>1, <1>2, <1>3, StartBatchKeeps DEF MongoNext

---------------------------------------------------------------------------
(* The invariant                                                           *)

\* What holds of the farm and its caches with either database.
CacheInv == ModeInv /\ SqlInv /\ MongoTypes /\ MongoCaches

\* The order of the rows.
LEMMA RowOrdersAre ==
  ASSUME NEW order \in RowOrders
  PROVE  order \in Orders /\ ("import" \in mode.ops => DOMAIN order = PrinterIds \cup FloorIds)
<1>1. CASE "import" \notin mode.ops
  <2>1. order = <<>> BY <1>1 DEF RowOrders
  <2>2. QED BY <1>1, <2>1, EmptyTable DEF Orders
<1>2. CASE "import" \in mode.ops
  <2>1. PICK printers \in Bijection(PrinterIds, 1..Cardinality(PrinterIds)),
             floors \in Bijection(FloorIds, 1..Cardinality(FloorIds)) :
          order = Overlaid(printers, floors)
    BY <1>2 DEF RowOrders
  <2>2. /\ printers \in [PrinterIds -> 1..Cardinality(PrinterIds)]
        /\ floors \in [FloorIds -> 1..Cardinality(FloorIds)]
    BY DEF Bijection, Injection
  <2>3. \A n \in Nat : 1..n \subseteq Nat OBVIOUS
  <2>4. Cardinality(PrinterIds) \in Nat /\ Cardinality(FloorIds) \in Nat
    BY IdsOfRows, FS_CardinalityType
  <2>5. 1..Cardinality(PrinterIds) \subseteq Nat /\ 1..Cardinality(FloorIds) \subseteq Nat
    BY <2>3, <2>4
  <2>6. printers \in [PrinterIds -> Nat] /\ floors \in [FloorIds -> Nat] BY <2>2, <2>5
  <2>7. printers \in Orders /\ floors \in Orders /\ DOMAIN printers = PrinterIds /\ DOMAIN floors = FloorIds
    <3>1. /\ printers = [x \in DOMAIN printers |-> printers[x]] /\ DOMAIN printers = PrinterIds
          /\ \A x \in DOMAIN printers : printers[x] \in Nat
      BY <2>6
    <3>2. /\ floors = [x \in DOMAIN floors |-> floors[x]] /\ DOMAIN floors = FloorIds
          /\ \A x \in DOMAIN floors : floors[x] \in Nat
      BY <2>6
    <3>3. DOMAIN printers \subseteq PrinterIds \cup FloorIds /\ DOMAIN floors \subseteq PrinterIds \cup FloorIds
      BY <3>1, <3>2
    <3>4. QED BY <3>1, <3>2, <3>3, TableIs DEF Orders
  <2>8. Overlaid(printers, floors) \in Orders BY <2>7, OverlaidTable DEF Orders
  <2>9. DOMAIN Overlaid(printers, floors) = PrinterIds \cup FloorIds BY <2>7 DEF Overlaid
  <2>10. QED BY <2>1, <2>8, <2>9
<1>3. QED BY <1>1, <1>2

\* A database without rows.
LEMMA EmptyIs ==
  ASSUME NEW order \in Orders, NEW s, s = EmptyFarm(order)
  PROVE  /\ Sound(s) /\ s.floors = <<>> /\ DOMAIN s.floors = {} /\ s.groups = <<>> /\ s.order = order
<1>1. /\ s.printers = <<>> /\ s.cache = <<>> /\ s.floors = <<>> /\ s.store = <<>>
      /\ s.groups = <<>> /\ s.order = order
  BY DEF EmptyFarm
<1>2. <<>> \in Printers /\ <<>> \in FloorRows /\ <<>> \in GroupRows /\ DOMAIN <<>> = {}
  BY EmptyTable DEF Printers, FloorRows, GroupRows
<1>3. s \in Farms BY <1>2 DEF EmptyFarm, Farms
<1>4. QED
  BY <1>1, <1>2, <1>3 DEF Sound, OnePlaceOn, LevelsDiffer, PlacesKnown, GroupsKnown, CacheFollows

\* A new process whose caches hold the database, with nothing in flight.
LEMMA StillInv ==
  ASSUME farm \in Farms, Still(farm), farm.groups = <<>>, placed = None, req = [c \in Slots |-> Idle]
  PROVE  MongoTypes /\ MongoCaches
<1>1. req = [c \in Slots |-> req[c]] /\ \A c \in Slots : req[c] = Idle OBVIOUS
<1>2. MongoTypes BY <1>1, IdleIs DEF MongoTypes
<1>3. \A c \in Slots : ~Told(c) BY <1>1, IdleIs DEF Told
<1>4. Patching BY <1>1, <1>3 DEF Patching, Still
<1>5. QED BY <1>2, <1>4 DEF MongoCaches

LEMMA FarmInit ==
  ASSUME Init
  PROVE  CacheInv
<1>1. /\ mode \in Clients /\ req = [c \in Slots |-> Idle] /\ disturbed = FALSE /\ placed = None
  BY DEF Init
<1>2. PICK f \in FloorIds, order \in RowOrders :
        farm = Booted(InsertFloor(EmptyFarm(order), f, DefaultName, DefaultLevel, {}))
  BY DEF Init
<1> DEFINE e == EmptyFarm(order)
           s == InsertFloor(e, f, DefaultName, DefaultLevel, {})
<1>3. order \in Orders /\ ("import" \in mode.ops => DOMAIN order = PrinterIds \cup FloorIds)
  BY RowOrdersAre
<1>4. Sound(e) /\ DOMAIN e.floors = {} /\ e.groups = <<>> /\ e.order = order
  BY <1>3, EmptyIs
<1> HIDE DEF e
<1>5. ~LevelTaken(e, DefaultLevel) BY <1>4 DEF LevelTaken
<1>6. s = AddFloor(e, f, NewFloor(DefaultName, DefaultLevel, {})) BY <1>5 DEF InsertFloor
<1>7. DefaultName \in FloorNames /\ DefaultLevel \in Levels
  BY WhatClientsSend DEF DefaultName, DefaultLevel
<1> HIDE DEF s
<1>8. Sound(s) /\ s.groups = <<>> /\ s.order = order BY <1>4, <1>5, <1>6, <1>7, AddFloorIs
<1>9. farm = Booted(s) BY <1>2 DEF e, s
<1>10. Tidy(farm) /\ StoreFollows(farm) /\ farm.order = order BY <1>8, <1>9, BootedTidy
<1>11. farm \in Farms /\ farm.groups = <<>> /\ Still(farm)
  <2>1. s \in Farms BY <1>8 DEF Sound
  <2>2. QED BY <1>8, <1>9, <2>1, BootedIs DEF Still
<1>12. SqlInv BY <1>1, <1>3, <1>10 DEF SqlInv, Ordered
<1>13. MongoTypes /\ MongoCaches BY <1>1, <1>11, StillInv
<1>14. QED BY <1>1, <1>12, <1>13 DEF CacheInv, ModeInv

LEMMA RestartKeeps ==
  ASSUME CacheInv, Restart
  PROVE  CacheInv'
<1>1. /\ farm' = Booted(farm) /\ req' = [c \in Slots |-> Idle] /\ disturbed' = FALSE /\ placed' = None
      /\ mode' = mode /\ ModeInv
  BY DEF Restart, CacheInv
<1>2. ModeInv' BY <1>1 DEF ModeInv
<1>3. mode.db \in {"sqlite", "mongo"} BY <1>1, ModeIs
<1>4. CASE mode.db = "sqlite"
  <2>1. Tidy(farm) /\ ("import" \in mode.ops => Ordered(farm)) BY <1>4 DEF CacheInv, SqlInv
  <2>2. Tidy(farm') /\ StoreFollows(farm') /\ farm'.order = farm.order
    BY <1>1, <2>1, BootedTidy DEF Tidy
  <2>3. SqlInv' BY <1>1, <2>1, <2>2 DEF SqlInv, Ordered
  <2>4. QED BY <1>1, <1>2, <1>4, <2>3 DEF CacheInv, MongoTypes, MongoCaches
<1>5. CASE mode.db = "mongo"
  <2>1. farm \in Farms /\ farm.groups = <<>> BY <1>5 DEF CacheInv, MongoTypes
  <2>2. farm' \in Farms /\ farm'.groups = <<>> /\ Still(farm')
    BY <1>1, <2>1, BootedIs DEF Still
  <2>3. req' = [c \in Slots |-> req'[c]] /\ \A c \in Slots : req'[c] = Idle BY <1>1
  <2>4. MongoTypes' BY <1>1, <2>2, <2>3, IdleIs DEF MongoTypes
  <2>5. \A c \in Slots : ~Told(c)' BY <2>3, IdleIs DEF Told
  <2>6. Patching' BY <2>2, <2>3, <2>5 DEF Patching, Still
  <2>7. MongoCaches' BY <2>6 DEF MongoCaches
  <2>8. SqlInv' BY <1>1, <1>5 DEF SqlInv
  <2>9. QED BY <1>2, <2>4, <2>7, <2>8 DEF CacheInv
<1>6. QED BY <1>3, <1>4, <1>5

\* Who sends what does not change.
LEMMA ModeStays ==
  ASSUME Next
  PROVE  mode' = mode
<1>1. SqlNext => mode' = mode
  BY DEF SqlNext, Answer, SqlCreate, SqlCreateBatch, SqlUpdate, SqlUpdateEnabled, SqlBatchToggle,
     SqlUpdateDisabledReason, SqlUpdateConnection, SqlUpdateRate, SqlDelete, SqlDeleteAll,
     Place, SqlCreateFloor, SqlCreateFloorFails, SqlDeleteFloor, SqlUpdateLevel, SqlUpdateName,
     SqlAddPrinter, SqlAddPrinterFails, SqlRemovePrinter, SqlListFloors, SqlGetFloor, SqlGroups, SqlImport
<1>2. ASSUME NEW c \in Slots, Arrive(c) PROVE mode' = mode
  BY <1>2 DEF Arrive, Start, StartCreate, StartUpdate, StartPatch, StartDelete, StartDeleteAll,
     StartCreateFloor, StartDeleteFloor, StartUpdateFloor, StartPlace, StartRemove, StartListFloors
<1>3. ASSUME NEW c \in Slots, Database(c) PROVE mode' = mode
  BY <1>3 DEF Database, Serve, ServeInsertPrinter, ServeFindPrinter, ServeSavePrinter,
     ServePatchPrinter, ServeDeletePrinters, ServePull, ServeFindFloor, ServeListFloors,
     ServeInsertFloor, ServeDeleteFloor, ServeSaveFloor, ServeSavePlaces
<1>4. ASSUME NEW c \in Slots, Resume(c) PROVE mode' = mode
  BY <1>4 DEF Resume, Await, Finish, ResumeCreate, ResumeUpdate, ResumePatch, ResumeDelete,
     ResumeDeleteAll, ResumeLoadStore, ResumeInsertFloor,
     ResumeDeleteFloor, ResumeUpdateFloor, ResumePlace, ResumeRemove, ResumeSavePlaces
<1>5. MongoNext => mode' = mode BY <1>2, <1>3, <1>4 DEF MongoNext, StartBatch
<1>6. Restart => mode' = mode BY DEF Restart
<1>7. QED BY <1>1, <1>5, <1>6 DEF Next

\* Every step keeps the invariant.
LEMMA FarmNext ==
  ASSUME CacheInv, [Next]_vars
  PROVE  CacheInv'
<1>1. ModeInv /\ SqlInv /\ MongoTypes /\ MongoCaches BY DEF CacheInv
<1>2. CASE UNCHANGED vars
  BY <1>1, <1>2 DEF CacheInv, vars, ModeInv, SqlInv, PlacedThere, MongoTypes, MongoCaches,
     Patching, Told, Alone, Owes
<1>3. CASE Restart BY <1>3, RestartKeeps
<1>4. CASE SqlNext
  <2>1. mode' = mode BY <1>4, ModeStays DEF Next
  <2>2. mode.db = "sqlite" /\ disturbed' \in BOOLEAN
    BY <1>1, <1>4 DEF ModeInv, SqlNext, Answer, SqlCreate, SqlCreateBatch, SqlUpdate, SqlUpdateEnabled, SqlBatchToggle,
     SqlUpdateDisabledReason, SqlUpdateConnection, SqlUpdateRate, SqlDelete, SqlDeleteAll,
     Place, SqlCreateFloor, SqlCreateFloorFails, SqlDeleteFloor, SqlUpdateLevel, SqlUpdateName,
     SqlAddPrinter, SqlAddPrinterFails, SqlRemovePrinter, SqlListFloors, SqlGetFloor, SqlGroups, SqlImport
  <2>3. ModeInv' BY <1>1, <2>1, <2>2 DEF ModeInv
  <2>4. SqlInv' BY <1>1, <1>4, SqlNextKeeps
  <2>5. QED BY <2>1, <2>2, <2>3, <2>4 DEF CacheInv, MongoTypes, MongoCaches
<1>5. CASE MongoNext
  <2>1. mode' = mode BY <1>5, ModeStays DEF Next
  <2>2. mode.db = "mongo" BY <1>1, <1>5, MongoOnly, ModeIs
  <2>3. MongoTypes' /\ MongoCaches' BY <1>1, <1>5, <2>2, MongoNextKeeps
  <2>4. SqlInv' BY <2>1, <2>2 DEF SqlInv
  <2>5. disturbed' \in BOOLEAN
    <3>1. ASSUME NEW c \in Slots, Arrive(c) PROVE disturbed' = (disturbed \/ ~AllIdle)
      BY <3>1 DEF Arrive, Start, StartCreate, StartUpdate, StartPatch, StartDelete, StartDeleteAll,
         StartCreateFloor, StartDeleteFloor, StartUpdateFloor, StartPlace, StartRemove, StartListFloors
    <3>2. ASSUME NEW c \in Slots, Database(c) PROVE disturbed' = disturbed
      BY <3>2 DEF Database, Serve, ServeInsertPrinter, ServeFindPrinter, ServeSavePrinter,
         ServePatchPrinter, ServeDeletePrinters, ServePull, ServeFindFloor, ServeListFloors,
         ServeInsertFloor, ServeDeleteFloor, ServeSaveFloor, ServeSavePlaces
    <3>3. ASSUME NEW c \in Slots, Resume(c) PROVE disturbed' = disturbed
      BY <3>3 DEF Resume, Await, Finish, ResumeCreate, ResumeUpdate, ResumePatch, ResumeDelete,
         ResumeDeleteAll, ResumeLoadStore, ResumeInsertFloor,
         ResumeDeleteFloor, ResumeUpdateFloor, ResumePlace, ResumeRemove, ResumeSavePlaces
    <3>4. StartBatch => disturbed' = (disturbed \/ ~AllIdle) BY DEF StartBatch
    <3>5. disturbed' = disturbed \/ disturbed' = (disturbed \/ ~AllIdle)
      BY <1>5, <3>1, <3>2, <3>3, <3>4 DEF MongoNext
    <3>6. QED BY <1>1, <3>5 DEF ModeInv
  <2>6. ModeInv' BY <1>1, <2>1, <2>5 DEF ModeInv
  <2>7. QED BY <2>3, <2>4, <2>6 DEF CacheInv
<1>6. QED BY <1>2, <1>3, <1>4, <1>5 DEF Next

\* The invariant holds.
THEOREM CacheInvHolds == Spec => []CacheInv
<1>1. Init => CacheInv BY FarmInit
<1>2. CacheInv /\ [Next]_vars => CacheInv' BY FarmNext
<1>3. QED BY <1>1, <1>2, PTL DEF Spec

\* Types.
LEMMA TypesFollow ==
  ASSUME CacheInv
  PROVE  TypeOK
<1>1. ModeInv /\ mode.db \in {"sqlite", "mongo"} BY ModeIs DEF CacheInv
<1>2. farm \in Farms BY <1>1 DEF CacheInv, SqlInv, Tidy, Sound, MongoTypes
<1>3. /\ DOMAIN farm.printers \subseteq PrinterIds /\ DOMAIN farm.cache \subseteq PrinterIds
      /\ \A p \in DOMAIN farm.printers : farm.printers[p] \in Printer
      /\ \A p \in DOMAIN farm.cache : farm.cache[p] \in Printer
      /\ DOMAIN farm.floors \subseteq FloorIds /\ DOMAIN farm.store \subseteq FloorIds
      /\ \A f \in DOMAIN farm.floors : farm.floors[f] \in Floor
      /\ \A f \in DOMAIN farm.store : farm.store[f] \in Floor
      /\ \A g \in DOMAIN farm.groups : farm.groups[g] \in Group
  BY <1>2, FarmTables
<1>4. \A g \in DOMAIN farm.groups : farm.groups[g].printers \subseteq DOMAIN farm.printers
  <2>1. CASE mode.db = "sqlite" BY <2>1 DEF CacheInv, SqlInv, Tidy, Sound, GroupsKnown
  <2>2. CASE mode.db = "mongo"
    <3>1. farm.groups = <<>> BY <2>2 DEF CacheInv, MongoTypes
    <3>2. QED BY <3>1, EmptyTable
  <2>3. QED BY <1>1, <2>1, <2>2
<1>5. \A c \in Slots : mode.db = "sqlite" => req[c] = Idle BY DEF CacheInv, SqlInv
<1>6. placed = None \/ placed \in [f: FloorIds, places: SUBSET Position]
  BY <1>1 DEF CacheInv, SqlInv, PlacedThere, MongoTypes
<1>7. QED BY <1>1, <1>3, <1>4, <1>5, <1>6 DEF TypeOK, ModeInv

\* When nothing is in flight and nothing overlapped, the caches follow.
LEMMA CachesFollow ==
  ASSUME CacheInv
  PROVE  CachesAgree
<1>1. SUFFICES ASSUME Quiet PROVE CachesAgree
  BY DEF CachesAgree, CacheAgrees, StoreShowsPlaces
<1>2. ModeInv /\ mode.db \in {"sqlite", "mongo"} BY ModeIs DEF CacheInv
<1>3. AllIdle /\ ~disturbed BY <1>1 DEF Quiet
<1>4. CASE mode.db = "sqlite"
  <2>1. Tidy(farm) /\ StoreFollows(farm) BY <1>3, <1>4 DEF CacheInv, SqlInv
  <2>2. CacheFollows(farm) /\ DOMAIN farm.store = DOMAIN farm.floors
    BY <2>1 DEF Tidy, Sound, StoreFollows, StoreShows
  <2>3. CacheAgrees BY <1>4, <2>2 DEF CacheAgrees, CacheFollows
  <2>4. StoreShowsPlaces BY <1>4, <2>1, <2>2 DEF StoreShowsPlaces, StoreFollows, StoreShows
  <2>5. QED BY <2>3, <2>4 DEF CachesAgree
<1>5. CASE mode.db = "mongo"
  <2>1. Still(farm) BY <1>3, <1>5, QuietStill DEF CacheInv
  <2>2. farm.cache = farm.printers /\ farm.store = farm.floors BY <2>1 DEF Still
  <2>3. QED BY <2>2 DEF CachesAgree, CacheAgrees, StoreShowsPlaces
<1>6. QED BY <1>2, <1>4, <1>5

\* Every variable has its type.
THEOREM TypeCorrect == Spec => []TypeOK
BY CacheInvHolds, TypesFollow, PTL

\* As long as requests do not overlap, what the clients are shown of printers and
\* places follows the database, for any printers, floors and clients: with
\* SQLite after every request, with MongoDB whenever none is in flight.
THEOREM CachesAgreeHolds == Spec => []CachesAgree
BY CacheInvHolds, CachesFollow, PTL

\* With SQLite a cell of a floor holds one printer and a printer has one place.
THEOREM OnePlaceHolds == Spec => []OnePlace
<1>1. CacheInv => OnePlace BY DEF CacheInv, SqlInv, Tidy, Sound, OnePlaceOn, OnePlace
<1>2. QED BY <1>1, CacheInvHolds, PTL

\* With SQLite every printer of a placement, or of a floor's creation, that was
\* answered is where it was asked for, and is shown there.
THEOREM AsAskedHolds == Spec => []AsAsked
<1>1. ASSUME CacheInv PROVE AsAsked
  <2>1. mode.db \in {"sqlite", "mongo"} BY <1>1, ModeIs DEF CacheInv
  <2>2. CASE mode.db = "sqlite" BY <1>1, <2>2 DEF CacheInv, SqlInv, PlacedThere, AsAsked
  <2>3. CASE mode.db = "mongo" BY <1>1, <2>3 DEF CacheInv, MongoTypes, AsAsked
  <2>4. QED BY <2>1, <2>2, <2>3
<1>2. QED BY <1>1, CacheInvHolds, PTL

\* A command that has not been answered stays so in every step but the
\* database's own, which is the save of its printer.
LEMMA SavesOnly ==
  ASSUME CacheInv, Next, NEW c \in Slots, req[c].cmd = "savePrinter", req[c].ans = Pending, req'[c].ans # Pending
  PROVE  mode.db = "mongo" /\ (Restart \/ ServeSavePrinter(c))
<1>1. req[c] # Idle BY IdleIs
<1>2. mode.db = "mongo" BY <1>1, ModeIs DEF CacheInv, SqlInv
<1>3. req = [d \in Slots |-> req[d]] /\ MongoTypes BY <1>2 DEF CacheInv, MongoTypes
<1>4. ~SqlNext
  BY <1>2 DEF SqlNext, Answer, SqlCreate, SqlCreateBatch, SqlUpdate, SqlUpdateEnabled, SqlBatchToggle,
     SqlUpdateDisabledReason, SqlUpdateConnection, SqlUpdateRate, SqlDelete, SqlDeleteAll,
     Place, SqlCreateFloor, SqlCreateFloorFails, SqlDeleteFloor, SqlUpdateLevel, SqlUpdateName,
     SqlAddPrinter, SqlAddPrinterFails, SqlRemovePrinter, SqlListFloors, SqlGetFloor, SqlGroups, SqlImport
<1>5. ASSUME NEW d \in Slots, NEW op, NEW ps, NEW f, NEW arg, NEW cmd, Start(d, op, ps, f, arg, cmd) PROVE FALSE
  <2>1. req[d] = Idle /\ \A e \in Slots : e # d => req'[e] = req[e] BY <1>3, <1>5, StartIs
  <2>2. QED BY <1>1, <2>1
<1>6. ASSUME NEW d \in Slots, Arrive(d) PROVE FALSE
  BY <1>5, <1>6 DEF Arrive, StartCreate, StartUpdate, StartPatch, StartDelete, StartDeleteAll,
     StartCreateFloor, StartDeleteFloor, StartUpdateFloor, StartPlace, StartRemove, StartListFloors
<1>7. ~StartBatch
  <2>1. SUFFICES ASSUME StartBatch PROVE FALSE OBVIOUS
  <2>2. PICK toggled : \E slot \in Injection(toggled, {d \in Slots : req[d] = Idle}) :
          \A d \in Slots : d \notin Range(slot) => req'[d] = req[d]
    BY <2>1 DEF StartBatch
  <2>3. PICK slot \in Injection(toggled, {d \in Slots : req[d] = Idle}) :
          \A d \in Slots : d \notin Range(slot) => req'[d] = req[d]
    BY <2>2
  <2>4. slot \in [toggled -> {d \in Slots : req[d] = Idle}] BY DEF Injection
  <2>5. c \notin Range(slot) BY <1>1, <2>4 DEF Range
  <2>6. QED BY <2>3, <2>5
<1>8. ASSUME NEW d \in Slots, Resume(d) PROVE FALSE
  <2>1. req[d].ans # Pending
    BY <1>8 DEF Resume, Answered, ResumeCreate, ResumeUpdate, ResumePatch, ResumeDelete,
         ResumeDeleteAll, ResumeLoadStore, ResumeInsertFloor,
         ResumeDeleteFloor, ResumeUpdateFloor, ResumePlace, ResumeRemove, ResumeSavePlaces
  <2>2. d # c BY <2>1
  <2>3. ASSUME NEW s, Finish(d, s) PROVE req'[c] = req[c]
    BY <1>2, <1>3, <2>2, <2>3, FinishSteps
  <2>4. ASSUME NEW s, NEW cmd, NEW arg, Await(d, s, cmd, arg) PROVE req'[c] = req[c]
    BY <1>2, <1>3, <2>2, <2>4, AwaitSteps
  <2>5. ResumeLoadStore(d) => req'[c] = req[c] BY <1>3, <2>2, <2>3 DEF ResumeLoadStore
  <2>6. req'[c] = req[c]
    BY <1>8, <2>3, <2>4, <2>5 DEF Resume, ResumeCreate, ResumeUpdate, ResumePatch, ResumeDelete,
         ResumeDeleteAll, ResumeInsertFloor,
         ResumeDeleteFloor, ResumeUpdateFloor, ResumePlace, ResumeRemove, ResumeSavePlaces
  <2>7. QED BY <2>6
<1>9. ASSUME NEW d \in Slots, Database(d), ~ServeSavePrinter(c) PROVE FALSE
  <2>1. ASSUME NEW cmd, NEW s, NEW ans, Serve(d, cmd, s, ans), cmd # "savePrinter" PROVE FALSE
    <3>1. req[d].cmd = cmd /\ \A e \in Slots : e # d => req'[e] = req[e]
      BY <1>2, <1>3, <2>1, ServeSteps
    <3>2. QED BY <2>1, <3>1
  <2>2. ASSUME ServeSavePrinter(d), d # c PROVE FALSE
    <3>1. \A e \in Slots : e # d => req'[e] = req[e]
      BY <1>2, <1>3, <2>2, ServeSteps DEF ServeSavePrinter
    <3>2. QED BY <2>2, <3>1
  <2>3. ASSUME NEW f, NEW places, Saves(d, f, places), d # c PROVE FALSE
    <3>1. req'[c] = req[c] \/ req'[c] = Marked(req[c]) BY <2>3 DEF Saves
    <3>2. Marked(req[c]).ans = req[c].ans
      <4>1. Legal(req[c]) BY <1>3, <1>2 DEF MongoTypes
      <4>2. QED BY <1>1, <4>1, MarkedLegal
    <3>3. QED BY <3>1, <3>2
  <2>4. ~ServeSavePlaces(d)
    <3>1. SUFFICES ASSUME ServeSavePlaces(d) PROVE FALSE OBVIOUS
    <3>2. req[d].cmd = "savePlaces" BY <3>1 DEF ServeSavePlaces
    <3>3. d # c BY <3>2
    <3>4. Serve(d, "savePlaces", farm, None) \/ \E f, places : Saves(d, f, places)
      BY <3>1, ServeSavePlacesIs
    <3>5. QED BY <2>1, <2>3, <3>3, <3>4
  <2>5. QED
    BY <1>9, <2>1, <2>2, <2>4 DEF Database, ServeInsertPrinter, ServeFindPrinter,
         ServePatchPrinter, ServeDeletePrinters, ServePull, ServeFindFloor, ServeListFloors,
         ServeInsertFloor, ServeDeleteFloor, ServeSaveFloor
<1>10. QED BY <1>2, <1>4, <1>6, <1>7, <1>8, <1>9 DEF Next, MongoNext

\* What that save changes.
LEMMA SaveChanges ==
  ASSUME CacheInv, mode.db = "mongo", NEW c \in Slots, ServeSavePrinter(c)
  PROVE  /\ DOMAIN farm'.printers = DOMAIN farm.printers
         /\ \A p \in DOMAIN farm.printers : \A x \in DOMAIN farm.printers[p] :
              farm'.printers[p][x] # farm.printers[p][x] => p \in req[c].ps /\ x \in DOMAIN req[c].arg.body
<1> DEFINE r == req[c]
           p == The(r.ps)
<1>1. MongoTypes /\ farm \in Farms BY DEF CacheInv, MongoTypes
<1>2. r # Idle /\ Legal(r) /\ r.cmd = "savePrinter" /\ farm' = SavePrinter(farm, p, r.arg.doc, r.arg.read)
  BY <1>1, ServeSteps DEF ServeSavePrinter
<1>3. r \in UpdateSaves /\ r.arg.doc = Assign(r.arg.body, r.arg.read)
  BY <1>2, LegalIs, AwaitedIs, Kinds
<1>4. r.ps \in One /\ r.arg.read \in Printer /\ r.arg.doc \in Printer
  BY <1>3, UpdateSavesAre
<1>5. p \in r.ps BY <1>4, TheIs
<1>6. CASE p \notin DOMAIN farm.printers BY <1>2, <1>6 DEF SavePrinter
<1>7. CASE p \in DOMAIN farm.printers
  <2>1. /\ DOMAIN farm'.printers = DOMAIN farm.printers
        /\ farm'.printers[p] = Merged(farm.printers[p], r.arg.doc, r.arg.read)
        /\ \A q \in DOMAIN farm.printers : q # p => farm'.printers[q] = farm.printers[q]
    BY <1>1, <1>2, <1>4, <1>7, SavePrinterPuts
  <2>2. ASSUME NEW x \in DOMAIN farm.printers[p], farm'.printers[p][x] # farm.printers[p][x]
        PROVE  x \in DOMAIN r.arg.body
    <3>1. farm.printers[p] \in Printer BY <1>1, <1>7, FarmTables
    <3>2. x \in DOMAIN r.arg.read BY <1>4, <3>1 DEF Printer
    <3>3. r.arg.doc[x] # r.arg.read[x] BY <2>1, <2>2 DEF Merged
    <3>4. QED BY <1>3, <3>2, <3>3 DEF Assign
  <2>3. QED BY <1>5, <2>1, <2>2
<1>8. QED BY <1>6, <1>7

\* MongoDB: saving a printer that was read earlier changes no field that its
\* request did not set, whatever other requests stored since, and stores no
\* printer that was deleted since.
THEOREM NoCollateralHolds == Spec => NoCollateral
<1> DEFINE A == \A c \in Slots :
             req[c].cmd = "savePrinter" /\ req[c].ans = Pending /\ req'[c].ans # Pending =>
               /\ DOMAIN farm'.printers = DOMAIN farm.printers
               /\ \A p \in DOMAIN farm.printers : \A x \in DOMAIN farm.printers[p] :
                    farm'.printers[p][x] # farm.printers[p][x] =>
                      p \in req[c].ps /\ x \in DOMAIN req[c].arg.body
<1>1. ASSUME CacheInv, [Next]_vars PROVE [A]_vars
  <2>1. SUFFICES ASSUME Next, NEW c \in Slots,
                        req[c].cmd = "savePrinter", req[c].ans = Pending, req'[c].ans # Pending
                 PROVE  /\ DOMAIN farm'.printers = DOMAIN farm.printers
                        /\ \A p \in DOMAIN farm.printers : \A x \in DOMAIN farm.printers[p] :
                             farm'.printers[p][x] # farm.printers[p][x] =>
                               p \in req[c].ps /\ x \in DOMAIN req[c].arg.body
    BY <1>1
  <2>2. mode.db = "mongo" /\ (Restart \/ ServeSavePrinter(c)) BY <1>1, <2>1, SavesOnly
  <2>3. CASE Restart
    <3>1. farm \in Farms BY <1>1, <2>2 DEF CacheInv, MongoTypes
    <3>2. farm'.printers = farm.printers BY <2>3, <3>1, BootedIs DEF Restart
    <3>3. QED BY <3>2
  <2>4. CASE ServeSavePrinter(c) BY <1>1, <2>2, <2>4, SaveChanges
  <2>5. QED BY <2>2, <2>3, <2>4
<1>2. QED BY <1>1, CacheInvHolds, PTL DEF Spec, NoCollateral
===========================================================================
