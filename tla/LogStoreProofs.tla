------------------------------ MODULE LogStoreProofs ------------------------------
(***************************************************************************)
(* Proofs about LogStore, for any handlers, any number of rows, starts and  *)
(* migrations, any page size and any time range.                           *)
(***************************************************************************)
EXTENDS LogStore, FiniteSetTheorems, TLAPS

USE LimitAssumption, BoundsAssumption

Row == [by : Handlers, number : 1..MaxRows, at : 1..clock]
Page == [rows : Seq(Row), more : BOOLEAN, known : SUBSET Row]

-----------------------------------------------------------------------------
(* Lists of rows                                                            *)

Ordered(list) ==
  \A i, j \in 1..Len(list) : i < j => list[i] # list[j] /\ list[i].at >= list[j].at

LEMMA Concatenation ==
  ASSUME NEW S, NEW s \in Seq(S), NEW t \in Seq(S)
  PROVE  /\ s \o t \in Seq(S)
         /\ Len(s) \in Nat /\ Len(t) \in Nat
         /\ Len(s \o t) = Len(s) + Len(t)
         /\ \A i \in 1..Len(s) : (s \o t)[i] = s[i]
         /\ \A i \in 1..Len(t) : (s \o t)[Len(s) + i] = t[i]
         /\ \A i \in 1..(Len(s) + Len(t)) : i > Len(s) => (s \o t)[i] = t[i - Len(s)] /\ i - Len(s) \in 1..Len(t)
         /\ Elements(s \o t) = Elements(s) \cup Elements(t)
<1> DEFINE u == s \o t
<1>1. /\ u \in Seq(S)
      /\ Len(s) \in Nat /\ Len(t) \in Nat
      /\ Len(u) = Len(s) + Len(t)
      /\ \A i \in 1..Len(s) : u[i] = s[i]
      /\ \A i \in 1..Len(t) : u[Len(s) + i] = t[i]
      /\ \A i \in 1..(Len(s) + Len(t)) : i > Len(s) => u[i] = t[i - Len(s)] /\ i - Len(s) \in 1..Len(t)
  OBVIOUS
<1> HIDE DEF u
<1>2. Elements(u) \subseteq Elements(s) \cup Elements(t)
  <2> SUFFICES ASSUME NEW i \in 1..Len(u) PROVE u[i] \in Elements(s) \cup Elements(t)
    BY DEF Elements
  <2>1. CASE i <= Len(s)
    BY <1>1, <2>1 DEF Elements
  <2>2. CASE i > Len(s)
    BY <1>1, <2>2 DEF Elements
  <2> QED BY <1>1, <2>1, <2>2
<1>3. Elements(s) \subseteq Elements(u)
  <2> SUFFICES ASSUME NEW i \in 1..Len(s) PROVE s[i] \in Elements(u)
    BY DEF Elements
  <2>1. i \in 1..Len(u) /\ u[i] = s[i]
    BY <1>1
  <2> QED BY <2>1 DEF Elements
<1>4. Elements(t) \subseteq Elements(u)
  <2> SUFFICES ASSUME NEW i \in 1..Len(t) PROVE t[i] \in Elements(u)
    BY DEF Elements
  <2>1. Len(s) + i \in 1..Len(u) /\ u[Len(s) + i] = t[i]
    BY <1>1
  <2> QED BY <2>1 DEF Elements
<1> QED BY <1>1, <1>2, <1>3, <1>4 DEF u

LEMMA ConcatenationOrdered ==
  ASSUME NEW S, NEW s \in Seq(S), NEW t \in Seq(S), \A x \in S : x.at \in Nat,
         Ordered(s), Ordered(t),
         \A i \in 1..Len(s), j \in 1..Len(t) : s[i].at > t[j].at
  PROVE  Ordered(s \o t)
<1> SUFFICES ASSUME NEW i \in 1..Len(s \o t), NEW j \in 1..Len(s \o t), i < j
             PROVE  (s \o t)[i] # (s \o t)[j] /\ (s \o t)[i].at >= (s \o t)[j].at
  BY DEF Ordered
<1> DEFINE u == s \o t
<1>1. Len(u) = Len(s) + Len(t) /\ Len(s) \in Nat /\ Len(t) \in Nat
  BY Concatenation
<1>2. CASE j <= Len(s)
  <2>1. u[i] = s[i] /\ u[j] = s[j] /\ i \in 1..Len(s) /\ j \in 1..Len(s)
    BY <1>1, <1>2, Concatenation
  <2> QED BY <2>1 DEF Ordered
<1>3. CASE i <= Len(s) /\ j > Len(s)
  <2>1. u[i] = s[i] /\ i \in 1..Len(s) /\ u[j] = t[j - Len(s)] /\ j - Len(s) \in 1..Len(t)
    BY <1>1, <1>3, Concatenation
  <2> PICK k \in 1..Len(t) : k = j - Len(s)
    BY <2>1
  <2>2. s[i] \in S /\ t[k] \in S /\ s[i].at > t[k].at
    BY <2>1
  <2>3. s[i].at \in Nat /\ t[k].at \in Nat
    BY <2>2
  <2>4. s[i].at >= t[k].at /\ s[i].at # t[k].at
    BY <2>2, <2>3
  <2>5. s[i] # t[k]
    BY <2>4
  <2> QED BY <2>1, <2>4, <2>5
<1>4. CASE i > Len(s)
  <2>1. /\ u[i] = t[i - Len(s)] /\ i - Len(s) \in 1..Len(t)
        /\ u[j] = t[j - Len(s)] /\ j - Len(s) \in 1..Len(t)
    BY <1>1, <1>4, Concatenation
  <2>2. i - Len(s) < j - Len(s)
    BY <1>1
  <2> QED BY <2>1, <2>2 DEF Ordered
<1> QED BY <1>1, <1>2, <1>3, <1>4

LEMMA SuffixOrdered ==
  ASSUME NEW S, NEW s \in Seq(S), NEW t \in Seq(S), Ordered(s \o t)
  PROVE  Ordered(<<>> \o t)
<1>1. <<>> \o t = t
  OBVIOUS
<1> SUFFICES ASSUME NEW i \in 1..Len(t), NEW j \in 1..Len(t), i < j
             PROVE  t[i] # t[j] /\ t[i].at >= t[j].at
  BY <1>1 DEF Ordered
<1>2. /\ Len(s) + i \in 1..Len(s \o t) /\ Len(s) + j \in 1..Len(s \o t)
      /\ Len(s) + i < Len(s) + j
      /\ (s \o t)[Len(s) + i] = t[i] /\ (s \o t)[Len(s) + j] = t[j]
  BY Concatenation
<1> QED BY <1>2 DEF Ordered

(* A page holds the rows of the answer, all of them, newest first.          *)
LEMMA SortedPage ==
  ASSUME NEW S, NEW page \in SUBSET S, IsFiniteSet(page), NEW s \in Sorted(page)
  PROVE  /\ s \in Seq(S)
         /\ Len(s) = Cardinality(page)
         /\ Elements(s) = page
         /\ Ordered(s)
<1> DEFINE n == Cardinality(page)
<1>1. n \in Nat
  BY FS_CardinalityType
<1>2. s \in [1..n -> page] /\ DOMAIN s = 1..n
  BY DEF Sorted
<1>3. s \in Seq(S) /\ Len(s) = n
  BY <1>1, <1>2
<1>4. \A i, j \in 1..n : i < j => s[i] # s[j] /\ s[i].at >= s[j].at
  BY <1>2 DEF Sorted
<1>5. s \in Injection(1..n, page)
  BY <1>1, <1>2, <1>4 DEF Injection, IsInjective
<1>6. Cardinality(1..n) = n
  BY <1>1, FS_Interval
<1>7. s \in Surjection(1..n, page)
  BY <1>5, <1>6, FS_Injection
<1>8. Elements(s) = page
  BY <1>2, <1>3, <1>7 DEF Elements, Surjection
<1> QED BY <1>3, <1>4, <1>8 DEF Ordered
-----------------------------------------------------------------------------
(* The inductive invariant                                                  *)

TypeInv ==
  /\ proc \in {"down", "migrating", "running", "disabled"}
  /\ program \in Migrations
  /\ tables \subseteq Migrations
  /\ version \in 0..Latest
  /\ clock \in Nat
  /\ handler \in [Handlers -> [start : 0..clock, count : 0..MaxRows, open : BOOLEAN]]
  /\ \A h \in Handlers : handler[h].open => proc \in {"running", "disabled"} /\ handler[h].start # 0
  /\ rows \subseteq Row /\ IsFiniteSet(rows)
  /\ known \subseteq Row
  /\ shown \in Seq(Row)
  /\ hasMore \in BOOLEAN
  /\ loading \subseteq Page
  /\ \A p, q \in loading : p = q

(* A row, whoever still knows of it, was written by its handler, which      *)
(* writes no second one of that number; the start times of handlers differ. *)
Recorded(row) == row.number <= handler[row.by].count /\ row.at = handler[row.by].start

Remembered ==
  rows \cup known \cup Elements(shown)
    \cup UNION {page.known \cup Elements(page.rows) : page \in loading}

RowsInv ==
  /\ \A g, h \in Handlers : handler[g].start = handler[h].start /\ handler[g].start # 0 => g = h
  /\ \A row \in Remembered : Recorded(row)

(* MissedOnlyTies for the list there is and the list there will be.         *)
TiesOnly(list, more, old) ==
  list # <<>> =>
    \A row \in rows \cap old :
      /\ row \notin Elements(list)
      /\ row.at >= list[Len(list)].at \/ (~more /\ row.at + Window >= clock)
      => \E i \in 1..Len(list) : list[i].by = row.by

ViewOK(list, more, old) == Ordered(list) /\ TiesOnly(list, more, old)

ListInv ==
  /\ ViewOK(shown, hasMore, known)
  /\ \A page \in loading : ViewOK(shown \o page.rows, page.more, page.known)

IInv == TypeInv /\ SchemaIsComplete /\ RowsInv /\ ListInv

LEMMA InitIInv == Init => IInv
<1> SUFFICES ASSUME Init PROVE IInv
  OBVIOUS
<1> USE DEF Init
<1>1. TypeInv
  BY FS_EmptySet DEF TypeInv, Migrations
<1>2. SchemaIsComplete
  BY DEF SchemaIsComplete
<1>3. RowsInv
  BY DEF RowsInv, Remembered, Elements
<1>4. ListInv
  BY DEF ListInv, ViewOK, Ordered, TiesOnly
<1> QED BY <1>1, <1>2, <1>3, <1>4 DEF IInv

-----------------------------------------------------------------------------
(* The schema                                                               *)

LEMMA EarliestIsNext ==
  ASSUME TypeInv, Pending # {}
  PROVE  Earliest = version + 1 /\ Earliest \in 1..program
<1> USE DEF TypeInv, Migrations, Pending
<1>1. version + 1 \in Pending /\ \A n \in Pending : version + 1 <= n
  OBVIOUS
<1>2. Earliest \in Pending /\ \A n \in Pending : Earliest <= n
  BY <1>1 DEF Earliest
<1>3. Earliest <= version + 1 /\ version + 1 <= Earliest /\ Earliest \in 1..program
  BY <1>1, <1>2
<1> QED BY <1>3

LEMMA SchemaStep ==
  ASSUME TypeInv, SchemaIsComplete, [Next]_vars
  PROVE  SchemaIsComplete'
<1> USE DEF TypeInv, SchemaIsComplete, Migrations, schema, vars
<1>1. CASE Start
  BY <1>1 DEF Start
<1>2. CASE Migrate
  BY <1>2, EarliestIsNext DEF Migrate
<1>3. CASE Migrated
  <2>1. program > version => program \in Pending
    BY DEF Pending
  <2>2. program <= version
    BY <1>3, <2>1 DEF Migrated
  <2> QED BY <1>3, <2>2 DEF Migrated
<1>4. CASE MigrationFails \/ Exit
  BY <1>4 DEF MigrationFails, Exit
<1>5. CASE UNCHANGED <<proc, schema>>
  BY <1>5
<1> QED BY <1>1, <1>2, <1>3, <1>4, <1>5
        DEF Next, Arrive, Record, Purge, LoadMore, Loaded, LoadFails, Reset

-----------------------------------------------------------------------------
(* Types                                                                    *)

LEMMA RowsGrow ==
  ASSUME clock \in Nat, clock' \in Nat, clock <= clock'
  PROVE  /\ Row \subseteq Row'
         /\ Seq(Row) \subseteq Seq(Row)'
         /\ Page \subseteq Page'
<1>1. Row \subseteq Row'
  BY DEF Row
<1>2. Seq(Row) \subseteq Seq(Row')
  BY <1>1
<1> QED BY <1>1, <1>2 DEF Page

(* What a migration or an exit may change of the types.                     *)
LEMMA StoreTypes ==
  ASSUME TypeInv, Start \/ Migrate \/ Migrated \/ MigrationFails \/ Exit
  PROVE  TypeInv'
<1> USE DEF TypeInv, Migrations, schema, log, viewer
<1>1. Row' = Row /\ Page' = Page
  BY DEF Row, Page, Start, Migrate, Migrated, MigrationFails, Exit
<1>2. CASE Start \/ Migrated \/ MigrationFails
  BY <1>1, <1>2 DEF Start, Migrated, MigrationFails
<1>3. CASE Migrate
  <2>1. Earliest \in 1..Latest
    BY <1>3, EarliestIsNext DEF Migrate
  <2>2. /\ tables' = tables \/ tables' = tables \cup {Earliest}
        /\ version' = version \/ version' = Earliest
    BY <1>3 DEF Migrate
  <2> HIDE DEF Pending
  <2>3. tables' \subseteq 1..Latest /\ version' \in 0..Latest
    <3>1. CASE tables' = tables
      BY <2>1, <2>2, <3>1
    <3>2. CASE tables' = tables \cup {Earliest}
      BY <2>1, <2>2, <3>2
    <3> QED BY <2>2, <3>1, <3>2
  <2> QED BY <1>1, <1>3, <2>3 DEF Migrate
<1>4. CASE Exit
  BY <1>1, <1>4 DEF Exit
<1> QED BY <1>2, <1>3, <1>4

LEMMA RowTypes ==
  ASSUME TypeInv, NEW h \in Handlers, Arrive(h) \/ Record(h)
  PROVE  TypeInv'
<1> USE DEF TypeInv, schema, log, viewer
<1>1. CASE Arrive(h)
  <2>1. clock' = clock + 1 /\ UNCHANGED <<proc, schema, rows, viewer>>
    BY <1>1 DEF Arrive
  <2>2. Row \subseteq Row' /\ Seq(Row) \subseteq Seq(Row)' /\ Page \subseteq Page'
    BY <2>1, RowsGrow
  <2>3. /\ handler' \in [Handlers -> [start : 0..clock', count : 0..MaxRows, open : BOOLEAN]]
        /\ \A g \in Handlers : handler'[g].open => proc \in {"running", "disabled"} /\ handler'[g].start # 0
    BY <1>1, <2>1 DEF Arrive
  <2> QED BY <2>1, <2>2, <2>3 DEF Migrations
<1>2. CASE Record(h)
  <2>1. UNCHANGED <<proc, schema, clock, viewer>>
    BY <1>2 DEF Record
  <2>2. Row' = Row /\ Page' = Page
    BY <2>1 DEF Row, Page
  <2> PICK more \in BOOLEAN : handler' = [handler EXCEPT ![h].count = @ + 1, ![h].open = more]
    BY <1>2 DEF Record
  <2>a. /\ handler[h] \in [start : 0..clock, count : 0..MaxRows, open : BOOLEAN]
        /\ handler[h].open /\ handler[h].count < MaxRows
        /\ proc \in {"running", "disabled"} /\ handler[h].start # 0
    BY <1>2 DEF Record
  <2>b. /\ handler'[h] = [handler[h] EXCEPT !.count = @ + 1, !.open = more]
        /\ \A g \in Handlers : g # h => handler'[g] = handler[g]
    BY <2>a
  <2>c. handler'[h] \in [start : 0..clock, count : 0..MaxRows, open : BOOLEAN]
    <3>1. handler[h].start \in 0..clock /\ handler[h].count \in 0..MaxRows
      BY <2>a
    <3>2. handler[h].count + 1 \in 0..MaxRows
      BY <2>a, <3>1
    <3>3. handler'[h] = [start |-> handler[h].start, count |-> handler[h].count + 1, open |-> more]
      BY <2>a, <2>b, Zenon
    <3> QED BY <3>1, <3>2, <3>3
  <2>d. handler' \in [Handlers -> [start : 0..clock, count : 0..MaxRows, open : BOOLEAN]]
    BY <2>c
  <2>3. /\ \A g \in Handlers : handler'[g].open => proc \in {"running", "disabled"} /\ handler'[g].start # 0
        /\ handler'[h].count \in 1..MaxRows
    BY <2>a, <2>b
  <2> DEFINE row == [by |-> h, number |-> handler'[h].count, at |-> handler[h].start]
  <2>4. row \in Row
    BY <2>a, <2>3 DEF Row
  <2>5. rows' \in {rows, rows \cup {row}}
    BY <1>2 DEF Record
  <2> HIDE DEF row
  <2>6. IsFiniteSet(rows \cup {row})
    BY FS_AddElement
  <2>7. rows' \subseteq Row /\ IsFiniteSet(rows')
    BY <2>4, <2>5, <2>6
  <2> QED BY <2>1, <2>2, <2>d, <2>3, <2>7 DEF Migrations
<1> QED BY <1>1, <1>2

(* The page that is asked for.                                              *)
LEMMA PageTypes ==
  ASSUME TypeInv, NEW page \in Pages(Cursor), NEW s \in Sorted(page)
  PROVE  /\ page \subseteq rows /\ page \subseteq Listed(Cursor)
         /\ s \in Seq(Row)
         /\ Len(s) = Cardinality(page)
         /\ Elements(s) = page
         /\ Ordered(s)
<1>1. page \subseteq Listed(Cursor) /\ page \subseteq rows
  BY DEF Pages, Listed
<1>2. IsFiniteSet(page) /\ page \subseteq Row
  BY <1>1, FS_Subset DEF TypeInv
<1> QED BY <1>1, <1>2, SortedPage

LEMMA ViewerTypes ==
  ASSUME TypeInv, LoadMore \/ Loaded \/ LoadFails \/ Reset
  PROVE  TypeInv'
<1> USE DEF TypeInv, schema, log
<1>1. UNCHANGED <<proc, schema, log>>
  BY DEF LoadMore, Loaded, LoadFails, Reset
<1>2. Row' = Row /\ Page' = Page
  BY <1>1 DEF Row, Page
<1>3. CASE LoadMore
  <2> PICK page \in Pages(Cursor) : \E s \in Sorted(page) :
             loading' = {[rows |-> s, more |-> page # Listed(Cursor),
                          known |-> IF shown = <<>> THEN rows ELSE known]}
    BY <1>3 DEF LoadMore
  <2> PICK s \in Sorted(page) :
             loading' = {[rows |-> s, more |-> page # Listed(Cursor),
                          known |-> IF shown = <<>> THEN rows ELSE known]}
    OBVIOUS
  <2>1. s \in Seq(Row)
    BY PageTypes
  <2>2. loading' \subseteq Page /\ \A p, q \in loading' : p = q
    <3> DEFINE answer == [rows |-> s, more |-> page # Listed(Cursor),
                          known |-> IF shown = <<>> THEN rows ELSE known]
    <3>1. (IF shown = <<>> THEN rows ELSE known) \subseteq Row
      OBVIOUS
    <3>2. (page # Listed(Cursor)) \in BOOLEAN
      OBVIOUS
    <3>3. answer \in Page
      BY <2>1, <3>1, <3>2, Zenon DEF Page
    <3> QED BY <3>3
  <2> QED BY <1>1, <1>2, <1>3, <2>2 DEF LoadMore, Migrations
<1>4. CASE Loaded
  <2> PICK page \in loading : /\ shown' = shown \o page.rows
                              /\ hasMore' = page.more
                              /\ known' = page.known
    BY <1>4 DEF Loaded
  <2>1. page.rows \in Seq(Row) /\ page.more \in BOOLEAN /\ page.known \subseteq Row
    BY DEF Page
  <2>2. shown' \in Seq(Row)
    BY <2>1, Concatenation
  <2> QED BY <1>1, <1>2, <1>4, <2>1, <2>2 DEF Loaded, Migrations
<1>5. CASE LoadFails
  BY <1>1, <1>2, <1>5 DEF LoadFails, Migrations
<1>6. CASE Reset
  <2>1. \A page \in loading : [page EXCEPT !.known = {}] \in Page
    BY DEF Page
  <2>2. loading' \subseteq Page /\ \A p, q \in loading' : p = q
    BY <1>6, <2>1 DEF Reset
  <2>3. shown' \in Seq(Row) /\ hasMore' \in BOOLEAN /\ known' \subseteq Row
    BY <1>6 DEF Reset
  <2> QED BY <1>1, <1>2, <2>2, <2>3 DEF Migrations
<1> QED BY <1>3, <1>4, <1>5, <1>6

LEMMA TypeStep ==
  ASSUME TypeInv, [Next]_vars
  PROVE  TypeInv'
<1>1. CASE UNCHANGED vars
  BY <1>1 DEF TypeInv, Row, Page, Migrations, vars, schema, log, viewer
<1>2. CASE Purge
  <2>1. UNCHANGED <<proc, schema, clock, handler, viewer>> /\ rows' \subseteq rows
    BY <1>2 DEF Purge
  <2>2. IsFiniteSet(rows')
    BY <2>1, FS_Subset DEF TypeInv
  <2> QED BY <2>1, <2>2 DEF TypeInv, Row, Page, Migrations, schema, viewer
<1> QED BY <1>1, <1>2, StoreTypes, RowTypes, ViewerTypes DEF Next
-----------------------------------------------------------------------------
(* Who wrote which row                                                      *)

LEMMA RememberedRows ==
  ASSUME TypeInv
  PROVE  Remembered \subseteq Row
<1>1. Elements(shown) \subseteq Row
  BY DEF Elements, TypeInv
<1>2. \A page \in loading : page.known \subseteq Row /\ Elements(page.rows) \subseteq Row
  BY DEF Elements, TypeInv, Page
<1> QED BY <1>1, <1>2 DEF Remembered, TypeInv

(* Nothing but Record makes a row, and the viewer learns of rows only.      *)
LEMMA NoNewRow ==
  ASSUME TypeInv, [Next]_vars
  PROVE  \/ \E h \in Handlers : Record(h)
         \/ Remembered' \subseteq Remembered
<1> USE DEF Remembered, schema, log, viewer, vars
<1>1. CASE UNCHANGED <<rows, viewer>>
  BY <1>1
<1>2. CASE Purge
  BY <1>2 DEF Purge
<1>3. CASE LoadMore
  <2> PICK page \in Pages(Cursor) : \E s \in Sorted(page) :
             loading' = {[rows |-> s, more |-> page # Listed(Cursor),
                          known |-> IF shown = <<>> THEN rows ELSE known]}
    BY <1>3 DEF LoadMore
  <2> PICK s \in Sorted(page) :
             loading' = {[rows |-> s, more |-> page # Listed(Cursor),
                          known |-> IF shown = <<>> THEN rows ELSE known]}
    OBVIOUS
  <2>1. Elements(s) \subseteq rows
    BY PageTypes
  <2>2. \A answer \in loading' : answer.known \subseteq rows \cup known /\ answer.rows = s
    OBVIOUS
  <2>3. UNCHANGED <<rows, shown, known>>
    BY <1>3 DEF LoadMore
  <2> QED BY <2>1, <2>2, <2>3
<1>4. CASE Loaded
  <2> PICK page \in loading : shown' = shown \o page.rows /\ known' = page.known
    BY <1>4 DEF Loaded
  <2>1. shown \in Seq(Row) /\ page.rows \in Seq(Row)
    BY DEF TypeInv, Page
  <2>2. Elements(shown') = Elements(shown) \cup Elements(page.rows)
    BY <2>1, Concatenation
  <2>3. rows' = rows /\ loading' = {}
    BY <1>4 DEF Loaded
  <2> QED BY <2>2, <2>3
<1>5. CASE LoadFails
  BY <1>5 DEF LoadFails
<1>6. CASE Reset
  <2>1. shown' = <<>> /\ known' = {} /\ rows' = rows
    BY <1>6 DEF Reset
  <2>2. Elements(shown') = {}
    BY <2>1 DEF Elements
  <2>3. \A answer \in loading' : \E page \in loading : answer.known = {} /\ answer.rows = page.rows
    BY <1>6 DEF Reset, TypeInv, Page
  <2> QED BY <2>1, <2>2, <2>3
<1> QED BY <1>1, <1>2, <1>3, <1>4, <1>5, <1>6
        DEF Next, Start, Migrate, Migrated, MigrationFails, Exit, Arrive

LEMMA RowsStep ==
  ASSUME TypeInv, RowsInv, [Next]_vars
  PROVE  RowsInv'
<1> USE DEF schema, log, viewer, vars
<1>1. \A row \in Remembered : row.by \in Handlers /\ row.number \in Nat /\ row.at \in 1..clock
  BY RememberedRows DEF Row
<1>2. \A h \in Handlers : handler[h].start \in 0..clock /\ handler[h].count \in 0..MaxRows
  BY DEF TypeInv
<1>3. ASSUME NEW h \in Handlers, Arrive(h) PROVE RowsInv'
  <2>1. Remembered' = Remembered
    BY <1>3 DEF Arrive, Remembered
  <2>2. /\ handler'[h].start = clock + 1
        /\ \A g \in Handlers : g # h => handler'[g] = handler[g]
    BY <1>3 DEF Arrive, TypeInv
  <2>3. \A row \in Remembered : row.by # h
    BY <1>1, <1>3 DEF Arrive, RowsInv, Recorded
  <2>4. \A row \in Remembered : Recorded(row)'
    BY <1>1, <2>2, <2>3 DEF RowsInv, Recorded
  <2>5. \A f, g \in Handlers : handler'[f].start = handler'[g].start /\ handler'[f].start # 0 => f = g
    BY <1>2, <2>2 DEF RowsInv, TypeInv
  <2> QED BY <2>1, <2>4, <2>5 DEF RowsInv
<1>4. ASSUME NEW h \in Handlers, Record(h) PROVE RowsInv'
  <2>1. /\ handler'[h].count = handler[h].count + 1
        /\ handler'[h].start = handler[h].start
        /\ \A g \in Handlers : g # h => handler'[g] = handler[g]
    BY <1>4 DEF Record, TypeInv
  <2> PICK row : row = [by |-> h, number |-> handler[h].count + 1, at |-> handler[h].start]
    OBVIOUS
  <2>2. Remembered' \subseteq Remembered \cup {row}
    BY <1>4, <2>1 DEF Record, Remembered
  <2>3. row.by = h /\ row.number = handler[h].count + 1 /\ row.at = handler[h].start
    OBVIOUS
  <2>4. row.number <= handler'[row.by].count /\ row.at = handler'[row.by].start
    BY <1>2, <2>1, <2>3
  <2>5. \A x \in Remembered : x.number <= handler'[x.by].count /\ x.at = handler'[x.by].start
    BY <1>1, <1>2, <2>1 DEF RowsInv, Recorded
  <2>6. \A f, g \in Handlers : handler'[f].start = handler'[g].start /\ handler'[f].start # 0 => f = g
    BY <2>1 DEF RowsInv
  <2> QED BY <2>2, <2>4, <2>5, <2>6 DEF RowsInv, Recorded
<1>5. CASE Exit
  <2>1. Remembered' = Remembered
    BY <1>5 DEF Exit, Remembered
  <2>2. \A h \in Handlers : handler'[h].start = handler[h].start /\ handler'[h].count = handler[h].count
    BY <1>5 DEF Exit, TypeInv
  <2> QED BY <1>1, <2>1, <2>2 DEF RowsInv, Recorded
<1>6. CASE handler' = handler /\ ~\E h \in Handlers : Record(h)
  BY <1>6, NoNewRow DEF RowsInv, Recorded
<1> QED BY <1>3, <1>4, <1>5, <1>6
        DEF Next, Start, Migrate, Migrated, MigrationFails, Purge, LoadMore, Loaded, LoadFails, Reset

-----------------------------------------------------------------------------
(* The list                                                                 *)

(* The store may do what it does: the list, and the list to be, stay valid. *)
LEMMA ListUnderStore ==
  ASSUME TypeInv, RowsInv, ListInv, [Next]_vars, UNCHANGED viewer
  PROVE  ListInv'
<1>1. clock \in Nat /\ clock' \in Nat /\ clock <= clock' /\ Window \in Nat
  <2>1. clock' = clock \/ clock' = clock + 1
    BY DEF Next, Start, Migrate, Migrated, MigrationFails, Exit, Arrive, Record, Purge,
           LoadMore, Loaded, LoadFails, Reset, vars, log
  <2>2. clock \in Nat
    BY DEF TypeInv
  <2> QED BY <2>1, <2>2
<1>2. \A x \in rows' \cap Remembered : x \in rows
  <2>1. ASSUME NEW h \in Handlers, Record(h) PROVE rows' \cap Remembered \subseteq rows
    <3> DEFINE row == [by |-> h, number |-> handler'[h].count, at |-> handler[h].start]
    <3>1. rows' \subseteq rows \cup {row}
      BY <2>1 DEF Record
    <3>2. handler'[h].count = handler[h].count + 1 /\ handler[h].count \in Nat
      BY <2>1 DEF Record, TypeInv
    <3>3. row \notin Remembered
      BY <3>2 DEF RowsInv, Recorded
    <3> HIDE DEF row
    <3> QED BY <3>1, <3>3
  <2>2. CASE Purge
    BY <2>2 DEF Purge
  <2>3. CASE rows' = rows
    BY <2>3
  <2> QED BY <2>1, <2>2, <2>3
          DEF Next, Start, Migrate, Migrated, MigrationFails, Exit, Arrive, LoadMore, Loaded,
              LoadFails, Reset, vars, log
<1>3. ASSUME NEW list, NEW more, NEW old, old \subseteq Remembered, TiesOnly(list, more, old)
      PROVE  TiesOnly(list, more, old)'
  <2> SUFFICES ASSUME list # <<>>, NEW row \in rows' \cap old, row \notin Elements(list),
                      row.at >= list[Len(list)].at \/ (~more /\ row.at + Window >= clock')
               PROVE  \E i \in 1..Len(list) : list[i].by = row.by
    BY DEF TiesOnly
  <2>1. row \in rows \cap old
    BY <1>2, <1>3
  <2>2. row.at \in Nat
    BY <2>1 DEF TypeInv, Row
  <2>3. row.at >= list[Len(list)].at \/ (~more /\ row.at + Window >= clock)
    BY <1>1, <2>2
  <2> QED BY <1>3, <2>1, <2>3 DEF TiesOnly
<1>4. known \subseteq Remembered /\ \A page \in loading : page.known \subseteq Remembered
  BY DEF Remembered
<1>5. UNCHANGED <<shown, hasMore, loading, known>>
  BY DEF viewer
<1> QED BY <1>3, <1>4, <1>5 DEF ListInv, ViewOK, Ordered

(* The page the store answers with fits behind the list.                    *)
LEMMA ListUnderLoadMore ==
  ASSUME TypeInv, RowsInv, ListInv, LoadMore
  PROVE  ListInv'
<1> PICK page \in Pages(Cursor) : \E s \in Sorted(page) :
           loading' = {[rows |-> s, more |-> page # Listed(Cursor),
                        known |-> IF shown = <<>> THEN rows ELSE known]}
  BY DEF LoadMore
<1> PICK s \in Sorted(page) :
           loading' = {[rows |-> s, more |-> page # Listed(Cursor),
                        known |-> IF shown = <<>> THEN rows ELSE known]}
  OBVIOUS
<1> PICK answer : answer = [rows |-> s, more |-> page # Listed(Cursor),
                            known |-> IF shown = <<>> THEN rows ELSE known]
  OBVIOUS
<1> DEFINE list == shown \o s
           n == Len(shown)
<1>0. /\ loading' = {answer} /\ answer.rows = s
      /\ answer.more <=> page # Listed(Cursor)
      /\ answer.known = IF shown = <<>> THEN rows ELSE known
  OBVIOUS
<1>1. UNCHANGED <<proc, schema, log, shown, hasMore, known>>
  BY DEF LoadMore
<1>2. /\ s \in Seq(Row) /\ Elements(s) = page /\ Ordered(s) /\ Len(s) = Cardinality(page)
      /\ page \subseteq rows /\ page \subseteq Listed(Cursor)
  BY PageTypes
<1>3. shown \in Seq(Row) /\ n \in Nat /\ Len(s) \in Nat
  BY <1>2 DEF TypeInv
<1>4. /\ \A x \in rows : x.at \in Nat \ {0} /\ x.by \in Handlers
      /\ \A x \in Row : x.at \in Nat \ {0} /\ x.by \in Handlers
      /\ clock \in Nat /\ Window \in Nat
  BY DEF TypeInv, Row
<1>5. /\ Len(list) = n + Len(s)
      /\ \A i \in 1..n : list[i] = shown[i]
      /\ \A i \in 1..Len(s) : list[n + i] = s[i]
      /\ Elements(list) = Elements(shown) \cup page
  <2>1. Elements(list) = Elements(shown) \cup Elements(s)
    BY <1>2, <1>3, Concatenation
  <2>2. Len(shown \o s) = Len(shown) + Len(s)
    BY <1>2, <1>3
  <2>3. \A i \in 1..Len(shown) : (shown \o s)[i] = shown[i]
    BY <1>2, <1>3, Concatenation
  <2>4. \A i \in 1..Len(s) : (shown \o s)[Len(shown) + i] = s[i]
    BY <1>2, <1>3, Concatenation
  <2> QED BY <1>2, <2>1, <2>2, <2>3, <2>4
<1>6. shown # <<>> => n \in 1..n /\ Cursor = shown[n].at /\ Cursor \in Nat \ {0}
  BY <1>3, <1>4 DEF Cursor
<1>7. \A x \in rows : x \in Listed(Cursor) <=>
        x.at + Window >= clock /\ (shown # <<>> => x.at < Cursor)
  BY <1>6 DEF Listed, Cursor
<1>8. \A i \in 1..Len(s) : s[i] \in page /\ s[i].at \in Nat
  BY <1>2, <1>4 DEF Elements
<1>9. \A i \in 1..n : shown[i].at >= Cursor /\ Cursor \in Nat \ {0}
  <2> SUFFICES ASSUME NEW i \in 1..n PROVE shown[i].at >= Cursor /\ Cursor \in Nat \ {0}
    OBVIOUS
  <2>1. shown # <<>> /\ shown[i].at \in Nat
    BY <1>3, <1>4
  <2>2. i < n => shown[i].at >= shown[n].at
    BY <1>3, <1>6, <2>1 DEF ListInv, ViewOK, Ordered
  <2>3. i < n \/ i = n
    BY <1>3
  <2> QED BY <1>6, <2>1, <2>2, <2>3
<1>10. Ordered(list)
  <2>1. \A i \in 1..n, j \in 1..Len(s) : shown[i].at > s[j].at
    <3> SUFFICES ASSUME NEW i \in 1..n, NEW j \in 1..Len(s) PROVE shown[i].at > s[j].at
      OBVIOUS
    <3>1. s[j] \in rows /\ s[j] \in Listed(Cursor) /\ shown # <<>> /\ shown[i].at \in Nat
      BY <1>2, <1>3, <1>4, <1>8
    <3>2. s[j].at < Cursor
      BY <1>7, <3>1
    <3> QED BY <1>8, <1>9, <3>1, <3>2
  <2> QED BY <1>2, <1>3, <1>4, <2>1, ConcatenationOrdered DEF ListInv, ViewOK
<1>11. TiesOnly(list, answer.more, answer.known)
  <2> SUFFICES ASSUME list # <<>>, NEW row \in rows \cap answer.known, row \notin Elements(list),
                      row.at >= list[Len(list)].at \/ (~answer.more /\ row.at + Window >= clock)
               PROVE  \E i \in 1..Len(list) : list[i].by = row.by
    BY DEF TiesOnly
  <2>1. row \in rows /\ row.at \in Nat /\ row \notin page /\ row \notin Elements(shown)
    BY <1>4, <1>5
  <2>2. CASE shown # <<>> /\ row.at >= Cursor
    <3>1. row \in known
      BY <1>0, <2>2
    <3>2. \E i \in 1..n : shown[i].by = row.by
      BY <1>6, <2>1, <2>2, <3>1 DEF ListInv, ViewOK, TiesOnly
    <3> QED BY <1>3, <1>5, <3>2
  <2>3. CASE shown # <<>> => row.at < Cursor
    <3>1. ~(~answer.more /\ row.at + Window >= clock)
      BY <1>0, <1>7, <2>1, <2>3
    <3>2. row.at >= list[Len(list)].at
      BY <3>1
    <3>3. s # <<>>
      <4> SUFFICES ASSUME s = <<>> PROVE FALSE
        OBVIOUS
      <4>1. Len(s) = 0 /\ shown # <<>>
        BY <1>3, <1>5
      <4>2. list[Len(list)] = shown[n]
        BY <1>3, <1>5, <1>6, <4>1
      <4> QED BY <1>4, <1>6, <2>1, <2>3, <3>2, <4>1, <4>2
    <3>4. Len(s) \in 1..Len(s) /\ list[Len(list)] = s[Len(s)]
      BY <1>2, <1>3, <1>5, <3>3
    <3> DEFINE last == s[Len(s)]
    <3>5. last \in page /\ last \in rows /\ last \in Listed(Cursor) /\ last.at \in Nat
      BY <1>2, <1>8, <3>4
    <3>6. row \in Listed(Cursor)
      BY <1>4, <1>7, <2>1, <2>3, <3>2, <3>4, <3>5
    <3>7. last.at >= row.at
      BY <2>1, <3>5, <3>6 DEF Pages
    <3>8. last.at = row.at
      BY <2>1, <3>2, <3>4, <3>5, <3>7
    <3>9. last.by = row.by
      <4>1. Recorded(last) /\ Recorded(row)
        BY <2>1, <3>5 DEF RowsInv, Remembered
      <4>2. last.by \in Handlers /\ row.by \in Handlers /\ row.at # 0
        BY <1>4, <2>1, <3>5
      <4> QED BY <3>8, <4>1, <4>2 DEF RowsInv, Recorded
    <3> QED BY <1>3, <1>5, <3>4, <3>9
  <2> QED BY <1>4, <1>6, <2>1, <2>2, <2>3
<1> HIDE DEF list
<1>12. ViewOK(list, answer.more, answer.known)
  BY <1>10, <1>11 DEF ViewOK
<1>13. UNCHANGED <<rows, clock>>
  BY <1>1 DEF log
<1>15. shown' = shown /\ hasMore' = hasMore /\ known' = known
  BY <1>1
<1>16. ViewOK(shown, hasMore, known)' /\ ViewOK(list, answer.more, answer.known)'
  BY <1>12, <1>13, <1>15 DEF ListInv, ViewOK, TiesOnly, Ordered, list
<1>17. \A a \in loading' : ViewOK(shown \o a.rows, a.more, a.known)'
  BY <1>0, <1>16 DEF list
<1> QED BY <1>16, <1>17 DEF ListInv

(* The answer arrives or is lost; the list is emptied.                      *)
LEMMA ListUnderViewer ==
  ASSUME TypeInv, ListInv, Loaded \/ LoadFails \/ Reset
  PROVE  ListInv'
<1> USE DEF log
<1>1. UNCHANGED <<rows, clock>>
  BY DEF Loaded, LoadFails, Reset
<1>2. CASE Loaded
  <2> PICK page \in loading : shown' = shown \o page.rows /\ hasMore' = page.more /\ known' = page.known
    BY <1>2 DEF Loaded
  <2> PICK list : list = shown \o page.rows
    OBVIOUS
  <2>1. ViewOK(list, page.more, page.known)
    BY DEF ListInv
  <2>2. shown' = list /\ hasMore' = page.more /\ known' = page.known
    OBVIOUS
  <2> PICK more, old : more = page.more /\ old = page.known
    OBVIOUS
  <2>3. ViewOK(shown, hasMore, known)'
    <3>1. Ordered(list) /\ TiesOnly(list, more, old)
      BY <2>1 DEF ViewOK
    <3>2. shown' = list /\ hasMore' = more /\ known' = old
      BY <2>2
    <3>3. Ordered(shown)'
      BY <3>1, <3>2 DEF Ordered
    <3>4. TiesOnly(shown, hasMore, known)'
      BY <1>1, <3>1, <3>2 DEF TiesOnly
    <3> QED BY <3>3, <3>4 DEF ViewOK
  <2>4. loading' = {}
    BY <1>2 DEF Loaded
  <2> QED BY <2>3, <2>4 DEF ListInv
<1>3. CASE LoadFails
  <2>1. loading' = {} /\ UNCHANGED <<shown, hasMore, known>>
    BY <1>3 DEF LoadFails
  <2>2. ViewOK(shown, hasMore, known)'
    BY <1>1, <2>1 DEF ListInv, ViewOK, Ordered, TiesOnly
  <2> QED BY <2>1, <2>2 DEF ListInv
<1>4. CASE Reset
  <2>1. shown' = <<>> /\ known' = {} /\ loading' = {[page EXCEPT !.known = {}] : page \in loading}
    BY <1>4 DEF Reset
  <2>2. ViewOK(shown, hasMore, known)'
    BY <2>1 DEF ViewOK, Ordered, TiesOnly
  <2>3. ASSUME NEW a \in loading' PROVE ViewOK(shown \o a.rows, a.more, a.known)'
    <3> PICK page \in loading : a = [page EXCEPT !.known = {}]
      BY <2>1
    <3>1. a.rows = page.rows /\ a.known = {} /\ page.rows \in Seq(Row)
      BY DEF TypeInv, Page
    <3>2. Ordered(<<>> \o page.rows)
      BY <3>1, SuffixOrdered DEF TypeInv, ListInv, ViewOK
    <3>3. TiesOnly(shown \o a.rows, a.more, a.known)'
      BY <3>1 DEF TiesOnly
    <3> QED BY <2>1, <3>1, <3>2, <3>3 DEF ViewOK, Ordered
  <2> QED BY <2>2, <2>3 DEF ListInv
<1> QED BY <1>2, <1>3, <1>4

-----------------------------------------------------------------------------
(* Theorems                                                                 *)

LEMMA Invariance == Spec => []IInv
<1>1. IInv /\ [Next]_vars => IInv'
  <2> SUFFICES ASSUME IInv, [Next]_vars PROVE IInv'
    OBVIOUS
  <2>1. TypeInv' /\ SchemaIsComplete' /\ RowsInv'
    BY TypeStep, SchemaStep, RowsStep DEF IInv
  <2>2. CASE UNCHANGED viewer
    BY <2>1, <2>2, ListUnderStore DEF IInv
  <2>3. CASE LoadMore
    BY <2>1, <2>3, ListUnderLoadMore DEF IInv
  <2>4. CASE Loaded \/ LoadFails \/ Reset
    BY <2>1, <2>4, ListUnderViewer DEF IInv
  <2> QED
    BY <2>2, <2>3, <2>4
       DEF Next, Start, Migrate, Migrated, MigrationFails, Exit, Arrive, Record, Purge, viewer, vars
<1> QED BY <1>1, InitIInv, PTL DEF Spec

(* The variables have their types; a handler is only at work in a process   *)
(* that is up.                                                              *)
THEOREM TypeCorrect == Spec => []TypeOK
<1>1. TypeInv => TypeOK
  <2> SUFFICES ASSUME TypeInv PROVE TypeOK
    OBVIOUS
  <2>1. Elements(shown) \cup known \subseteq Row
    BY DEF TypeInv, Elements
  <2> QED BY <2>1 DEF TypeInv, TypeOK, Row
<1> QED BY <1>1, Invariance, PTL DEF IInv

(* LogStore.migrate: whatever starts of whatever programs are interrupted   *)
(* wherever, the version never promises a table that does not exist.        *)
THEOREM SchemaStaysComplete == Spec => []SchemaIsComplete
<1> QED BY Invariance, PTL DEF IInv

(* The viewer lists no row twice, newest first, for any page size.          *)
THEOREM ListStaysOrdered == Spec => []ListIsOrdered
<1>1. ListInv => ListIsOrdered
  BY DEF ListInv, ViewOK, Ordered, ListIsOrdered
<1> QED BY <1>1, Invariance, PTL DEF IInv

(* The cursor passes over rows of listed handlers only.                     *)
THEOREM OnlyTiesAreMissed == Spec => []MissedOnlyTies
<1>1. ListInv => MissedOnlyTies
  BY DEF ListInv, ViewOK, TiesOnly, MissedOnlyTies, Missed
<1> QED BY <1>1, Invariance, PTL DEF IInv
=============================================================================
