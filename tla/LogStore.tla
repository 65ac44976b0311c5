--------------------------------- MODULE LogStore ---------------------------------
(***************************************************************************)
(* MCPTap's request log: a SQLite database that every start of the program *)
(* migrates to its schema, handlers that append rows, the retention task   *)
(* that deletes old ones, and the log viewer that pages through it         *)
(* (mcptap/log_store.py, log_retention.py, log_api.py, static/logs.html).  *)
(*                                                                         *)
(* SQLite makes each committed statement durable or not at all; the        *)
(* process may end between any two statements.                             *)
(***************************************************************************)
EXTENDS Naturals, FiniteSets, Sequences

CONSTANTS
  Handlers,     (* handlers of a logged request                             *)
  MaxRows,      (* bound: rows of one handler, one per post of its loop     *)
  Limit,        (* page size                                                *)
  Window,       (* the viewer's time range                                  *)
  Latest,       (* the last migration there is                              *)
  MaxStarts     (* bound: starts of the program                             *)

ASSUME LimitAssumption == Limit \in Nat \ {0} /\ Window \in Nat
ASSUME BoundsAssumption == MaxRows \in Nat /\ Latest \in Nat /\ MaxStarts \in Nat

VARIABLES
  proc,      (* the process: down, migrating, running, or running disabled  *)
  program,   (* the last migration the running program knows                *)
  tables,    (* migrations whose table exists                               *)
  version,   (* PRAGMA user_version                                         *)
  starts,    (* starts so far                                               *)
  clock,     (* time.time(), as a count of the requests started             *)
  handler,   (* start time of a request in flight, 0 before, and its rows   *)
  rows,      (* table request_logs                                          *)
  shown,     (* the rows the viewer lists                                   *)
  hasMore,   (* the viewer expects another page                             *)
  loading,   (* the page on its way to the viewer, or none                  *)
  known      (* history: the rows there were when the viewer read page one  *)

schema == <<program, tables, version, starts>>
log == <<clock, handler, rows>>
viewer == <<shown, hasMore, loading, known>>
vars == <<proc, schema, log, viewer>>

Migrations == 1..Latest
Elements(s) == {s[i] : i \in 1..Len(s)}

TypeOK ==
  /\ proc \in {"down", "migrating", "running", "disabled"}
  /\ program \in Migrations
  /\ tables \subseteq Migrations
  /\ version \in 0..Latest
  /\ handler \in [Handlers -> [start : 0..clock, count : 0..MaxRows, open : BOOLEAN]]
  /\ \A h \in Handlers : handler[h].open => proc \in {"running", "disabled"}
  /\ \A row \in rows : row.by \in Handlers /\ row.at \in 1..clock
  /\ Elements(shown) \cup known \subseteq [by : Handlers, number : 1..MaxRows, at : 1..clock]
  /\ hasMore \in BOOLEAN
  /\ \A p, q \in loading : p = q

(* A database of any older program, or none. *)
Init ==
  /\ proc = "down"
  /\ program \in Migrations
  /\ version \in 0..program
  /\ tables = 1..version
  /\ starts = 0
  /\ clock = 0
  /\ handler = [h \in Handlers |-> [start |-> 0, count |-> 0, open |-> FALSE]]
  /\ rows = {}
  /\ shown = <<>>
  /\ hasMore = TRUE
  /\ loading = {}
  /\ known = {}

-----------------------------------------------------------------------------
(* migrate.                                                                 *)

Start ==
  /\ proc = "down"
  /\ starts < MaxStarts
  /\ starts' = starts + 1
  /\ program' \in Migrations
  /\ proc' = "migrating"
  /\ UNCHANGED <<tables, version, log, viewer>>

Pending == {m \in 1..program : m > version}
Earliest == CHOOSE m \in Pending : \A n \in Pending : m <= n

(* Slip: the version is set before the table exists. *)
VersionFirst ==
  /\ proc = "migrating"
  /\ Pending # {}
  /\ \/ /\ version' = Earliest
        /\ UNCHANGED tables
     \/ /\ tables' = tables \cup {Earliest}
        /\ version' = Earliest
  /\ UNCHANGED <<proc, program, starts, log, viewer>>

(* executescript runs a migration statement by statement, each committed by *)
(* itself: the table, if it does not exist, and at last the version.        *)
Migrate ==
  /\ proc = "migrating"
  /\ Pending # {}
  /\ \/ /\ Earliest \notin tables
        /\ tables' = tables \cup {Earliest}
        /\ UNCHANGED version
     \/ /\ Earliest \in tables
        /\ version' = Earliest
        /\ UNCHANGED tables
  /\ UNCHANGED <<proc, program, starts, log, viewer>>

Migrated ==
  /\ proc = "migrating"
  /\ Pending = {}
  /\ proc' = "running"
  /\ UNCHANGED <<schema, log, viewer>>

(* build_app goes on with a store that is not enabled. *)
MigrationFails ==
  /\ proc = "migrating"
  /\ proc' = "disabled"
  /\ UNCHANGED <<schema, log, viewer>>

(* Slip: the store is closed while handlers go on. *)
ExitKeepsHandlers ==
  /\ proc # "down"
  /\ proc' = "down"
  /\ UNCHANGED <<schema, log, viewer>>

(* A crash or the end of the program: the requests in flight leave no row.  *)
Exit ==
  /\ proc # "down"
  /\ proc' = "down"
  /\ handler' = [h \in Handlers |-> [handler[h] EXCEPT !.open = FALSE]]
  /\ UNCHANGED <<schema, clock, rows, viewer>>

-----------------------------------------------------------------------------
(* Rows.                                                                    *)

Arrive(h) ==
  /\ proc \in {"running", "disabled"}
  /\ handler[h].start = 0
  /\ clock' = clock + 1
  /\ handler' = [handler EXCEPT ![h] = [start |-> clock', count |-> 0, open |-> TRUE]]
  /\ UNCHANGED <<proc, schema, rows, viewer>>

(* record_from_response after each post: the time is that of the handler's  *)
(* start, so rows appear late and the rows of one handler have one time.    *)
Record(h) ==
  /\ handler[h].open
  /\ handler[h].count < MaxRows
  /\ \E more \in BOOLEAN :
       handler' = [handler EXCEPT ![h].count = @ + 1, ![h].open = more]
  /\ rows' = IF proc = "running"
             THEN rows \cup {[by |-> h, number |-> handler'[h].count, at |-> handler[h].start]}
             ELSE rows
  /\ UNCHANGED <<proc, schema, clock, viewer>>

Purge ==
  /\ proc = "running"
  /\ \E cutoff \in 1..clock :
       /\ rows' = {row \in rows : row.at >= cutoff}
       /\ rows' # rows
  /\ UNCHANGED <<proc, schema, clock, handler, viewer>>

-----------------------------------------------------------------------------
(* The viewer.                                                              *)

(* Slip: the cursor is inclusive. *)
ListedInclusive(before) ==
  {row \in rows : row.at + Window >= clock /\ (before # 0 => row.at <= before)}

(* The rows of the chosen time range that are older than the cursor, which  *)
(* is 0 for the first page.                                                 *)
Listed(before) ==
  {row \in rows : row.at + Window >= clock /\ (before # 0 => row.at < before)}

(* query: the newest of them, in any order among rows of one time.          *)
Pages(before) ==
  {page \in SUBSET Listed(before) :
     /\ Cardinality(page) <= Limit
     /\ Cardinality(page) < Limit => page = Listed(before)
     /\ \A row \in page, other \in Listed(before) \ page : row.at >= other.at}

Sorted(page) ==
  {s \in [1..Cardinality(page) -> page] :
     \A i, j \in DOMAIN s : i < j => s[i] # s[j] /\ s[i].at >= s[j].at}

(* The time of the last row listed. *)
Cursor == IF shown = <<>> THEN 0 ELSE shown[Len(shown)].at

(* Slip: a full page has a successor. *)
LoadMoreByLength ==
  /\ proc = "running"
  /\ hasMore /\ loading = {}
  /\ \E page \in Pages(Cursor) : \E s \in Sorted(page) :
       loading' = {[rows |-> s, more |-> Cardinality(page) < Limit,
                    known |-> IF shown = <<>> THEN rows ELSE known]}
  /\ UNCHANGED <<proc, schema, log, shown, hasMore, known>>

(* loadMore asks for the rows older than the last one listed, one page at a *)
(* time; handle_logs_list answers.                                          *)
LoadMore ==
  /\ proc = "running"
  /\ hasMore /\ loading = {}
  /\ \E page \in Pages(Cursor) : \E s \in Sorted(page) :
       loading' = {[rows |-> s, more |-> page # Listed(Cursor),
                    known |-> IF shown = <<>> THEN rows ELSE known]}
  /\ UNCHANGED <<proc, schema, log, shown, hasMore, known>>

(* The answer arrives ... *)
Loaded ==
  /\ \E page \in loading :
       /\ shown' = shown \o page.rows
       /\ hasMore' = page.more
       /\ known' = page.known
  /\ loading' = {}
  /\ UNCHANGED <<proc, schema, log>>

(* ... or does not. *)
LoadFails ==
  /\ loading # {}
  /\ loading' = {}
  /\ UNCHANGED <<proc, schema, log, shown, hasMore, known>>

(* onRangeChange empties the list, even under a load: its page comes first  *)
(* in the new list, which then is not known to begin with the newest row.   *)
Reset ==
  /\ shown # <<>> \/ loading # {}
  /\ shown' = <<>>
  /\ hasMore' = TRUE
  /\ known' = {}
  /\ loading' = {[page EXCEPT !.known = {}] : page \in loading}
  /\ UNCHANGED <<proc, schema, log>>

Next ==
  \/ Start \/ Migrate \/ Migrated \/ MigrationFails \/ Exit
  \/ \E h \in Handlers : Arrive(h) \/ Record(h)
  \/ Purge
  \/ LoadMore \/ Loaded \/ LoadFails \/ Reset

Spec == Init /\ [][Next]_vars

-----------------------------------------------------------------------------
(* Properties.                                                              *)

(* Wherever a migration was interrupted, and whichever program follows, the *)
(* recorded version never promises a table that does not exist, and a       *)
(* running store has all tables its program uses.                           *)
SchemaIsComplete ==
  /\ 1..version \subseteq tables
  /\ proc = "running" => 1..program \subseteq tables

(* However rows are added late or deleted while the viewer pages, no row is *)
(* listed twice and the list stays newest first.                            *)
ListIsOrdered ==
  \A i, j \in 1..Len(shown) : i < j => shown[i] # shown[j] /\ shown[i].at >= shown[j].at

Missed(row) == row \in rows \cap known /\ row \notin Elements(shown)

(* A row that was there from the first page on is passed over only if it    *)
(* has the time of a listed row, that is, comes from the same handler; at   *)
(* the end of the list nothing else of the time range is missing.  (A list  *)
(* emptied under a load is excepted: nothing is known of its first page.)   *)
MissedOnlyTies ==
  shown # <<>> =>
    \A row \in rows : Missed(row) /\ (row.at >= shown[Len(shown)].at \/ (~hasMore /\ row.at + Window >= clock))
                        => \E i \in 1..Len(shown) : shown[i].by = row.by
=============================================================================
