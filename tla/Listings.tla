------------------------------ MODULE Listings ------------------------------
(***************************************************************************)
(* What the desktop tools answer piece by piece: the catalogue of          *)
(* applications and windows (crates/desktop-api/src/semantic/targets.rs)   *)
(* by a query, and the candidates and regions of an observation            *)
(* (crates/nuphus-mcp/src/tools/semantic.rs) by its token.  A page holds   *)
(* so many entries and so many characters; the rest is asked for with the  *)
(* cursor it ends at, while windows come and go and others list too.  And  *)
(* the applications the user adds to the catalogue (targets/               *)
(* registered.rs), by several threads of one process.                      *)
(*                                                                         *)
(* Applications and windows are numbered as they are sorted.  An entry     *)
(* takes one unit of a page, the heading of its application another.       *)
(***************************************************************************)
EXTENDS Naturals, Sequences, FiniteSets

CONSTANTS
    LastApp, LastWindow,            \* applications are 1 .. LastApp, windows 1 .. LastWindow
    Queries,        \* what is asked for: [apps, titles], the applications and windows it fits
    Asker,          \* agents that page through a listing
    Registrar,      \* threads that register an application
    PageRows, PageBudget,           \* 20 and 6500 in the code
    MaxCatalogs,    \* 32
    MaxListEvents   \* bound: windows that come or go, new observations

ASSUME ListingsAssumption ==
    /\ {LastApp, LastWindow, PageRows, MaxCatalogs} \subseteq Nat \ {0}
    /\ PageBudget \in Nat \ {0, 1} /\ MaxListEvents \in Nat
    /\ [apps |-> {}, titles |-> {}] \notin Queries

VARIABLES
    onScreen,       \* the windows there are: <<application, window>>
    offeredRows,    \* the candidates of the last observation, and what stands for its token
    catalogs,       \* State.catalogs: of each query, its snapshot or {}
    walk,           \* of each agent: [of, cursor, seen, first, next] or {}
    registered,     \* desktop-applications.json
    acknowledged,   \* history: applications whose registration was answered
    registrar,      \* of each thread: [at, app, entries]
    listEvents

listVars == <<onScreen, offeredRows, catalogs, walk, registered, acknowledged, registrar, listEvents>>

Apps == 1 .. LastApp
Rows == Apps \X (0 .. LastWindow)

\* All entries in their order; window 0 stands for an application that has none.
Places == [i \in 1 .. LastApp * (LastWindow + 1) |->
             <<1 + (i - 1) \div (LastWindow + 1), (i - 1) % (LastWindow + 1)>>]

\* The entries of a set in that order.
InOrder(rows) ==
    LET nth(k) == CHOOSE i \in DOMAIN Places :
                      Places[i] \in rows /\ Cardinality({j \in 1 .. i : Places[j] \in rows}) = k
    IN  [k \in 1 .. Cardinality(rows) |-> Places[nth(k)]]

\* catalog_snapshot: an application that fits is listed with all its windows, or
\* alone; one that does not, with the windows that do.
Fitting(q, row) ==
    IF row[2] = 0
    THEN row[1] \in registered \cap q.apps /\ ~\E w \in onScreen : w[1] = row[1]
    ELSE row \in onScreen /\ (row[1] \in q.apps \/ row[2] \in q.titles)
CatalogSnapshot(q) == InOrder({row \in Rows : Fitting(q, row)})

\* What is listed is a query's rows, or those of the observation.
Space == [apps |-> {}, titles |-> {}]

\* What n entries from the cursor on take; a catalogue has headings.
Size(of, rows, cursor, n) ==
    n + Cardinality({i \in cursor + 1 .. cursor + n :
                       of # Space /\ (i = cursor + 1 \/ rows[i][1] # rows[i - 1][1])})

Longest(ns) == CHOOSE n \in ns : \A m \in ns : m <= n
Taken(of, rows, cursor) ==
    LET left == Len(rows) - cursor
    IN  Longest({n \in 0 .. left : n <= PageRows /\ Size(of, rows, cursor, n) <= PageBudget})

\* Mutant: the cursor counts the entries asked for, not those the budget has left room for.
NextByRows(of, rows, cursor) ==
    IF Len(rows) - cursor < PageRows THEN Len(rows) ELSE cursor + PageRows

\* catalog_page, action_space_page, region_page: the cursor a page ends at.
NextCursor(of, rows, cursor) == cursor + Taken(of, rows, cursor)

\* The agent goes on from a page of these rows.
Turned(step, rows) ==
    LET last == step.cursor + Taken(step.of, rows, step.cursor)
        next == NextCursor(step.of, rows, step.cursor)
    IN  {[of |-> step.of, cursor |-> next, seen |-> step.seen \o SubSeq(rows, step.cursor + 1, last),
          first |-> step.first, next |-> next < Len(rows)]}

AtStart(of, rows) == [of |-> of, cursor |-> 0, seen |-> <<>>, first |-> {rows}, next |-> FALSE]

\* A walk whose rows have been replaced is not of one listing any more.
Disturbed(of) ==
    [a \in Asker |-> {IF step.of = of THEN [step EXCEPT !.first = {}] ELSE step : step \in walk[a]}]

-----------------------------------------------------------------------------
(* desktop_targets_list *)

\* list with cursor 0: a new snapshot, for all who ask the same.
Catalogue(a, q) ==
    LET rows == CatalogSnapshot(q)
        full == Cardinality({p \in Queries : catalogs[p] # {}}) >= MaxCatalogs
    IN  /\ catalogs' = [p \in Queries |->
              IF p = q THEN {rows} ELSE IF full /\ catalogs[q] = {} THEN {} ELSE catalogs[p]]
        /\ walk' = [Disturbed(q) EXCEPT ![a] = Turned(AtStart(q, rows), rows)]
        /\ UNCHANGED <<onScreen, offeredRows, registered, acknowledged, registrar, listEvents>>

\* Mutant: a page is made of what there is now.
Live(q) == {CatalogSnapshot(q)}

RowsOf(q) == catalogs[q]

\* list with the cursor of the page before: of the snapshot, whoever made it.  It
\* may be gone, or shorter than the cursor.
TurnsPage(a) ==
    /\ \E step \in walk[a] :
          /\ step.next /\ step.of \in Queries
          /\ IF \E rows \in RowsOf(step.of) : step.cursor <= Len(rows)
             THEN \E rows \in RowsOf(step.of) : walk' = [walk EXCEPT ![a] = Turned(step, rows)]
             ELSE walk' = [walk EXCEPT ![a] = {}]
    /\ UNCHANGED <<onScreen, offeredRows, catalogs, registered, acknowledged, registrar, listEvents>>

-----------------------------------------------------------------------------
(* desktop_semantic_observe with a token: candidates and regions *)

\* The first page comes with the observation.
OpensSpace(a) ==
    /\ offeredRows # <<>>
    /\ walk' = [walk EXCEPT ![a] = Turned(AtStart(Space, offeredRows), offeredRows)]
    /\ UNCHANGED <<onScreen, offeredRows, catalogs, registered, acknowledged, registrar, listEvents>>

\* A token of an earlier observation is refused.
TurnsOffered(a) ==
    /\ \E step \in walk[a] :
          /\ step.next /\ step.of = Space
          /\ walk' = [walk EXCEPT ![a] = IF step.first = {offeredRows} THEN Turned(step, offeredRows) ELSE {}]
    /\ UNCHANGED <<onScreen, offeredRows, catalogs, registered, acknowledged, registrar, listEvents>>

-----------------------------------------------------------------------------
(* register_user_application *)

\* Mutant: entries are read and written without the lock.
Unlocked(r) == registrar[r].at = "idle"

\* WRITE_LOCK
LockFree(r) == \A other \in Registrar : registrar[other].at = "idle"

\* save: what is registered stays as it is.
Registers(r, app) ==
    /\ LockFree(r)
    /\ IF app \in registered
       THEN acknowledged' = acknowledged \cup {app} /\ UNCHANGED registrar
       ELSE /\ registrar' = [registrar EXCEPT ![r] = [at |-> "write", app |-> app, entries |-> registered \cup {app}]]
            /\ UNCHANGED acknowledged
    /\ UNCHANGED <<onScreen, offeredRows, catalogs, walk, registered, listEvents>>

Free(r) == registrar' = [registrar EXCEPT ![r] = [at |-> "idle", app |-> 0, entries |-> {}]]

\* A temporary file takes the place of the old one, or the old one stays.
Renames(r) ==
    /\ registrar[r].at = "write"
    /\ registered' = registrar[r].entries
    /\ acknowledged' = acknowledged \cup {registrar[r].app}
    /\ Free(r)
    /\ UNCHANGED <<onScreen, offeredRows, catalogs, walk, listEvents>>

SaveFails(r) ==
    /\ registrar[r].at = "write" /\ Free(r)
    /\ UNCHANGED <<onScreen, offeredRows, catalogs, walk, registered, acknowledged, listEvents>>

-----------------------------------------------------------------------------
ListHappens == listEvents < MaxListEvents /\ listEvents' = listEvents + 1

ScreenChanges(w) ==
    /\ ListHappens
    /\ onScreen' = IF w \in onScreen THEN onScreen \ {w} ELSE onScreen \cup {w}
    /\ UNCHANGED <<offeredRows, catalogs, walk, registered, acknowledged, registrar>>

\* Another observation: another token.
NewObservation ==
    /\ ListHappens
    /\ offeredRows' = InOrder(onScreen)
    /\ offeredRows' # offeredRows
    /\ walk' = Disturbed(Space)
    /\ UNCHANGED <<onScreen, catalogs, registered, acknowledged, registrar>>

ListingsInit ==
    /\ onScreen = {w \in Apps \X (1 .. LastWindow) : w[2] # w[1]}
    /\ offeredRows = <<>>
    /\ catalogs = [q \in Queries |-> {}] /\ walk = [a \in Asker |-> {}]
    /\ registered = {} /\ acknowledged = {}
    /\ registrar = [r \in Registrar |-> [at |-> "idle", app |-> 0, entries |-> {}]]
    /\ listEvents = 0

ListingsNext ==
    \/ \E a \in Asker : TurnsPage(a) \/ OpensSpace(a) \/ TurnsOffered(a) \/ \E q \in Queries : Catalogue(a, q)
    \/ \E r \in Registrar : Renames(r) \/ SaveFails(r) \/ \E app \in Apps : Registers(r, app)
    \/ \E w \in Apps \X (1 .. LastWindow) : ScreenChanges(w)
    \/ NewObservation

-----------------------------------------------------------------------------
ListingsTypeOK ==
    /\ onScreen \subseteq Apps \X (1 .. LastWindow)
    /\ \A q \in Queries : Cardinality(catalogs[q]) <= 1
    /\ Cardinality({q \in Queries : catalogs[q] # {}}) <= MaxCatalogs
    /\ \A a \in Asker : \A step \in walk[a] :
          step.of \in Queries \cup {Space} /\ step.cursor \in Nat /\ step.next \in BOOLEAN
    /\ registered \subseteq Apps /\ acknowledged \subseteq Apps
    /\ \A r \in Registrar : registrar[r].at \in {"idle", "write"}
    /\ listEvents \in 0 .. MaxListEvents

\* Whoever follows the cursors of a listing to their end has seen every entry of it
\* once and in order, whatever has opened, closed or been listed meanwhile; unless
\* the same query was asked anew, which replaces the rows under the cursor
\* (catalog_page 741-786, list 256-268, action_space_page 1337-1350).
ListingIsWhole ==
    \A a \in Asker : \A step \in walk[a] :
        step.first # {} /\ ~step.next => step.first = {step.seen}

\* An application whose registration was answered stays registered, also when two
\* threads register at once and one of them fails (save 34-58).
RegisteredStays == acknowledged \subseteq registered
=============================================================================
