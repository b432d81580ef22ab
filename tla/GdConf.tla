-------------------------------- MODULE GdConf --------------------------------
(***************************************************************************)
(* The configuration tables of a game server (internal/gdconf): loaded     *)
(* from the database table by table, the items in pages, then the          *)
(* functions registered to run after the load, in the order of their       *)
(* priorities.  The tool gen_gdconf publishes new tables: it drops the     *)
(* database before it parses the sheets and writes them.                   *)
(***************************************************************************)
EXTENDS Integers, Sequences, FiniteSets, SequencesExt

CONSTANTS
  Items,          \* ids of the rows of the item table
  Level,          \* Item.Level of each row
  LoadBatchSize,  \* loadBatchSize
  Priorities,     \* priorities of functions registered to run after the load
  MaxFuncs,       \* bound: such functions
  MaxPublishes,   \* bound: publications of the tables
  NoTable         \* a table that is not loaded

ASSUME ConfAssumption ==
  /\ LoadBatchSize \in Nat \ {0} /\ {MaxPublishes, MaxFuncs} \subseteq Nat
  /\ Priorities \subseteq Int /\ NoTable \notin Seq(Items)
  /\ IsFiniteSet(Items) /\ Level \in [Items -> Nat]

VARIABLES
  rows,        \* the stored item table: rows in the order find returns them
  globalDoc,   \* the row of the global table is stored
  publishing,  \* gen_gdconf runs and has yet to write these rows
  publishes,   \* publications begun
  load,        \* the loader: idle, global, items, after, loaded, failed
  entries,     \* rows of the item table read so far
  torn,        \* the tables were not complete all through the load
  tblItem,     \* apTblItem
  levels       \* levelOfItems

confVars == <<rows, globalDoc, publishing, publishes, load, entries, torn, tblItem, levels>>
dbVars == <<rows, globalDoc, publishing, publishes>>
loadVars == <<load, entries, tblItem, levels>>

IsOrderOf(s, S) == Len(s) = Cardinality(S) /\ {s[i] : i \in DOMAIN s} = S

ConfInit ==
  /\ rows \in {s \in [1 .. Cardinality(Items) -> Items] : IsOrderOf(s, Items)}
  /\ globalDoc = TRUE /\ publishing = {} /\ publishes = 0
  /\ load = "idle" /\ entries = <<>> /\ torn = FALSE
  /\ tblItem = NoTable /\ levels = NoTable

-----------------------------------------------------------------------------
(* gen_gdconf *)

Loading == load \in {"global", "items"}

\* The database is dropped, the sheets are parsed next.  What is published
\* once the server has read the tables is of no concern to it.
Drop ==
  /\ load \in {"idle", "global", "items"}
  /\ publishes < MaxPublishes /\ publishing = {} /\ publishes' = publishes + 1
  /\ rows' = <<>> /\ globalDoc' = FALSE /\ publishing' = Items
  /\ torn' = (torn \/ Loading)
  /\ UNCHANGED loadVars

\* A row is written, in any order; the global table with the last one or,
\* when the sheets do not parse or the export fails, never.
Export ==
  /\ load \in {"idle", "global", "items"}
  /\ publishing # {}
  /\ \/ \E i \in publishing :
          /\ rows' = Append(rows, i) /\ publishing' = publishing \ {i}
          /\ globalDoc' \in {globalDoc, TRUE}
          /\ publishing' = {} => globalDoc'
     \/ publishing' = {} /\ UNCHANGED <<rows, globalDoc>>
  /\ torn' = (torn \/ Loading)
  /\ UNCHANGED <<publishes, loadVars>>

-----------------------------------------------------------------------------
(* Registration *)

\* Mutant: the new function goes before those of its own priority.
InsertBefore(funcs, info) ==
  InsertAt(funcs, CHOOSE i \in 1 .. Len(funcs) + 1 :
                    /\ \A j \in 1 .. i - 1 : funcs[j].priority < info.priority
                    /\ \A j \in i .. Len(funcs) : funcs[j].priority >= info.priority, info)

\* RegisterAfterLoadFunc: at the first place, found by sort.Search, whose
\* function has a greater priority.
Insert(funcs, info) ==
  InsertAt(funcs, CHOOSE i \in 1 .. Len(funcs) + 1 :
                    /\ \A j \in 1 .. i - 1 : funcs[j].priority <= info.priority
                    /\ i <= Len(funcs) => funcs[i].priority > info.priority, info)

\* afterLoadFuncs once functions of these priorities were registered; nth is
\* the place of a function in that order.
AfterLoadFuncs(priorities) ==
  FoldLeft(Insert, <<>>,
           [n \in DOMAIN priorities |-> [priority |-> priorities[n], nth |-> n]])

-----------------------------------------------------------------------------
(* Loading *)

Complete == publishing = {} /\ globalDoc /\ Len(rows) = Cardinality(Items)

BeginLoad ==
  /\ load = "idle" /\ load' = "global"
  /\ torn' = ~Complete
  /\ UNCHANGED <<dbVars, entries, tblItem, levels>>

\* The global table; the query may fail.
LoadGlobal ==
  /\ load = "global"
  /\ load' \in {"failed"} \cup (IF globalDoc THEN {"items"} ELSE {})
  /\ UNCHANGED <<dbVars, entries, torn, tblItem, levels>>

\* The next page of a find that skips what was read.
Page ==
  LET last == Len(entries) + LoadBatchSize
  IN  SubSeq(rows, Len(entries) + 1, IF last < Len(rows) THEN last ELSE Len(rows))

\* Mutant: a page that fills the batch is taken for the last one.
LastPageWrong == Len(Page) <= LoadBatchSize

LastPage == Len(Page) < LoadBatchSize

\* loadNormal: pages until one is short; then tblItem.init and the store.
LoadItems ==
  /\ load = "items"
  /\ \/ /\ entries' = entries \o Page
        /\ IF LastPage THEN load' = "after" /\ tblItem' = entries'
                       ELSE UNCHANGED <<load, tblItem>>
     \/ load' = "failed" /\ UNCHANGED <<entries, tblItem>>
  /\ UNCHANGED <<dbVars, torn, levels>>

\* The functions after the load, here the one that orders the items by level.
RunAfterLoad ==
  /\ load = "after" /\ load' = "loaded" /\ entries' = <<>>
  /\ levels' = [l \in {Level[i] : i \in Items} |-> SelectSeq(tblItem, LAMBDA i : Level[i] = l)]
  /\ UNCHANGED <<dbVars, torn, tblItem>>

Publish == Drop \/ Export
LoadStep == BeginLoad \/ LoadGlobal \/ LoadItems \/ RunAfterLoad
=============================================================================
