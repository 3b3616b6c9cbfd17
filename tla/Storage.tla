------------------------------ MODULE Storage ------------------------------
(***************************************************************************)
(* The storage of the Gateway plugin (Build/Plugins/Gateway.lua, Database  *)
(* and Storage): two tables in memory, Public and Private, written out by  *)
(* Save as two tables of an SQLite database.  Save drops, creates and      *)
(* fills one table after the other; each query commits on its own, so the  *)
(* program can end, or a query can fail, between any two of them.          *)
(***************************************************************************)
EXTENDS Integers, FiniteSets

CONSTANTS
    StringKeys,    \* keys of type string
    OtherKeys,     \* keys of another type: Save leaves them out
    QuotedKeys,    \* string keys with an apostrophe that ends their literal
    Unquoted,      \* the name SQLite reads: two apostrophes in a key are one
    Column,        \* its column of that name: letter case is ignored
    Inputs,        \* what the program stores: triples of table, key and value
    Removals,      \* what it sets to nil: pairs of table and key
    Faults,        \* queries that may fail for reasons outside the program
    NoTable,       \* a table that is nil in memory or missing in the database
    NoRow          \* a table of the database that has columns and no row

Keys == StringKeys \cup OtherKeys

(* Values by how they travel.  Nothing escapes apostrophes: a text without *)
(* one, with one that ends its literal (quoted), with two that SQLite reads*)
(* as one (doubled), and with literals and an operator that SQLite         *)
(* evaluates to a text (spliced).  Numbers that six decimals hold, those   *)
(* they do not (fine), floats beyond the integers (huge), infinities and   *)
(* NaN.  Booleans, and the types Save has no format for (table).           *)
Values == {"text", "quoted", "doubled", "spliced",
           "number", "fine", "huge", "infinite", "boolean", "table"}

Tables == {"public", "private"}

ASSUME StorageAssumption ==
    /\ QuotedKeys \subseteq StringKeys
    /\ Unquoted \in [StringKeys -> StringKeys]
    /\ StringKeys \cap OtherKeys = {}
    /\ Inputs \subseteq Tables \X Keys \X Values
    /\ Removals \subseteq Tables \X Keys
    /\ Faults \subseteq {"exists", "drop", "create", "insert"}

(* Contents of a table: a value for each key that is present.              *)
Contents == UNION {[S -> Values] : S \in SUBSET Keys}

(* A missing table, an empty one and contents are told apart.              *)
ASSUME MarksAssumption ==
    /\ NoTable # NoRow
    /\ NoTable \notin Contents
    /\ NoRow \notin Contents

VARIABLES
    pc,        \* "down", "up", or the next query of a Save
    saving,    \* the table a Save is at
    memory,    \* Gateway.Private.Storage.Public and .Private
    disk,      \* the tables of the database
    intact,    \* history: no Save has been cut short or failed since the last good one
    snapshot   \* history: the memory the last good Save wrote

vars == <<pc, saving, memory, disk, intact, snapshot>>

TypeOK ==
    /\ pc \in {"down", "up", "format", "drop", "create", "insert"}
    /\ saving \in Tables
    /\ memory \in [Tables -> Contents \cup {NoTable}]
    /\ disk \in [Tables -> Contents \cup {NoTable, NoRow}]
    /\ intact \in BOOLEAN
    /\ snapshot \in [Tables -> Contents \cup {NoTable}]

Init ==
    /\ pc = "down"
    /\ saving = "public"
    /\ memory = [t \in Tables |-> NoTable]
    /\ disk = [t \in Tables |-> NoTable]
    /\ intact = TRUE
    /\ snapshot = memory

-----------------------------------------------------------------------------
(* Loading.                                                                *)

(* LoadTable of a table that can be read: the last row, or nil.            *)
Loaded(t) == IF disk[t] \in {NoTable, NoRow} THEN NoTable ELSE disk[t]

(* A query on sqlite_master that fails makes TableExists return false, so  *)
(* LoadTable reports success and no table.  (When reading a table fails,   *)
(* Load fails and Gateway.Init with it: the program stays down.)           *)
Load ==
    /\ pc = "down"
    /\ \E unseen \in SUBSET (IF "exists" \in Faults THEN Tables ELSE {}) :
         memory' = [t \in Tables |-> IF t \in unseen THEN NoTable ELSE Loaded(t)]
    /\ pc' = "up"
    /\ UNCHANGED <<saving, disk, intact, snapshot>>

-----------------------------------------------------------------------------
(* The program stores a value under a key, or removes a key.               *)

Entries(t) == IF memory[t] = NoTable THEN {} ELSE DOMAIN memory[t]

Set(t, key, value) ==
    /\ pc = "up"
    /\ memory' = [memory EXCEPT ![t] =
                    [k \in Entries(t) \cup {key} |-> IF k = key THEN value ELSE memory[t][k]]]
    /\ UNCHANGED <<pc, saving, disk, intact, snapshot>>

(* Mutant: a table that lost its last key becomes nil.                     *)
RemoveEmpties(t, key) ==
    /\ pc = "up"
    /\ memory' = [memory EXCEPT ![t] =
                    IF Entries(t) \subseteq {key} THEN NoTable
                    ELSE [k \in Entries(t) \ {key} |-> memory[t][k]]]
    /\ UNCHANGED <<pc, saving, disk, intact, snapshot>>

Remove(t, key) ==
    /\ pc = "up"
    /\ memory' = [memory EXCEPT ![t] = [k \in Entries(t) \ {key} |-> memory[t][k]]]
    /\ UNCHANGED <<pc, saving, disk, intact, snapshot>>

-----------------------------------------------------------------------------
(* Saving.                                                                 *)

Columns(contents) == DOMAIN contents \cap StringKeys

(* What comes back of a value: '%f' keeps six decimals, SQLite's reading   *)
(* of an unescaped text is another text, and tonumber makes nil of the inf *)
(* and nan that '%f' writes.                                               *)
Stored(value) == CASE value = "fine"    -> "number"
                   [] value = "doubled" -> "quoted"
                   [] value = "spliced" -> "text"
                   [] OTHER             -> value

Kept(contents) == {k \in Columns(contents) : contents[k] # "infinite"}

Image(contents) ==
    IF contents = NoTable THEN NoTable
    ELSE [name \in {Unquoted[k] : k \in Kept(contents)} |->
            Stored(contents[CHOOSE k \in Kept(contents) : Unquoted[k] = name])]

(* CREATE TABLE wants a column, distinct names, and literals that end well.*)
CreateAccepts(contents) ==
    /\ Columns(contents) # {}
    /\ Columns(contents) \cap QuotedKeys = {}
    /\ \A k, l \in Columns(contents) : Column[k] = Column[l] => k = l

(* INSERT wants literals that end well, and one value per column.          *)
InsertAccepts(contents) ==
    \A k \in Columns(contents) : contents[k] \notin {"quoted", "table"}

(* string.format('%i') raises an error for a float beyond the integers,    *)
(* before the first query of that table.                                   *)
Formats(contents) ==
    \A k \in Columns(contents) : contents[k] # "huge"

(* Save goes to a table, over a nil table it has nothing to do for.        *)
SaveTable(t) ==
    /\ saving' = t
    /\ pc' = "format"
    /\ intact' = FALSE
    /\ UNCHANGED <<memory, snapshot>>

SaveReturnsTrue ==
    /\ saving' = "public"
    /\ pc' = "up"
    /\ intact' = TRUE
    /\ snapshot' = memory
    /\ UNCHANGED memory

(* Mutant: the private table is left out.                                  *)
SaveFromPublicOnly(t) ==
    IF t = "public" /\ memory["public"] # NoTable THEN SaveTable("public")
    ELSE SaveReturnsTrue

SaveFrom(t) ==
    IF t = "public" /\ memory["public"] # NoTable THEN SaveTable("public")
    ELSE IF memory["private"] # NoTable THEN SaveTable("private")
    ELSE SaveReturnsTrue

Save ==
    /\ pc = "up"
    /\ SaveFrom("public")
    /\ UNCHANGED disk

FormatRow ==
    /\ pc = "format"
    /\ Formats(memory[saving])
    /\ pc' = "drop"
    /\ UNCHANGED <<saving, memory, disk, intact, snapshot>>

DropTable ==
    /\ pc = "drop"
    /\ disk' = [disk EXCEPT ![saving] = NoTable]
    /\ pc' = "create"
    /\ UNCHANGED <<saving, memory, intact, snapshot>>

CreateTable ==
    /\ pc = "create"
    /\ CreateAccepts(memory[saving])
    /\ disk' = [disk EXCEPT ![saving] = NoRow]
    /\ pc' = "insert"
    /\ UNCHANGED <<saving, memory, intact, snapshot>>

(* Mutant: both tables are filled from the public one.                     *)
InsertPublicRow ==
    /\ pc = "insert"
    /\ InsertAccepts(memory[saving])
    /\ disk' = [disk EXCEPT ![saving] = Image(memory["public"])]
    /\ IF saving = "public" THEN SaveFrom("private") ELSE SaveReturnsTrue

InsertRow ==
    /\ pc = "insert"
    /\ InsertAccepts(memory[saving])
    /\ disk' = [disk EXCEPT ![saving] = Image(memory[saving])]
    /\ IF saving = "public" THEN SaveFrom("private") ELSE SaveReturnsTrue

(* A query fails: Save returns false and leaves the rest undone, the       *)
(* private table too when it was at the public one.                        *)
QueryFails ==
    /\ \/ pc \in Faults
       \/ pc = "create" /\ ~CreateAccepts(memory[saving])
       \/ pc = "insert" /\ ~InsertAccepts(memory[saving])
    /\ pc' = "up"
    /\ saving' = "public"
    /\ UNCHANGED <<memory, disk, intact, snapshot>>

(* The process ends, anywhere; so it does when formatting raised an error. *)
End ==
    /\ pc # "down"
    /\ pc' = "down"
    /\ saving' = "public"
    /\ memory' = [t \in Tables |-> NoTable]
    /\ UNCHANGED <<disk, intact, snapshot>>

-----------------------------------------------------------------------------

Next ==
    \/ Load
    \/ \E i \in Inputs : Set(i[1], i[2], i[3])
    \/ \E r \in Removals : Remove(r[1], r[2])
    \/ Save
    \/ FormatRow \/ DropTable \/ CreateTable \/ InsertRow \/ QueryFails
    \/ End

Spec == Init /\ [][Next]_vars

-----------------------------------------------------------------------------
(* Properties.                                                             *)

(* Keys and values that are written and read as they are.                  *)
Plain(contents) ==
    /\ DOMAIN contents \subseteq StringKeys
    /\ \A k \in DOMAIN contents :
          Unquoted[k] = k /\ contents[k] \in {"text", "number", "boolean"}

(* As long as no Save has been cut short or has failed since, a restart    *)
(* gives back of both tables what the conversions to SQL and back leave of *)
(* the memory the last good Save saw: Save returns true for nothing it has *)
(* not written.  What they leave is Image, and for a table of plain keys   *)
(* and values the table itself (Gateway.lua:556-568, 580-592, 613-639).    *)
RestartGivesBackLastSave ==
    intact => \A t \in Tables :
        /\ Loaded(t) = Image(snapshot[t])
        /\ snapshot[t] # NoTable /\ Plain(snapshot[t]) => Loaded(t) = snapshot[t]

(* A table that is nil in memory has nothing in the database either: a     *)
(* Save that skips it leaves no stale table behind, and storing the first  *)
(* value does not replace a table the program has not seen.                *)
NilTableIsNowhere ==
    pc # "down" => \A t \in Tables : memory[t] = NoTable => Loaded(t) = NoTable

(* The types, and tables that are nil in memory.                           *)
StorageInv == TypeOK /\ NilTableIsNowhere

(* Seen from outside, the database holds nothing of a table or all that    *)
(* the conversions leave of what it held in memory at one moment, wherever *)
(* the program ends: never a part of it, nor a mix of two moments.         *)
Durable == INSTANCE DurableStore WITH
    Nothing <- NoTable,
    running <- (pc # "down"),
    durable <- [t \in Tables |-> Loaded(t)]

ImplementsDurableStore == Durable!StoreSpec
=============================================================================
