--------------------------- MODULE Storage_proofs ---------------------------
(***************************************************************************)
(* Theorems about the storage: a restart gives back what the last good     *)
(* Save wrote, and seen from outside a table is only ever replaced as a    *)
(* whole (DurableStore).  Both for any keys, values stored and queries     *)
(* that fail, save the one look at sqlite_master that LoadTable takes for  *)
(* the absence of the table.                                               *)
(***************************************************************************)
EXTENDS Storage, TLAPS

-----------------------------------------------------------------------------
(* Contents, and what is left of them on disk.                             *)

LEMMA ContentsIntro ==
    ASSUME NEW S \in SUBSET Keys, NEW c \in [S -> Values]
    PROVE  c \in Contents
  BY DEF Contents

LEMMA ContentsElim ==
    ASSUME NEW c \in Contents
    PROVE  /\ DOMAIN c \subseteq Keys
           /\ \A k \in DOMAIN c : c[k] \in Values
           /\ c # NoTable
           /\ c # NoRow
<1>1. PICK S \in SUBSET Keys : c \in [S -> Values]
  BY DEF Contents
<1>2. DOMAIN c = S /\ \A k \in S : c[k] \in Values
  BY <1>1
<1> QED
  BY <1>2, MarksAssumption

(* Writing a table and reading it back gives contents again.               *)
LEMMA ImageIsContents ==
    ASSUME NEW c \in Contents
    PROVE  Image(c) \in Contents
<1> DEFINE Key(name) == CHOOSE k \in Kept(c) : Unquoted[k] = name
<1> DEFINE S == {Unquoted[k] : k \in Kept(c)}
<1>1. Kept(c) \subseteq DOMAIN c /\ Kept(c) \subseteq StringKeys
  BY DEF Kept, Columns
<1>2. S \in SUBSET Keys
  BY <1>1, StorageAssumption DEF Keys
<1>3. \A name \in S : Key(name) \in Kept(c)
  OBVIOUS
<1>4. \A name \in S : Stored(c[Key(name)]) \in Values
  BY <1>1, <1>3, ContentsElim DEF Stored, Values
<1>5. c # NoTable
  BY ContentsElim
<1>6. Image(c) = [name \in S |-> Stored(c[Key(name)])]
  BY <1>5 DEF Image
<1>7. [name \in S |-> Stored(c[Key(name)])] \in [S -> Values]
  BY <1>4
<1> QED
  BY <1>2, <1>6, <1>7, ContentsIntro

(* Plain contents come back as they are.                                   *)
LEMMA PlainComesBack ==
    ASSUME NEW c \in Contents, Plain(c)
    PROVE  Image(c) = c
<1> DEFINE Key(name) == CHOOSE k \in Kept(c) : Unquoted[k] = name
<1>1. PICK S \in SUBSET Keys : c \in [S -> Values]
  BY DEF Contents
<1>2. Kept(c) = S
  BY <1>1 DEF Kept, Columns, Plain
<1>3. \A k \in S : Unquoted[k] = k
  BY <1>1 DEF Plain
<1>4. {Unquoted[k] : k \in Kept(c)} = S
  BY <1>2, <1>3
<1>5. \A name \in S : Key(name) = name
  BY <1>2, <1>3
<1>6. \A name \in S : Stored(c[name]) = c[name]
  BY <1>1 DEF Plain, Stored
<1>7. Image(c) = [name \in S |-> Stored(c[Key(name)])]
  BY <1>4, ContentsElim DEF Image
<1>8. Image(c) = [name \in S |-> c[name]]
  BY <1>5, <1>6, <1>7
<1> QED
  BY <1>1, <1>8

(* What the program stores and removes leaves contents.                    *)
LEMMA SetIsContents ==
    ASSUME TypeOK, NEW t \in Tables, NEW key \in Keys, NEW value \in Values
    PROVE  [k \in Entries(t) \cup {key} |-> IF k = key THEN value ELSE memory[t][k]] \in Contents
<1>1. memory[t] = NoTable \/ memory[t] \in Contents
  BY DEF TypeOK
<1>2. Entries(t) \cup {key} \in SUBSET Keys
  BY <1>1, ContentsElim DEF Entries
<1>3. \A k \in Entries(t) : memory[t][k] \in Values
  BY <1>1, ContentsElim DEF Entries
<1>4. [k \in Entries(t) \cup {key} |-> IF k = key THEN value ELSE memory[t][k]]
        \in [Entries(t) \cup {key} -> Values]
  BY <1>3
<1> QED
  BY <1>2, <1>4, ContentsIntro

LEMMA RemoveIsContents ==
    ASSUME TypeOK, NEW t \in Tables, NEW key
    PROVE  [k \in Entries(t) \ {key} |-> memory[t][k]] \in Contents
<1>1. memory[t] = NoTable \/ memory[t] \in Contents
  BY DEF TypeOK
<1>2. Entries(t) \ {key} \in SUBSET Keys
  BY <1>1, ContentsElim DEF Entries
<1>3. \A k \in Entries(t) \ {key} : memory[t][k] \in Values
  BY <1>1, ContentsElim DEF Entries
<1>4. [k \in Entries(t) \ {key} |-> memory[t][k]] \in [Entries(t) \ {key} -> Values]
  BY <1>3
<1> QED
  BY <1>2, <1>4, ContentsIntro

-----------------------------------------------------------------------------
(* The invariant.                                                          *)

Querying == pc \in {"format", "drop", "create", "insert"}

(* A Save in progress is at a table that has something to save, and says   *)
(* so in intact until it is done.                                          *)
SavePlace ==
    Querying => memory[saving] # NoTable /\ ~intact

(* The row goes into a table that was just created.                        *)
Emptied == pc = "insert" => disk[saving] = NoRow

(* The public table is done when a Save has come to the private one.       *)
PublicDone ==
    Querying /\ saving = "private" => Loaded("public") = Image(memory["public"])

DurableInv ==
    /\ TypeOK
    /\ NilTableIsNowhere
    /\ SavePlace
    /\ Emptied
    /\ PublicDone
    /\ RestartGivesBackLastSave

LEMMA DurableInvInit == Init => DurableInv
<1> SUFFICES ASSUME Init PROVE DurableInv
  OBVIOUS
<1>1. TypeOK
  BY DEF Init, TypeOK, Tables
<1>2. \A t \in Tables : Loaded(t) = NoTable /\ snapshot[t] = NoTable
  BY DEF Init, Loaded
<1> QED
  BY <1>1, <1>2 DEF Init, DurableInv, NilTableIsNowhere, SavePlace, Querying, Emptied,
     PublicDone, RestartGivesBackLastSave, Image

-----------------------------------------------------------------------------
(* One lemma per action.  NoBlindLoad: queries on sqlite_master succeed.   *)

NoBlindLoad == "exists" \notin Faults

LEMMA LoadKeeps == ASSUME DurableInv, NoBlindLoad, Load PROVE DurableInv'
<1> USE DEF DurableInv
<1>1. memory' = [t \in Tables |-> Loaded(t)]
  BY DEF Load, NoBlindLoad
<1>2. \A t \in Tables : Loaded(t)' = Loaded(t) /\ Loaded(t) \in Contents \cup {NoTable}
  BY DEF Load, Loaded, TypeOK
<1>3. TypeOK'
  BY <1>1, <1>2 DEF Load, TypeOK
<1>4. NilTableIsNowhere'
  BY <1>1, <1>2 DEF NilTableIsNowhere
<1>5. ~Querying'
  BY DEF Load, Querying
<1>6. RestartGivesBackLastSave'
  BY <1>2 DEF Load, RestartGivesBackLastSave
<1> QED
  BY <1>3, <1>4, <1>5, <1>6 DEF SavePlace, Emptied, PublicDone, Querying

(* The program stores or removes: only one table in memory changes, and it *)
(* is not nil afterwards.                                                  *)
LEMMA ChangeKeeps ==
    ASSUME DurableInv, NEW t \in Tables, NEW c \in Contents,
           pc = "up", memory' = [memory EXCEPT ![t] = c],
           UNCHANGED <<pc, saving, disk, intact, snapshot>>
    PROVE  DurableInv'
<1> USE DEF DurableInv
<1>1. \A u \in Tables : Loaded(u)' = Loaded(u)
  BY DEF Loaded
<1>2. c # NoTable
  BY ContentsElim
<1>3. TypeOK'
  BY DEF TypeOK
<1>4. NilTableIsNowhere'
  BY <1>1, <1>2 DEF NilTableIsNowhere, TypeOK
<1>5. ~Querying'
  BY DEF Querying
<1>6. RestartGivesBackLastSave'
  BY <1>1 DEF RestartGivesBackLastSave
<1> QED
  BY <1>3, <1>4, <1>5, <1>6 DEF SavePlace, Emptied, PublicDone, Querying

(* The two ways a Save goes on: to a table that is not nil, with the tables *)
(* before it on disk, or to its end, with both on disk.                    *)
LEMMA SaveTableKeeps ==
    ASSUME TypeOK, NEW t \in Tables, SaveTable(t),
           memory[t] # NoTable,
           disk' \in [Tables -> Contents \cup {NoTable, NoRow}],
           \A u \in Tables : memory[u] = NoTable => Loaded(u)' = NoTable,
           t = "private" => Loaded("public")' = Image(memory["public"])
    PROVE  DurableInv'
<1> USE DEF SaveTable
<1>1. TypeOK'
  BY DEF TypeOK
<1>2. NilTableIsNowhere'
  BY DEF NilTableIsNowhere
<1>3. SavePlace'
  BY DEF SavePlace
<1>4. Emptied'
  BY DEF Emptied
<1>5. PublicDone'
  BY DEF PublicDone
<1>6. RestartGivesBackLastSave'
  BY DEF RestartGivesBackLastSave
<1> QED
  BY <1>1, <1>2, <1>3, <1>4, <1>5, <1>6 DEF DurableInv

LEMMA SaveReturnsTrueKeeps ==
    ASSUME TypeOK, SaveReturnsTrue,
           disk' \in [Tables -> Contents \cup {NoTable, NoRow}],
           \A u \in Tables : Loaded(u)' = Image(memory[u])
    PROVE  DurableInv'
<1> USE DEF SaveReturnsTrue
<1>1. TypeOK'
  BY DEF TypeOK, Tables
<1>2. NilTableIsNowhere'
  BY DEF NilTableIsNowhere, Image
<1>3. ~Querying'
  BY DEF Querying
<1>4. RestartGivesBackLastSave'
  <2> SUFFICES ASSUME NEW t \in Tables
               PROVE  /\ Loaded(t)' = Image(memory[t])
                      /\ memory[t] # NoTable /\ Plain(memory[t]) => Loaded(t)' = memory[t]
    BY DEF RestartGivesBackLastSave
  <2>1. memory[t] # NoTable => memory[t] \in Contents
    BY DEF TypeOK
  <2> QED
    BY <2>1, PlainComesBack
<1> QED
  BY <1>1, <1>2, <1>3, <1>4 DEF DurableInv, SavePlace, Emptied, PublicDone, Querying

LEMMA SaveFromKeeps ==
    ASSUME TypeOK, NEW t \in Tables, SaveFrom(t),
           disk' \in [Tables -> Contents \cup {NoTable, NoRow}],
           \A u \in Tables : memory[u] = NoTable => Loaded(u)' = NoTable,
           t = "private" => Loaded("public")' = Image(memory["public"])
    PROVE  DurableInv'
<1>1. CASE t = "public" /\ memory["public"] # NoTable
  <2>1. SaveTable("public")
    BY <1>1 DEF SaveFrom
  <2> QED
    BY <1>1, <2>1, SaveTableKeeps DEF Tables
<1>2. CASE ~(t = "public" /\ memory["public"] # NoTable)
  <2>1. Loaded("public")' = Image(memory["public"])
    BY <1>2 DEF Tables, Image
  <2>2. CASE memory["private"] # NoTable
    <3>1. SaveTable("private")
      BY <1>2, <2>2 DEF SaveFrom
    <3> QED
      BY <2>1, <2>2, <3>1, SaveTableKeeps DEF Tables
  <2>3. CASE memory["private"] = NoTable
    <3>1. SaveReturnsTrue
      BY <1>2, <2>3 DEF SaveFrom
    <3>2. Loaded("private")' = Image(memory["private"])
      BY <2>3 DEF Tables, Image
    <3> QED
      BY <2>1, <3>1, <3>2, SaveReturnsTrueKeeps DEF Tables
  <2> QED
    BY <2>2, <2>3
<1> QED
  BY <1>1, <1>2

LEMMA SaveKeeps == ASSUME DurableInv, Save PROVE DurableInv'
<1>1. SaveFrom("public") /\ disk' = disk /\ TypeOK
  BY DEF Save, DurableInv
<1>2. \A u \in Tables : memory[u] = NoTable => Loaded(u)' = NoTable
  BY <1>1 DEF Save, DurableInv, NilTableIsNowhere, Loaded
<1>3. disk' \in [Tables -> Contents \cup {NoTable, NoRow}]
  BY <1>1 DEF TypeOK
<1> QED
  BY <1>1, <1>2, <1>3, SaveFromKeeps DEF Tables

LEMMA FormatRowKeeps == ASSUME DurableInv, FormatRow PROVE DurableInv'
<1> USE DEF DurableInv, FormatRow
<1>1. TypeOK'
  BY DEF TypeOK
<1>2. \A t \in Tables : Loaded(t)' = Loaded(t)
  BY DEF Loaded
<1>3. NilTableIsNowhere' /\ RestartGivesBackLastSave'
  BY <1>2 DEF NilTableIsNowhere, RestartGivesBackLastSave
<1>4. SavePlace' /\ Emptied'
  BY DEF SavePlace, Querying, Emptied
<1>5. PublicDone'
  BY <1>2 DEF PublicDone, Querying, Tables
<1> QED
  BY <1>1, <1>3, <1>4, <1>5

(* Dropping and creating leave nothing of the table at hand, and the other *)
(* as it is.                                                               *)
LEMMA EmptyingKeeps ==
    ASSUME DurableInv, Querying, NEW mark \in {NoTable, NoRow},
           disk' = [disk EXCEPT ![saving] = mark],
           pc' = IF mark = NoRow THEN "insert" ELSE "create",
           UNCHANGED <<saving, memory, intact, snapshot>>
    PROVE  DurableInv'
<1> USE DEF DurableInv
<1>1. TypeOK'
  BY DEF TypeOK
<1>2. \A t \in Tables : Loaded(t)' = IF t = saving THEN NoTable ELSE Loaded(t)
  BY DEF Loaded, TypeOK
<1>3. NilTableIsNowhere'
  BY <1>2 DEF NilTableIsNowhere, Querying
<1>4. SavePlace' /\ RestartGivesBackLastSave'
  BY DEF SavePlace, Querying, RestartGivesBackLastSave
<1>5. Emptied'
  BY MarksAssumption DEF Emptied, TypeOK
<1>6. PublicDone'
  BY <1>2 DEF PublicDone, Querying, Tables
<1> QED
  BY <1>1, <1>3, <1>4, <1>5, <1>6

LEMMA DropTableKeeps == ASSUME DurableInv, DropTable PROVE DurableInv'
  BY EmptyingKeeps, MarksAssumption DEF DropTable, Querying

LEMMA CreateTableKeeps == ASSUME DurableInv, CreateTable PROVE DurableInv'
  BY EmptyingKeeps, MarksAssumption DEF CreateTable, Querying

(* The row: the table at hand holds the image of memory.                   *)
LEMMA InsertRowStores ==
    ASSUME DurableInv, InsertRow
    PROVE  /\ disk' \in [Tables -> Contents \cup {NoTable, NoRow}]
           /\ memory' = memory
           /\ \A t \in Tables :
                 Loaded(t)' = IF t = saving THEN Image(memory[t]) ELSE Loaded(t)
<1>1. saving \in Tables /\ memory[saving] \in Contents
  BY DEF DurableInv, InsertRow, SavePlace, Querying, TypeOK
<1>2. Image(memory[saving]) \in Contents
  BY <1>1, ImageIsContents
<1>3. Image(memory[saving]) # NoTable /\ Image(memory[saving]) # NoRow
  BY <1>2, MarksAssumption
<1>4. disk' = [disk EXCEPT ![saving] = Image(memory[saving])]
  BY DEF InsertRow
<1>5. disk' \in [Tables -> Contents \cup {NoTable, NoRow}]
  BY <1>2, <1>4 DEF DurableInv, TypeOK
<1>6. memory' = memory
  BY DEF InsertRow, SaveFrom, SaveTable, SaveReturnsTrue
<1>7. \A t \in Tables : Loaded(t)' = IF t = saving THEN Image(memory[t]) ELSE Loaded(t)
  BY <1>1, <1>3, <1>4 DEF Loaded, DurableInv, TypeOK
<1> QED
  BY <1>5, <1>6, <1>7

LEMMA InsertRowKeeps == ASSUME DurableInv, InsertRow PROVE DurableInv'
<1>1. TypeOK /\ saving \in Tables /\ memory[saving] # NoTable
  BY DEF DurableInv, InsertRow, SavePlace, Querying, TypeOK
<1>2. \A u \in Tables : memory[u] = NoTable => Loaded(u)' = NoTable
  BY <1>1, InsertRowStores DEF DurableInv, NilTableIsNowhere, InsertRow
<1>3. Loaded("public")' = Image(memory["public"])
  BY <1>1, InsertRowStores DEF DurableInv, PublicDone, Querying, InsertRow, Tables
<1>4. CASE saving = "public"
  <2>1. SaveFrom("private")
    BY <1>4 DEF InsertRow
  <2> QED
    BY <1>1, <1>2, <1>3, <2>1, InsertRowStores, SaveFromKeeps DEF Tables
<1>5. CASE saving = "private"
  <2>1. SaveReturnsTrue
    BY <1>5 DEF InsertRow
  <2>2. \A u \in Tables : Loaded(u)' = Image(memory[u])
    BY <1>3, <1>5, InsertRowStores DEF Tables
  <2> QED
    BY <1>1, <2>1, <2>2, InsertRowStores, SaveReturnsTrueKeeps
<1> QED
  BY <1>1, <1>4, <1>5 DEF Tables

LEMMA QueryFailsKeeps == ASSUME DurableInv, QueryFails PROVE DurableInv'
<1> USE DEF DurableInv, QueryFails
<1>1. TypeOK' /\ ~Querying'
  BY DEF TypeOK, Querying, Tables
<1>2. \A t \in Tables : Loaded(t)' = Loaded(t)
  BY DEF Loaded
<1>3. pc # "down"
  BY StorageAssumption
<1>4. NilTableIsNowhere' /\ RestartGivesBackLastSave'
  BY <1>2, <1>3 DEF NilTableIsNowhere, RestartGivesBackLastSave
<1> QED
  BY <1>1, <1>4 DEF SavePlace, Emptied, PublicDone, Querying

LEMMA EndKeeps == ASSUME DurableInv, End PROVE DurableInv'
<1> USE DEF DurableInv, End
<1>1. TypeOK' /\ ~Querying'
  BY DEF TypeOK, Querying, Tables
<1>2. \A t \in Tables : Loaded(t)' = Loaded(t)
  BY DEF Loaded
<1>3. NilTableIsNowhere' /\ RestartGivesBackLastSave'
  BY <1>2 DEF NilTableIsNowhere, RestartGivesBackLastSave
<1> QED
  BY <1>1, <1>3 DEF SavePlace, Emptied, PublicDone, Querying

-----------------------------------------------------------------------------
(* The theorems.                                                           *)

LEMMA DurableInvHolds == ASSUME NoBlindLoad PROVE Spec => []DurableInv
<1>1. DurableInv /\ [Next]_vars => DurableInv'
  <2> SUFFICES ASSUME DurableInv, [Next]_vars PROVE DurableInv'
    OBVIOUS
  <2>1. CASE Load
    BY <2>1, LoadKeeps
  <2>2. ASSUME NEW i \in Inputs, Set(i[1], i[2], i[3]) PROVE DurableInv'
    <3>1. i[1] \in Tables /\ i[2] \in Keys /\ i[3] \in Values
      BY StorageAssumption
    <3>2. [k \in Entries(i[1]) \cup {i[2]} |-> IF k = i[2] THEN i[3] ELSE memory[i[1]][k]] \in Contents
      BY <3>1, SetIsContents DEF DurableInv
    <3> QED
      BY <2>2, <3>1, <3>2, ChangeKeeps DEF Set
  <2>3. ASSUME NEW r \in Removals, Remove(r[1], r[2]) PROVE DurableInv'
    <3>1. r[1] \in Tables
      BY StorageAssumption
    <3>2. [k \in Entries(r[1]) \ {r[2]} |-> memory[r[1]][k]] \in Contents
      BY <3>1, RemoveIsContents DEF DurableInv
    <3> QED
      BY <2>3, <3>1, <3>2, ChangeKeeps DEF Remove
  <2>4. CASE Save
    BY <2>4, SaveKeeps
  <2>5. CASE FormatRow
    BY <2>5, FormatRowKeeps
  <2>6. CASE DropTable
    BY <2>6, DropTableKeeps
  <2>7. CASE CreateTable
    BY <2>7, CreateTableKeeps
  <2>8. CASE InsertRow
    BY <2>8, InsertRowKeeps
  <2>9. CASE QueryFails
    BY <2>9, QueryFailsKeeps
  <2>10. CASE End
    BY <2>10, EndKeeps
  <2>11. CASE UNCHANGED vars
    BY <2>11 DEF vars, DurableInv, TypeOK, NilTableIsNowhere, SavePlace, Querying, Emptied,
       PublicDone, RestartGivesBackLastSave, Loaded
  <2> QED
    BY <2>1, <2>2, <2>3, <2>4, <2>5, <2>6, <2>7, <2>8, <2>9, <2>10, <2>11 DEF Next
<1> QED
  BY <1>1, DurableInvInit, PTL DEF Spec

(* Whatever is stored and whichever queries fail, the storage keeps its    *)
(* types and a table that is nil in memory has nothing on disk, so that a  *)
(* Save may skip it (Gateway.lua:539-568).                                 *)
THEOREM StorageInvHolds == ASSUME NoBlindLoad PROVE Spec => []StorageInv
<1>1. DurableInv => StorageInv
  BY DEF DurableInv, StorageInv
<1> QED
  BY <1>1, DurableInvHolds, PTL

(* As long as no Save has failed or was cut short since, a restart gives   *)
(* back what the conversions leave of both tables of the last one that     *)
(* returned true, and plain tables as they were (Gateway.lua:556-568).     *)
THEOREM RestartGivesBackLastSaveThm ==
    ASSUME NoBlindLoad PROVE Spec => []RestartGivesBackLastSave
<1>1. DurableInv => RestartGivesBackLastSave
  BY DEF DurableInv
<1> QED
  BY <1>1, DurableInvHolds, PTL

-----------------------------------------------------------------------------
(* The storage implements DurableStore: every step of it is one of the     *)
(* abstract store or leaves what is seen of it unchanged.                  *)

LEMMA InitImplements == Init => Durable!StoreInit
  BY DEF Init, Durable!StoreInit, Loaded

LEMMA LoadImplements == ASSUME NoBlindLoad, Load PROVE Durable!Start
<1>1. memory' = [t \in Tables |-> Loaded(t)]
  BY DEF Load, NoBlindLoad
<1> QED
  BY <1>1 DEF Load, Durable!Start, Loaded

LEMMA ChangeImplements ==
    ASSUME TypeOK, NEW t \in Tables, NEW c \in Contents,
           pc = "up", memory' = [memory EXCEPT ![t] = c],
           UNCHANGED <<pc, saving, disk, intact, snapshot>>
    PROVE  Durable!Change(t)
<1>1. memory'[t] = c
  BY DEF TypeOK
<1> QED
  BY <1>1 DEF Durable!Change, Loaded

LEMMA EmptyingImplements ==
    ASSUME DurableInv, Querying, NEW mark \in {NoTable, NoRow},
           disk' = [disk EXCEPT ![saving] = mark],
           pc' # "down", memory' = memory
    PROVE  Durable!Forget(saving)
<1>1. pc # "down"
  BY DEF Querying
<1>2. \A t \in Tables : Loaded(t)' = IF t = saving THEN NoTable ELSE Loaded(t)
  BY DEF Loaded, DurableInv, TypeOK
<1>3. [t \in Tables |-> Loaded(t)]' = [[t \in Tables |-> Loaded(t)] EXCEPT ![saving] = NoTable]
  BY <1>2
<1> QED
  BY <1>1, <1>3 DEF Durable!Forget

LEMMA InsertRowImplements ==
    ASSUME DurableInv, InsertRow PROVE Durable!Commit(saving)
<1>1. pc # "down" /\ pc' # "down"
  BY DEF InsertRow, SaveFrom, SaveTable, SaveReturnsTrue
<1>2. saving \in Tables /\ Loaded(saving) = NoTable
  BY DEF InsertRow, DurableInv, TypeOK, Emptied, Loaded
<1>3. [t \in Tables |-> Loaded(t)]'
        = [[t \in Tables |-> Loaded(t)] EXCEPT ![saving] = Image(memory[saving])]
  BY <1>2, InsertRowStores
<1> QED
  BY <1>1, <1>2, <1>3, InsertRowStores DEF Durable!Commit

(* Wherever a query fails or the program ends, the database holds nothing  *)
(* of a table or all that the conversions leave of what it held in memory  *)
(* at one moment, and the program starts with just that                    *)
(* (Gateway.lua:525-661).                                                  *)
THEOREM ImplementsDurableStoreThm ==
    ASSUME NoBlindLoad PROVE Spec => ImplementsDurableStore
<1>1. DurableInv /\ [Next]_vars => [Durable!StoreNext]_(Durable!storeVars)
  <2> SUFFICES ASSUME DurableInv, [Next]_vars
               PROVE  [Durable!StoreNext]_(Durable!storeVars)
    OBVIOUS
  <2> USE DEF Durable!StoreNext
  <2>1. CASE Load
    BY <2>1, LoadImplements
  <2>2. ASSUME NEW i \in Inputs, Set(i[1], i[2], i[3]) PROVE Durable!StoreNext
    <3>1. i[1] \in Tables /\ i[2] \in Keys /\ i[3] \in Values
      BY StorageAssumption
    <3>2. [k \in Entries(i[1]) \cup {i[2]} |-> IF k = i[2] THEN i[3] ELSE memory[i[1]][k]] \in Contents
      BY <3>1, SetIsContents DEF DurableInv
    <3>3. Durable!Change(i[1])
      BY <2>2, <3>1, <3>2, ChangeImplements DEF Set, DurableInv
    <3> QED
      BY <3>1, <3>3
  <2>3. ASSUME NEW r \in Removals, Remove(r[1], r[2]) PROVE Durable!StoreNext
    <3>1. r[1] \in Tables
      BY StorageAssumption
    <3>2. [k \in Entries(r[1]) \ {r[2]} |-> memory[r[1]][k]] \in Contents
      BY <3>1, RemoveIsContents DEF DurableInv
    <3>3. Durable!Change(r[1])
      BY <2>3, <3>1, <3>2, ChangeImplements DEF Remove, DurableInv
    <3> QED
      BY <3>1, <3>3
  <2>4. CASE Save \/ FormatRow \/ QueryFails
    <3>1. UNCHANGED <<memory, disk>>
      BY <2>4 DEF Save, SaveFrom, SaveTable, SaveReturnsTrue, FormatRow, QueryFails
    <3>2. pc # "down" /\ pc' # "down"
      BY <2>4, StorageAssumption DEF Save, SaveFrom, SaveTable, SaveReturnsTrue, FormatRow, QueryFails
    <3> QED
      BY <3>1, <3>2 DEF Durable!storeVars, Loaded
  <2>5. CASE DropTable \/ CreateTable
    <3>1. saving \in Tables
      BY DEF DurableInv, TypeOK
    <3>2. Durable!Forget(saving)
      BY <2>5, EmptyingImplements DEF DropTable, CreateTable, Querying
    <3> QED
      BY <3>1, <3>2
  <2>6. CASE InsertRow
    BY <2>6, InsertRowImplements DEF DurableInv, TypeOK
  <2>7. CASE End
    BY <2>7 DEF End, Durable!Stop, Loaded
  <2>8. CASE UNCHANGED vars
    BY <2>8 DEF vars, Durable!storeVars, Loaded
  <2> QED
    BY <2>1, <2>2, <2>3, <2>4, <2>5, <2>6, <2>7, <2>8 DEF Next
<1> QED
  BY <1>1, InitImplements, DurableInvHolds, PTL DEF Spec, ImplementsDurableStore, Durable!StoreSpec
=============================================================================
