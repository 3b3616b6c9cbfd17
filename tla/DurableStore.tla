---------------------------- MODULE DurableStore ----------------------------
(***************************************************************************)
(* What the storage of the Gateway plugin promises: a table in memory, its *)
(* durable copy, and a program that is started again after every end.      *)
(* Durable contents are replaced as a whole, by nothing or by all that     *)
(* writing and reading leave of what the table held in memory at one       *)
(* moment, never by a part of it or a mix.                                 *)
(***************************************************************************)
CONSTANTS
    Tables,     \* names of the tables
    Contents,   \* possible contents of a table
    Nothing,    \* the contents of a table that does not exist or holds no row
    Image(_)    \* what is left of some contents when written and read back

VARIABLES
    running,   \* the program has loaded the tables and has not ended
    memory,    \* contents of every table in memory
    durable    \* contents of every table in the database file

storeVars == <<running, memory, durable>>

StoreInit ==
    /\ running = FALSE
    /\ memory = [t \in Tables |-> Nothing]
    /\ durable = [t \in Tables |-> Nothing]

(* The program starts with what is durable, and ends at any time.          *)
Start ==
    /\ ~running
    /\ running' = TRUE
    /\ memory' = durable
    /\ UNCHANGED durable

Stop ==
    /\ running
    /\ running' = FALSE
    /\ memory' = [t \in Tables |-> Nothing]
    /\ UNCHANGED durable

Change(t) ==
    /\ running
    /\ memory'[t] \in Contents
    /\ memory' = [memory EXCEPT ![t] = memory'[t]]
    /\ UNCHANGED <<running, durable>>

Commit(t) ==
    /\ running
    /\ durable[t] = Nothing
    /\ durable' = [durable EXCEPT ![t] = Image(memory[t])]
    /\ UNCHANGED <<running, memory>>

Forget(t) ==
    /\ running
    /\ durable' = [durable EXCEPT ![t] = Nothing]
    /\ UNCHANGED <<running, memory>>

StoreNext == Start \/ Stop \/ \E t \in Tables : Change(t) \/ Commit(t) \/ Forget(t)

StoreSpec == StoreInit /\ [][StoreNext]_storeVars
=============================================================================
