-------------------------------- MODULE Host --------------------------------
(***************************************************************************)
(* The host (lua-executor/main.cpp, API.hpp, Extensions/Script.cpp): it    *)
(* creates the Lua state, runs one script and returns its exit code.  The  *)
(* script loads extensions with Script.LoadExtension: a native library is  *)
(* loaded in steps, each of which can fail, its functions and constants    *)
(* become Lua globals, and then the Lua module of the same name is read,   *)
(* which copies the constants and can fail as well.                        *)
(***************************************************************************)
EXTENDS Integers, Sequences

CONSTANTS
    Files,       \* extensions
    Requires,    \* Requires[f]: the Lua modules that the module of f reads first
    Order,       \* the extensions the script loads, one after the other
    Names,       \* names of Lua globals
    Registers,   \* Registers[f]: the globals that the init function of f sets
    Unregisters, \* Unregisters[f]: the ones its deinit function removes
    Borrowed,      \* Borrowed[f]: the constants among them that the Lua module of f copies
    Codes        \* exit codes the script sets

(* No two extensions set the same global.                                  *)
ASSUME HostAssumption ==
    /\ Requires \in [Files -> SUBSET Files]
    /\ Order \in Seq(Files)
    /\ Registers \in [Files -> SUBSET Names]
    /\ \A f \in Files : Unregisters[f] \subseteq Registers[f] /\ Borrowed[f] \subseteq Registers[f]
    /\ \A f, g \in Files : f # g => Registers[f] \cap Registers[g] = {}
    /\ Codes \subseteq Int

Undefined == 65536   \* an exit code nobody has set
Failure   == -1      \* what main returns after an error

(* The conversion of a Lua integer to the parameter of the native function.*)
Int16(v) == ((v + 32768) % 65536) - 32768

VARIABLES
    process_pc, \* where the process is; "script" when Lua runs
    position,   \* number of the load that is in progress or comes next
    objects,    \* loads whose Extension object exists
    processes,  \* loads whose process handle is open
    libraries,  \* loads whose library is loaded
    handles,    \* loads whose handle the script holds
    globals,    \* names of the globals that extensions have set
    modules,    \* what the Lua module of an extension has copied
    scriptCode, \* script_exit_code
    exitCode,   \* exitCode of main, not initialised
    status,     \* what main returned
    wanted,     \* history: the last exit code the script set
    failed,     \* history: the script did not run to its end
    orphans     \* history: complete loads whose handle the script never got

loadVars   == <<position, objects, processes, libraries, handles, orphans>>
globalVars == <<globals, modules>>
codeVars   == <<scriptCode, exitCode, status, wanted, failed>>
hostVars   == <<process_pc, loadVars, globalVars, codeVars>>

Loads  == 1 .. Len(Order)
Code   == Codes \cup {0, Undefined}
Status == -32768 .. 32767

HostTypeOK ==
    /\ process_pc \in {"start", "file", "script", "open", "load", "resolve", "init",
                      "require", "exited"}
    /\ position \in 1 .. Len(Order) + 1
    /\ {objects, processes, libraries, handles, orphans} \subseteq SUBSET Loads
    /\ globals \subseteq Names
    /\ modules \in [Files -> {"unread", "empty", "constants"}]
    /\ {scriptCode, exitCode, status} \subseteq Status \cup {Undefined}
    /\ wanted \in Code
    /\ failed \in BOOLEAN

HostInit ==
    /\ process_pc = "start"
    /\ position = 1
    /\ objects = {}
    /\ processes = {}
    /\ libraries = {}
    /\ handles = {}
    /\ globals = {}
    /\ modules = [f \in Files |-> "unread"]
    /\ scriptCode = Undefined
    /\ exitCode = Undefined
    /\ status = Undefined
    /\ wanted = Undefined
    /\ failed = FALSE
    /\ orphans = {}

-----------------------------------------------------------------------------
(* The process.                                                            *)

APIInit ==
    /\ process_pc = "start"
    /\ process_pc' = "file"
    /\ UNCHANGED <<loadVars, globalVars, codeVars>>

(* Wrong arguments, no Lua state, no such file, or an error of the script  *)
(* or of a module it reads that the script does not catch: the exception   *)
(* ends in main, which returns -1.                                         *)
MainFails ==
    /\ \/ process_pc \in {"start", "file", "script"}
       \/ process_pc = "require" /\ modules[Order[position]] = "unread"
    /\ process_pc' = "exited"
    /\ failed' = TRUE
    /\ status' = Failure
    /\ UNCHANGED <<loadVars, globalVars, scriptCode, exitCode, wanted>>

LoadScript ==
    /\ process_pc = "file"
    /\ process_pc' = "script"
    /\ scriptCode' = 0
    /\ wanted' = 0
    /\ UNCHANGED <<loadVars, globalVars, exitCode, status, failed>>

SetExitCode(code) ==
    /\ process_pc = "script"
    /\ scriptCode' = Int16(code)
    /\ wanted' = code
    /\ UNCHANGED <<process_pc, loadVars, globalVars, exitCode, status, failed>>

(* Mutant: the exit code of the script is not fetched.                     *)
ScriptEndsUnasked ==
    /\ process_pc = "script"
    /\ status' = exitCode
    /\ process_pc' = "exited"
    /\ UNCHANGED <<loadVars, globalVars, scriptCode, exitCode, wanted, failed>>

ScriptEnds ==
    /\ process_pc = "script"
    /\ exitCode' = scriptCode
    /\ status' = exitCode'
    /\ process_pc' = "exited"
    /\ UNCHANGED <<loadVars, globalVars, scriptCode, wanted, failed>>

-----------------------------------------------------------------------------
(* Loading an extension.                                                   *)

Allocate ==
    /\ process_pc = "script"
    /\ position \in Loads
    /\ objects' = objects \cup {position}
    /\ process_pc' = "open"
    /\ UNCHANGED <<position, processes, libraries, handles, orphans, globalVars, codeVars>>

OpenProcess ==
    /\ process_pc = "open"
    /\ processes' = processes \cup {position}
    /\ process_pc' = "load"
    /\ UNCHANGED <<position, objects, libraries, handles, orphans, globalVars, codeVars>>

LoadLibrary ==
    /\ process_pc = "load"
    /\ libraries' = libraries \cup {position}
    /\ process_pc' = "resolve"
    /\ UNCHANGED <<position, objects, processes, handles, orphans, globalVars, codeVars>>

ResolveExports ==
    /\ process_pc = "resolve"
    /\ process_pc' = "init"
    /\ UNCHANGED <<loadVars, globalVars, codeVars>>

(* The load is over: Script.LoadExtension returns nil.                     *)
GivesUp ==
    /\ objects' = objects \ {position}
    /\ position' = position + 1
    /\ process_pc' = "script"
    /\ UNCHANGED <<handles, orphans, globalVars, codeVars>>

OpenFails ==
    /\ process_pc = "open"
    /\ GivesUp
    /\ UNCHANGED <<processes, libraries>>

(* Mutant: the process stays open.                                         *)
LibraryFailsLeaks ==
    /\ process_pc = "load"
    /\ GivesUp
    /\ UNCHANGED <<processes, libraries>>

(* No such file, or it is no library.                                      *)
LibraryFails ==
    /\ process_pc = "load"
    /\ processes' = processes \ {position}
    /\ GivesUp
    /\ UNCHANGED libraries

(* Mutant: the library stays loaded.                                       *)
ExtensionFailsLeaks ==
    /\ process_pc \in {"resolve", "init"}
    /\ processes' = processes \ {position}
    /\ GivesUp
    /\ UNCHANGED libraries

(* An export is missing, or the extension refuses.                         *)
ExtensionFails ==
    /\ process_pc \in {"resolve", "init"}
    /\ libraries' = libraries \ {position}
    /\ processes' = processes \ {position}
    /\ GivesUp

ExtensionInit ==
    /\ process_pc = "init"
    /\ globals' = globals \cup Registers[Order[position]]
    /\ process_pc' = "require"
    /\ UNCHANGED <<loadVars, modules, codeVars>>

(* Mutant: the modules are read before the globals are set.                *)
ReadModulesEarly(read) ==
    modules' = [m \in Files |->
        IF m \in read /\ modules[m] = "unread"
        THEN IF Borrowed[m] \subseteq globals \ Registers[Order[position]]
             THEN "constants" ELSE "empty"
        ELSE modules[m]]

(* A module is read once; it copies the constants that are globals then.   *)
ReadModules(read) ==
    modules' = [m \in Files |->
        IF m \in read /\ modules[m] = "unread"
        THEN IF Borrowed[m] \subseteq globals THEN "constants" ELSE "empty"
        ELSE modules[m]]

(* require() reads the module of the extension, and before it the modules  *)
(* it requires, unless it was read before.                                 *)
RequireReads ==
    LET f == Order[position] IN
    /\ process_pc = "require"
    /\ ReadModules(IF modules[f] = "unread" THEN Requires[f] \cup {f} ELSE {})
    /\ handles' = handles \cup {position}
    /\ position' = position + 1
    /\ process_pc' = "script"
    /\ UNCHANGED <<objects, processes, libraries, orphans, globals, codeVars>>

(* There is no such module, or running it fails, after some of the modules *)
(* it requires have been read; the script catches the error and goes on    *)
(* (pcall, Script.Lua.Eval), without the handle.                           *)
RequireFails ==
    LET f == Order[position] IN
    /\ process_pc = "require"
    /\ modules[f] = "unread"
    /\ \E read \in SUBSET (Requires[f] \ {f}) : ReadModules(read)
    /\ orphans' = orphans \cup {position}
    /\ position' = position + 1
    /\ process_pc' = "script"
    /\ UNCHANGED <<objects, processes, libraries, handles, globals, codeVars>>

(* Mutant: the globals stay.                                               *)
UnloadKeepsGlobals(n) ==
    /\ process_pc = "script"
    /\ n \in handles
    /\ libraries' = libraries \ {n}
    /\ processes' = processes \ {n}
    /\ objects' = objects \ {n}
    /\ handles' = handles \ {n}
    /\ UNCHANGED <<process_pc, position, orphans, globals, modules, codeVars>>

UnloadExtension(n) ==
    /\ process_pc = "script"
    /\ n \in handles
    /\ globals' = globals \ Unregisters[Order[n]]
    /\ libraries' = libraries \ {n}
    /\ processes' = processes \ {n}
    /\ objects' = objects \ {n}
    /\ handles' = handles \ {n}
    /\ UNCHANGED <<process_pc, position, orphans, modules, codeVars>>

-----------------------------------------------------------------------------

HostNext ==
    \/ APIInit \/ MainFails \/ LoadScript \/ ScriptEnds
    \/ \E code \in Codes : SetExitCode(code)
    \/ Allocate \/ OpenProcess \/ LoadLibrary \/ ResolveExports
    \/ OpenFails \/ LibraryFails \/ ExtensionFails
    \/ ExtensionInit \/ RequireReads \/ RequireFails
    \/ \E n \in Loads : UnloadExtension(n)

HostSpec == HostInit /\ [][HostNext]_hostVars

-----------------------------------------------------------------------------

(* Whatever failed half way, nothing of it is left: outside a load exactly *)
(* the complete loads that were not undone have an object, an open process *)
(* and a loaded library (API.hpp:195-310).  The script holds their handles,*)
(* but for those whose Lua module failed in require (Script.lua:16).       *)
NothingLeaks ==
    process_pc = "script" =>
        /\ handles \cup orphans = objects
        /\ objects = processes /\ processes = libraries

(* main returns the last code the script set, as far as 16 bits hold it, -1*)
(* when the script did not run to its end, and never the variable it did   *)
(* not initialise (main.cpp:23, 69).                                       *)
StatusTellsOutcome ==
    process_pc = "exited" =>
        IF failed THEN status = Failure
        ELSE status \in Status /\ (status - wanted) % 65536 = 0

(* A global that the deinit function of its extension knows does not       *)
(* outlive the library its code is in, also when the extension was loaded  *)
(* twice.  (Socket forgets two of the functions it registers, main.cpp:    *)
(* 702-733: a script can still call them.)                                 *)
NoDanglingGlobals ==
    \A f \in Files :
        globals \cap Unregisters[f] # {} => \E n \in libraries : Order[n] = f

(* An extension whose handle is held can be used, unless it was loaded     *)
(* twice: unloading one of two handles takes the globals of both.          *)
HandlesAreUsable ==
    \A n \in handles :
        \/ Registers[Order[n]] \subseteq globals
        \/ \E m \in 1 .. position - 1 :
               Order[m] = Order[n] /\ m \notin handles \cup orphans

(* The constants in the Lua module of a loaded extension are the ones of   *)
(* its library ("Little = BYTE_BUFFER_ENDIAN_LITTLE", ByteBuffer.lua:6),   *)
(* unless the module of another extension that was loaded before required  *)
(* it: then it was read when they were not there (FireWatch.lua:3-4).      *)
ConstantsCopied ==
    \A n \in handles :
        \/ modules[Order[n]] = "constants"
        \/ \E m \in 1 .. n - 1 : Order[m] # Order[n] /\ Order[n] \in Requires[Order[m]]

(* The types, the exit status, and handles that can be used.               *)
HostInv == HostTypeOK /\ StatusTellsOutcome /\ HandlesAreUsable
=============================================================================
