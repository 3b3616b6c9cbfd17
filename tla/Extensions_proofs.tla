------------------------- MODULE Extensions_proofs -------------------------
(***************************************************************************)
(* Theorems about the host and about extensions it loads: for every order  *)
(* of loads, every set of threads and any number of calls, for any number  *)
(* of commands.  The components are side by side here; their definitions   *)
(* carry names of their own for that.                                      *)
(***************************************************************************)
EXTENDS Host, ConsoleThreads, SDRPP, Socket, SequenceTheorems, TLAPS

-----------------------------------------------------------------------------
(* The host: what a load holds, at every step of it.                       *)

LoadPcs == {"open", "load", "resolve", "init", "require"}

(* The load in progress, where it has come to one of the steps.            *)
InProgress(steps) == IF process_pc \in steps THEN {position} ELSE {}

(* The loads that are complete.                                            *)
Complete == handles \cup orphans

LoadInv ==
    /\ process_pc \in LoadPcs => position \in Loads
    /\ \A n \in Complete : n < position
    /\ handles \cap orphans = {}
    /\ process_pc # "exited" =>
          /\ objects = Complete \cup InProgress(LoadPcs)
          /\ processes = Complete \cup InProgress(LoadPcs \ {"open"})
          /\ libraries = Complete \cup InProgress({"resolve", "init", "require"})

(* The exit code of a script that runs is the last one it set.             *)
CodeInv ==
    /\ process_pc # "exited" => ~failed
    /\ process_pc \in LoadPcs \cup {"script"} =>
          scriptCode \in Status /\ (scriptCode - wanted) % 65536 = 0

(* The globals that a deinit function knows belong to a load whose init    *)
(* function has run.                                                       *)
GlobalInv ==
    process_pc # "exited" => \A f \in Files :
        globals \cap Unregisters[f] # {} =>
            \E n \in Complete \cup InProgress({"require"}) : Order[n] = f

(* While modules are read the globals of the extension are set.            *)
FreshInv == process_pc = "require" => Registers[Order[position]] \subseteq globals

(* A module that was read too early was read for another extension, before *)
(* any handle of its own; a handle means that its module was read.         *)
EarlyFor(f, m) == Order[m] # f /\ f \in Requires[Order[m]]

ModuleInv ==
    /\ \A n \in handles : modules[Order[n]] # "unread"
    /\ \A f \in Files : modules[f] = "empty" =>
          \E m \in 1 .. position - 1 :
              EarlyFor(f, m) /\ \A n \in handles : Order[n] = f => m < n

HostProofInv ==
    HostInv /\ LoadInv /\ CodeInv /\ GlobalInv /\ NoDanglingGlobals /\ FreshInv /\ ModuleInv

(* The conversion to 16 bits changes a code by a multiple of 2^16.         *)
LEMMA Int16Range ==
    ASSUME NEW v \in Int
    PROVE  Int16(v) \in Status /\ (Int16(v) - v) % 65536 = 0
<1> DEFINE q == (v + 32768) \div 65536
           k == (v + 32768) % 65536
<1>1. q \in Int /\ k \in 0 .. 65535 /\ v + 32768 = 65536 * q + k
  OBVIOUS
<1>2. Int16(v) = k - 32768
  BY DEF Int16
<1> HIDE DEF q, k
<1>3. Int16(v) \in Status
  BY <1>1, <1>2 DEF Status
<1>4. Int16(v) - v = 65536 * (0 - q)
  BY <1>1, <1>2
<1>5. \A c \in Int : (65536 * c) % 65536 = 0
  OBVIOUS
<1> QED
  BY <1>1, <1>3, <1>4, <1>5

LEMMA InitHost == HostInit => HostProofInv
<1> SUFFICES ASSUME HostInit PROVE HostProofInv
  OBVIOUS
<1>1. 1 \in 1 .. Len(Order) + 1
  BY HostAssumption
<1>2. HostTypeOK
  BY <1>1 DEF HostInit, HostTypeOK, Code
<1> QED
  BY <1>2 DEF HostInit, HostProofInv, HostInv, StatusTellsOutcome, HandlesAreUsable,
     LoadInv, CodeInv, LoadPcs, InProgress, NoDanglingGlobals, GlobalInv, FreshInv,
     ModuleInv, Complete

LEMMA HostType == HostTypeOK /\ LoadInv /\ [HostNext]_hostVars => HostTypeOK'
<1> SUFFICES ASSUME HostTypeOK, LoadInv, [HostNext]_hostVars PROVE HostTypeOK'
  OBVIOUS
<1>0. /\ Len(Order) \in Nat
      /\ position \in Loads => position \in Nat /\ position + 1 \in 1 .. Len(Order) + 1
                               /\ Order[position] \in Files
  BY HostAssumption DEF Loads
<1>1. CASE APIInit \/ ScriptEnds \/ ResolveExports \/ UNCHANGED hostVars
  BY <1>1 DEF APIInit, ScriptEnds, ResolveExports, hostVars, HostTypeOK, loadVars,
     globalVars, codeVars
<1>10. 0 \in Status /\ Failure \in Status
  BY DEF Status, Failure
<1>11. CASE MainFails
  BY <1>10, <1>11 DEF MainFails, HostTypeOK, loadVars, globalVars
<1>12. CASE LoadScript
  BY <1>10, <1>12 DEF LoadScript, HostTypeOK, Code, loadVars, globalVars
<1>2. ASSUME NEW code \in Codes, SetExitCode(code) PROVE HostTypeOK'
  BY <1>2, HostAssumption, Int16Range DEF SetExitCode, HostTypeOK, Code, loadVars, globalVars
<1>3. CASE Allocate \/ OpenProcess \/ LoadLibrary
  BY <1>3 DEF LoadInv, LoadPcs, Allocate, OpenProcess, LoadLibrary, HostTypeOK,
     globalVars, codeVars
<1>4. CASE OpenFails \/ LibraryFails \/ ExtensionFails
  BY <1>0, <1>4 DEF LoadInv, LoadPcs, OpenFails, LibraryFails, ExtensionFails, GivesUp,
     HostTypeOK, globalVars, codeVars
<1>5. CASE ExtensionInit
  <2>1. globals' \subseteq Names
    BY <1>0, <1>5, HostAssumption DEF LoadInv, LoadPcs, ExtensionInit, HostTypeOK
  <2> QED
    BY <1>5, <2>1 DEF ExtensionInit, HostTypeOK, loadVars, codeVars
<1>6. ASSUME NEW n \in Loads, UnloadExtension(n) PROVE HostTypeOK'
  BY <1>6 DEF UnloadExtension, HostTypeOK, codeVars
<1>7. ASSUME NEW read, ReadModules(read)
      PROVE  modules' \in [Files -> {"unread", "empty", "constants"}]
  BY <1>7 DEF ReadModules, HostTypeOK
<1>8. CASE RequireReads
  BY <1>0, <1>7, <1>8 DEF LoadInv, LoadPcs, RequireReads, HostTypeOK, codeVars
<1>9. CASE RequireFails
  BY <1>0, <1>7, <1>9 DEF LoadInv, LoadPcs, RequireFails, HostTypeOK, codeVars
<1> QED
  BY <1>1, <1>2, <1>3, <1>4, <1>5, <1>6, <1>8, <1>9, <1>11, <1>12 DEF HostNext

(* Every step of a load, and every way it fails, takes or gives back      *)
(* exactly what LoadInv says is held there.                               *)
LEMMA HostLoads == HostTypeOK /\ LoadInv /\ [HostNext]_hostVars => LoadInv'
<1> SUFFICES ASSUME HostTypeOK, LoadInv, [HostNext]_hostVars PROVE LoadInv'
  OBVIOUS
<1>0. position \in Nat /\ \A n \in Complete : n \in Nat
  BY HostAssumption DEF HostTypeOK, Loads, Complete
<1> USE <1>0 DEF LoadInv, LoadPcs, InProgress, Complete
<1>1. CASE APIInit \/ MainFails \/ LoadScript \/ ScriptEnds \/ ResolveExports
           \/ UNCHANGED hostVars
  BY <1>1 DEF APIInit, MainFails, LoadScript, ScriptEnds, ResolveExports, hostVars, Loads,
     loadVars, globalVars, codeVars
<1>2. ASSUME NEW code \in Codes, SetExitCode(code) PROVE LoadInv'
  BY <1>2 DEF SetExitCode, loadVars, Loads
<1>3. CASE Allocate
  BY <1>3 DEF Allocate, Loads
<1>4. CASE OpenProcess \/ LoadLibrary
  BY <1>4 DEF OpenProcess, LoadLibrary, Loads
<1>5. CASE OpenFails \/ LibraryFails \/ ExtensionFails
  BY <1>5 DEF OpenFails, LibraryFails, ExtensionFails, GivesUp
<1>6. CASE ExtensionInit
  BY <1>6 DEF ExtensionInit, loadVars, Loads
<1>7. ASSUME NEW n \in Loads, UnloadExtension(n) PROVE LoadInv'
  BY <1>7 DEF UnloadExtension
<1>8. CASE RequireReads \/ RequireFails
  BY <1>8 DEF RequireReads, RequireFails
<1> QED
  BY <1>1, <1>2, <1>3, <1>4, <1>5, <1>6, <1>7, <1>8 DEF HostNext

LEMMA HostCodes ==
    HostTypeOK /\ CodeInv /\ StatusTellsOutcome /\ [HostNext]_hostVars
      => CodeInv' /\ StatusTellsOutcome'
<1> SUFFICES ASSUME HostTypeOK, CodeInv, StatusTellsOutcome, [HostNext]_hostVars
             PROVE  CodeInv' /\ StatusTellsOutcome'
  OBVIOUS
<1> USE DEF CodeInv, StatusTellsOutcome, LoadPcs
<1>1. CASE APIInit \/ MainFails \/ ScriptEnds \/ UNCHANGED hostVars
  BY <1>1 DEF APIInit, MainFails, ScriptEnds, hostVars, codeVars
<1>2. CASE LoadScript
  BY <1>2 DEF LoadScript, Status
<1>3. ASSUME NEW code \in Codes, SetExitCode(code) PROVE CodeInv' /\ StatusTellsOutcome'
  BY <1>3, HostAssumption, Int16Range DEF SetExitCode
<1>4. CASE Allocate \/ OpenProcess \/ LoadLibrary \/ ResolveExports \/ ExtensionInit
           \/ RequireReads \/ RequireFails \/ \E n \in Loads : UnloadExtension(n)
  BY <1>4 DEF Allocate, OpenProcess, LoadLibrary, ResolveExports, ExtensionInit,
     RequireReads, RequireFails, UnloadExtension, codeVars
<1>5. CASE OpenFails \/ LibraryFails \/ ExtensionFails
  BY <1>5 DEF OpenFails, LibraryFails, ExtensionFails, GivesUp, codeVars
<1> QED
  BY <1>1, <1>2, <1>3, <1>4, <1>5 DEF HostNext

(* Globals, modules and complete loads only change when an init function   *)
(* has run, when the modules are read and when a load is undone.           *)
GlobalsRest ==
    /\ UNCHANGED <<globals, modules, handles, orphans>>
    /\ position' \in {position, position + 1}
    /\ process_pc = "exited" => process_pc' = "exited"
    /\ process_pc' = "require" => process_pc = "require"
    /\ process_pc = "require" => process_pc' \in {"require", "exited"}
    /\ process_pc = "require" \/ process_pc' = "require" => position' = position

LEMMA OthersLeaveGlobals ==
    [HostNext]_hostVars =>
        ExtensionInit \/ RequireReads \/ RequireFails \/ (\E n \in Loads : UnloadExtension(n))
          \/ GlobalsRest
  BY DEF HostNext, GlobalsRest, hostVars, loadVars, globalVars, APIInit, MainFails,
     LoadScript, ScriptEnds, SetExitCode, Allocate, OpenProcess, LoadLibrary,
     ResolveExports, OpenFails, LibraryFails, ExtensionFails, GivesUp

LEMMA HostFresh == LoadInv /\ FreshInv /\ [HostNext]_hostVars => FreshInv'
<1> SUFFICES ASSUME LoadInv, FreshInv, [HostNext]_hostVars PROVE FreshInv'
  OBVIOUS
<1>1. CASE ExtensionInit
  BY <1>1 DEF ExtensionInit, FreshInv, loadVars
<1>2. CASE RequireReads \/ RequireFails \/ \E n \in Loads : UnloadExtension(n)
  BY <1>2 DEF RequireReads, RequireFails, UnloadExtension, FreshInv
<1>3. CASE GlobalsRest
  BY <1>3 DEF GlobalsRest, FreshInv
<1> QED
  BY <1>1, <1>2, <1>3, OthersLeaveGlobals

(* A global that is removed with an extension is set as long as a library  *)
(* of the extension is loaded.                                             *)
LEMMA HostGlobals ==
    HostTypeOK /\ LoadInv /\ LoadInv' /\ GlobalInv /\ NoDanglingGlobals /\ [HostNext]_hostVars
        => GlobalInv' /\ NoDanglingGlobals'
<1> SUFFICES ASSUME HostTypeOK, LoadInv, LoadInv', GlobalInv, NoDanglingGlobals,
                    [HostNext]_hostVars
             PROVE  GlobalInv' /\ NoDanglingGlobals'
  OBVIOUS
<1>0. position \in Nat /\ \A n \in Complete : n \in Nat
  BY HostAssumption DEF HostTypeOK, Loads, Complete
<1>1. GlobalInv'
  <2>1. CASE ExtensionInit
    <3>1. Order[position] \in Files
      BY <2>1, HostAssumption DEF ExtensionInit, LoadInv, LoadPcs, Loads
    <3> SUFFICES ASSUME NEW f \in Files, NEW g \in globals', g \in Unregisters[f]
                 PROVE  \E n \in (Complete \cup InProgress({"require"}))' : Order[n] = f
      BY DEF GlobalInv
    <3>2. CASE g \in globals
      BY <2>1, <3>2 DEF ExtensionInit, GlobalInv, InProgress, Complete, loadVars
    <3>3. CASE g \in Registers[Order[position]]
      <4>1. f = Order[position]
        BY <3>1, <3>3, HostAssumption
      <4> QED
        BY <2>1, <4>1 DEF ExtensionInit, InProgress, loadVars
    <3> QED
      BY <2>1, <3>2, <3>3 DEF ExtensionInit
  <2>2. CASE RequireReads \/ RequireFails
    BY <2>2 DEF RequireReads, RequireFails, GlobalInv, InProgress, Complete
  <2>3. ASSUME NEW n \in Loads, UnloadExtension(n) PROVE GlobalInv'
    <3> SUFFICES ASSUME NEW f \in Files, NEW g \in globals', g \in Unregisters[f]
                 PROVE  \E k \in (Complete \cup InProgress({"require"}))' : Order[k] = f
      BY DEF GlobalInv
    <3>1. g \in globals /\ f # Order[n]
      BY <2>3 DEF UnloadExtension
    <3>2. PICK k \in Complete : Order[k] = f
      BY <2>3, <3>1 DEF UnloadExtension, GlobalInv, InProgress
    <3> QED
      BY <2>3, <3>1, <3>2 DEF UnloadExtension, Complete, InProgress
  <2>4. CASE GlobalsRest
    BY <2>4 DEF GlobalsRest, GlobalInv, InProgress, Complete
  <2> QED
    BY <2>1, <2>2, <2>3, <2>4, OthersLeaveGlobals
<1>2. NoDanglingGlobals'
  <2>1. CASE process_pc' # "exited"
    <3>1. (Complete \cup InProgress({"require"}))' \subseteq libraries'
      BY <2>1 DEF LoadInv, InProgress
    <3> QED
      BY <1>1, <2>1, <3>1 DEF GlobalInv, NoDanglingGlobals
  <2>2. CASE process_pc' = "exited"
    <3>1. UNCHANGED <<globals, libraries>>
      BY <2>2 DEF HostNext, hostVars, loadVars, globalVars, APIInit, MainFails, LoadScript,
         ScriptEnds, SetExitCode, Allocate, OpenProcess, LoadLibrary, ResolveExports,
         OpenFails, LibraryFails, ExtensionFails, GivesUp, ExtensionInit, RequireReads,
         RequireFails, UnloadExtension
    <3> QED
      BY <3>1 DEF NoDanglingGlobals
  <2> QED
    BY <2>1, <2>2
<1> QED
  BY <1>1, <1>2

(* The loads before the current one are still before it.                   *)
LEMMA EarlierStay ==
    ASSUME NEW p \in Nat, NEW q \in Nat, p <= q
    PROVE  1 .. p - 1 \subseteq 1 .. q - 1
  OBVIOUS

(* Only a handle whose extension was loaded twice can lose its globals.    *)
LEMMA HostUsable ==
    HostTypeOK /\ LoadInv /\ FreshInv /\ HandlesAreUsable /\ [HostNext]_hostVars
        => HandlesAreUsable'
<1> SUFFICES ASSUME HostTypeOK, LoadInv, FreshInv, HandlesAreUsable, [HostNext]_hostVars
             PROVE  HandlesAreUsable'
  OBVIOUS
<1>0. /\ position \in Nat
      /\ \A n \in Complete : n \in Nat /\ n \in 1 .. position - 1 /\ Order[n] \in Files
  BY HostAssumption DEF HostTypeOK, Loads, LoadInv, Complete
<1>1. CASE ExtensionInit
  BY <1>0, <1>1 DEF ExtensionInit, HandlesAreUsable, loadVars
<1>2. CASE RequireReads \/ RequireFails
  <2>1. 1 .. position - 1 \subseteq 1 .. position' - 1 /\ position \notin 1 .. position - 1
    BY <1>0, <1>2, EarlierStay DEF RequireReads, RequireFails
  <2> SUFFICES ASSUME NEW n \in handles'
               PROVE  \/ Registers[Order[n]] \subseteq globals'
                      \/ \E m \in 1 .. position' - 1 :
                            Order[m] = Order[n] /\ m \notin handles' \cup orphans'
    BY DEF HandlesAreUsable
  <2>2. CASE n \in handles
    BY <1>2, <2>1, <2>2 DEF RequireReads, RequireFails, HandlesAreUsable
  <2>3. CASE n \notin handles
    BY <1>2, <2>3 DEF RequireReads, RequireFails, FreshInv
  <2> QED
    BY <2>2, <2>3
<1>3. ASSUME NEW n \in Loads, UnloadExtension(n) PROVE HandlesAreUsable'
  <2> SUFFICES ASSUME NEW k \in handles'
               PROVE  \/ Registers[Order[k]] \subseteq globals'
                      \/ \E m \in 1 .. position' - 1 :
                            Order[m] = Order[k] /\ m \notin handles' \cup orphans'
    BY DEF HandlesAreUsable
  <2>1. /\ k \in handles /\ n \in handles /\ position' = position
        /\ handles' = handles \ {n} /\ orphans' = orphans
        /\ globals' = globals \ Unregisters[Order[n]]
        /\ n \notin orphans
    BY <1>3 DEF UnloadExtension, LoadInv
  <2>2. Order[k] \in Files /\ Order[n] \in Files /\ n \in 1 .. position - 1
    BY <1>0, <2>1 DEF Complete
  <2>3. CASE Order[k] = Order[n]
    BY <2>1, <2>2, <2>3
  <2>4. CASE Order[k] # Order[n]
    <3>1. Registers[Order[k]] \cap Unregisters[Order[n]] = {}
      BY <2>2, <2>4, HostAssumption
    <3> QED
      BY <2>1, <3>1 DEF HandlesAreUsable
  <2> QED
    BY <2>3, <2>4
<1>4. CASE GlobalsRest
  <2>1. position' \in Nat /\ position <= position'
    BY <1>0, <1>4 DEF GlobalsRest
  <2>2. 1 .. position - 1 \subseteq 1 .. position' - 1
    BY <1>0, <2>1, EarlierStay
  <2> QED
    BY <1>4, <2>2, Zenon DEF GlobalsRest, HandlesAreUsable
<1> QED
  BY <1>1, <1>2, <1>3, <1>4, OthersLeaveGlobals

(* A module is empty only after another extension has read it before the   *)
(* handles of its own.                                                     *)
LEMMA HostModules ==
    HostTypeOK /\ LoadInv /\ FreshInv /\ ModuleInv /\ [HostNext]_hostVars => ModuleInv'
<1> SUFFICES ASSUME HostTypeOK, LoadInv, FreshInv, ModuleInv, [HostNext]_hostVars
             PROVE  ModuleInv'
  OBVIOUS
<1>0. /\ position \in Nat /\ modules \in [Files -> {"unread", "empty", "constants"}]
      /\ \A n \in handles : n \in Nat /\ n < position /\ Order[n] \in Files
  BY HostAssumption DEF HostTypeOK, Loads, LoadInv, Complete
<1>1. CASE ExtensionInit
  BY <1>1 DEF ExtensionInit, ModuleInv, loadVars
<1>2. ASSUME NEW n \in Loads, UnloadExtension(n) PROVE ModuleInv'
  BY <1>2, Zenon DEF UnloadExtension, ModuleInv
<1>3. CASE GlobalsRest
  <2>1. position' \in Nat /\ position <= position'
    BY <1>0, <1>3 DEF GlobalsRest
  <2>2. 1 .. position - 1 \subseteq 1 .. position' - 1
    BY <1>0, <2>1, EarlierStay
  <2> QED
    BY <1>3, <2>2, Zenon DEF GlobalsRest, ModuleInv
<1>4. CASE RequireReads \/ RequireFails
  <2> DEFINE p == position
             f == Order[p]
  <2>1. /\ p \in Nat /\ position' = p + 1 /\ f \in Files
        /\ handles' \subseteq handles \cup {p} /\ handles \subseteq handles'
        /\ Registers[f] \subseteq globals /\ p \in 1 .. p
    BY <1>0, <1>4, HostAssumption DEF RequireReads, RequireFails, LoadInv, LoadPcs, Loads,
       FreshInv
  <2>2. PICK read \in SUBSET (Requires[f] \cup {f}) :
             ReadModules(read) /\ (p \in handles' /\ modules[f] = "unread" => f \in read)
    BY <1>0, <1>4, HostAssumption DEF RequireReads, RequireFails, LoadInv
  <2>3. Borrowed[f] \subseteq globals /\ read \subseteq Files
    BY <2>1, HostAssumption
  <2> HIDE DEF p, f
  <2>4. \A m \in Files :
          modules'[m] = IF m \in read /\ modules[m] = "unread"
                        THEN IF Borrowed[m] \subseteq globals THEN "constants" ELSE "empty"
                        ELSE modules[m]
    BY <2>2, <2>3 DEF ReadModules
  <2>5. ASSUME NEW n \in handles' PROVE modules'[Order[n]] # "unread"
    <3>1. CASE n \in handles
      BY <1>0, <2>4, <3>1 DEF ModuleInv
    <3>2. CASE n = p
      BY <2>1, <2>2, <2>4, <2>5, <3>2 DEF f
    <3> QED
      BY <2>1, <3>1, <3>2
  <2>6. ASSUME NEW m \in Files, modules'[m] = "empty"
        PROVE  \E k \in 1 .. position' - 1 :
                   EarlyFor(m, k) /\ \A n \in handles' : Order[n] = m => k < n
    <3>1. CASE modules[m] = "empty"
      <4>1. PICK k \in 1 .. position - 1 :
                 EarlyFor(m, k) /\ \A n \in handles : Order[n] = m => k < n
        BY <3>1 DEF ModuleInv
      <4>2. k < p /\ k \in 1 .. position' - 1
        BY <2>1, <4>1 DEF p
      <4> QED
        BY <2>1, <4>1, <4>2
    <3>2. CASE modules[m] # "empty"
      <4>1. m \in read /\ modules[m] = "unread" /\ ~ (Borrowed[m] \subseteq globals)
        BY <2>4, <2>6, <3>2
      <4>2. m # f /\ m \in Requires[f]
        BY <2>2, <2>3, <4>1
      <4>3. EarlyFor(m, p)
        BY <4>2 DEF EarlyFor, f
      <4>4. \A n \in handles' : Order[n] # m
        BY <2>1, <4>1, <4>2 DEF ModuleInv, f
      <4>5. p \in 1 .. position' - 1
        <5>1. position' - 1 = p
          BY <2>1
        <5> QED
          BY <2>1, <5>1
      <4> QED
        BY <4>3, <4>4, <4>5
    <3> QED
      BY <3>1, <3>2
  <2> QED
    BY <2>5, <2>6 DEF ModuleInv, EarlyFor
<1> QED
  BY <1>1, <1>2, <1>3, <1>4, OthersLeaveGlobals

LEMMA HostProofInvHolds == HostSpec => []HostProofInv
<1>1. HostProofInv /\ [HostNext]_hostVars => HostProofInv'
  BY HostType, HostLoads, HostCodes, HostGlobals, HostFresh, HostUsable, HostModules
  DEF HostProofInv, HostInv
<1> QED
  BY <1>1, InitHost, PTL DEF HostSpec

(* The types; main returns the last exit code the script set, cut to 16    *)
(* bits, or -1, and never the variable it did not initialise (main.cpp:23, *)
(* 69; Script.cpp:20); and a handle that is held can be used unless its    *)
(* extension was loaded twice, for any codes and any order of loads        *)
(* (API.hpp:195-310).                                                      *)
THEOREM HostInvHolds == HostSpec => []HostInv
  BY HostProofInvHolds, PTL DEF HostProofInv

(* Whichever step of a load fails, nothing of it is left: outside a load  *)
(* objects, processes and libraries are those of the complete loads, whose*)
(* handles the script holds unless a Lua module failed in require         *)
(* (API.hpp:195-310, Script.lua:16).                                      *)
THEOREM NothingLeaksThm == HostSpec => []NothingLeaks
<1>1. HostProofInv => NothingLeaks
  BY DEF HostProofInv, LoadInv, InProgress, LoadPcs, Complete, NothingLeaks
<1> QED
  BY <1>1, HostProofInvHolds, PTL

(* No global that the deinit function of its extension knows outlives the *)
(* library its code is in, for any extensions that set different globals  *)
(* (API.hpp:286-310).                                                     *)
THEOREM NoDanglingGlobalsThm == HostSpec => []NoDanglingGlobals
  BY HostProofInvHolds, PTL DEF HostProofInv

(* The Lua module of a loaded extension has copied the constants of its   *)
(* library, unless the module of an extension loaded before required it,  *)
(* for every order of loads: modules are read once (Script.lua:16,        *)
(* ByteBuffer.lua:6).                                                     *)
THEOREM ConstantsCopiedThm == HostSpec => []ConstantsCopied
<1>1. HostProofInv => ConstantsCopied
  <2> SUFFICES ASSUME HostProofInv, NEW n \in handles, modules[Order[n]] # "constants"
               PROVE  \E m \in 1 .. n - 1 :
                          Order[m] # Order[n] /\ Order[n] \in Requires[Order[m]]
    BY DEF ConstantsCopied
  <2>1. /\ n \in Nat /\ Order[n] \in Files /\ position \in Nat
        /\ modules[Order[n]] \in {"unread", "empty", "constants"}
    BY HostAssumption DEF HostProofInv, HostInv, HostTypeOK, Loads
  <2>2. modules[Order[n]] = "empty"
    BY <2>1 DEF HostProofInv, ModuleInv
  <2>3. PICK m \in 1 .. position - 1 :
             EarlyFor(Order[n], m) /\ \A k \in handles : Order[k] = Order[n] => m < k
    BY <2>1, <2>2 DEF HostProofInv, ModuleInv
  <2>4. m \in 1 .. n - 1
    BY <2>1, <2>3
  <2> QED
    BY <2>3, <2>4 DEF EarlyFor
<1> QED
  BY <1>1, HostProofInvHolds, PTL

-----------------------------------------------------------------------------
(* Threads and the console: who is between Lock and Unlock, and whose call*)
(* has shown nothing yet.                                                 *)
Waits == {"write wait", "read wait"}
Holding(t) == thread_pc[t] \in {"write", "prompt", "input", "copy", "unlock"}
Silent(t)  == thread_pc[t] \in {"write wait", "read wait", "write"}

(* Only the owner of the mutex is between Lock and Unlock, so the global  *)
(* string holds its line while it copies it.                              *)
LockInv ==
    \A t \in Threads :
        /\ Holding(t) => owner = t
        /\ thread_pc[t] = "copy" => last_line[1] = t
        /\ value[t][1] \in {t, Nobody}

(* Calls on the screen have begun; after the first piece of the one that  *)
(* is writing only reports are from elsewhere.                            *)
OnlyReportsAfter(i, c) == \A j \in DOMAIN screen : i < j => screen[j] \in {c, Report}

ScreenInv ==
    /\ \A i \in DOMAIN screen :
          screen[i] # Report => screen[i][2] <= number[screen[i][1]]
    /\ \A t \in Threads, i \in DOMAIN screen :
        screen[i] = ThisCall(t) =>
            /\ ~Silent(t)
            /\ thread_pc[t] \in {"prompt", "input"} => OnlyReportsAfter(i, ThisCall(t))

ConsoleProofInv == ConsoleTypeOK /\ LockInv /\ FreedAfterEnd /\ ScreenInv
  /\ CallsStayWhole

LEMMA InitConsole == ConsoleInit => ConsoleProofInv
<1> SUFFICES ASSUME ConsoleInit PROVE ConsoleProofInv
  OBVIOUS
<1> USE ConsoleAssumption, NobodyAssumption DEF ConsoleInit
<1>1. ConsoleTypeOK
  BY DEF ConsoleTypeOK, NoCall
<1>2. LockInv /\ FreedAfterEnd
  BY DEF LockInv, Holding, FreedAfterEnd, NoCall
<1>3. ScreenInv /\ CallsStayWhole
  BY DEF ScreenInv, CallsStayWhole
<1> QED
  BY <1>1, <1>2, <1>3 DEF ConsoleProofInv

LEMMA ConsoleType == ConsoleTypeOK /\ [ConsoleNext]_systemVars => ConsoleTypeOK'
<1> SUFFICES ASSUME ConsoleTypeOK, [ConsoleNext]_systemVars PROVE ConsoleTypeOK'
  OBVIOUS
<1> USE DEF consoleVars, threadVars, errorVars
<1>1. CASE Joined \/ JoinTimesOut \/ UNCHANGED systemVars
  BY <1>1 DEF Joined, JoinTimesOut, systemVars, ConsoleTypeOK
<1>3. WriteException => reports' \in 0 .. MaxReports /\ screen' \in Seq(CallId \cup {Report})
  <2>0. reports \in 0 .. MaxReports /\ MaxReports \in Nat
    BY ConsoleAssumption DEF ConsoleTypeOK
  <2>1. WriteException => reports' \in 0 .. MaxReports
    BY <2>0 DEF WriteException
  <2>2. screen \in Seq(CallId \cup {Report})
    BY DEF ConsoleTypeOK
  <2>3. Append(screen, Report) \in Seq(CallId \cup {Report})
    BY <2>2
  <2> QED
    BY <2>1, <2>3 DEF WriteException
<1>4. CASE JoinFails
  BY <1>3, <1>4 DEF JoinFails, WriteException, ConsoleTypeOK
<1>2. ASSUME NEW t \in Threads, ThreadStep(t) PROVE ConsoleTypeOK'
  <2>0. ThisCall(t) \in CallId /\ screen \in Seq(CallId \cup {Report})
    BY DEF ThisCall, CallId, ConsoleTypeOK
  <2>6. MaxCalls \in Nat
    BY ConsoleAssumption
  <2>1. CASE WriteLine(t) \/ ReadLine(t)
    <3>1. PICK w \in Waits : Calls(t, w)
      BY <2>1 DEF WriteLine, ReadLine, Waits
    <3>2. number[t] \in 0 .. MaxCalls /\ number[t] < MaxCalls
      BY <3>1 DEF Calls, ConsoleTypeOK
    <3>3. number[t] + 1 \in 0 .. MaxCalls
      BY <3>2, <2>6
    <3>4. number' \in [Threads -> 0 .. MaxCalls]
      BY <3>1, <3>3 DEF Calls, ConsoleTypeOK
    <3> QED
      BY <3>1, <3>4 DEF Calls, ConsoleTypeOK, Waits
  <2>2. CASE mutex_lock(t) \/ mutex_unlock(t)
    BY <2>2 DEF mutex_lock, mutex_unlock, Moves, ConsoleTypeOK
  <2>3. CASE console_write_line(t) \/ console_write(t) \/ UserTypes(t)
    <3>1. screen' = Append(screen, ThisCall(t))
      BY <2>3 DEF console_write_line, console_write, UserTypes, Shows
    <3>2. screen' \in Seq(CallId \cup {Report})
      BY <2>0, <3>1
    <3>3. pieces[t] \in 0 .. MaxPieces
      BY DEF ConsoleTypeOK
    <3>4. pieces[t] > 0 => pieces[t] - 1 \in 0 .. MaxPieces
      BY <3>3, ConsoleAssumption
    <3>5. pieces' \in [Threads -> 0 .. MaxPieces]
      BY <2>3, <3>4 DEF console_write_line, console_write, UserTypes, ConsoleTypeOK
    <3> QED
      BY <2>0, <2>3, <3>2, <3>5 DEF console_write_line, console_write, UserTypes, Moves,
         ConsoleTypeOK
  <2>4. CASE console_read_line(t) \/ ReadLineReturns(t) \/ ReadLineFails(t)
    BY <2>4 DEF console_read_line, ReadLineReturns, ReadLineFails, Moves, ConsoleTypeOK
  <2>5. CASE Raise(t) \/ thread_start(t) \/ Ends(t) \/ thread_join(t)
    BY <2>5 DEF Raise, thread_start, Ends, thread_join, Moves, ConsoleTypeOK
  <2>7. CASE thread_start_fails(t)
    BY <1>3, <2>7 DEF thread_start_fails, WriteException, ConsoleTypeOK
  <2> QED
    BY <1>2, <2>1, <2>2, <2>3, <2>4, <2>5, <2>7 DEF ThreadStep, Inside
<1> QED
  BY <1>1, <1>2, <1>4 DEF ConsoleNext

LEMMA ConsoleLock ==
    ConsoleTypeOK /\ LockInv /\ FreedAfterEnd /\ [ConsoleNext]_systemVars => LockInv'
      /\ FreedAfterEnd'
<1> SUFFICES ASSUME ConsoleTypeOK, LockInv, FreedAfterEnd, [ConsoleNext]_systemVars
    PROVE LockInv' /\ FreedAfterEnd'
  OBVIOUS
<1> USE ConsoleAssumption, NobodyAssumption
    DEF ConsoleTypeOK, LockInv, Holding, FreedAfterEnd, consoleVars, threadVars, errorVars
<1>0. NoCall[1] = Nobody
  BY DEF NoCall
<1>1. CASE Joined \/ JoinTimesOut \/ UNCHANGED systemVars
  BY <1>1 DEF Joined, JoinTimesOut, systemVars
<1>3. CASE UNCHANGED <<thread_pc, object, owner, last_line, value>>
  BY <1>3
<1>4. CASE JoinFails
  BY <1>3, <1>4 DEF JoinFails, WriteException
<1>2. ASSUME NEW t \in Threads, ThreadStep(t) PROVE LockInv' /\ FreedAfterEnd'
  <2>1. CASE WriteLine(t) \/ ReadLine(t)
    <3>1. PICK w \in Waits : Calls(t, w)
      BY <2>1 DEF WriteLine, ReadLine, Waits
    <3> QED
      BY <3>1 DEF Calls, Free, Waits
  <2>2. CASE mutex_lock(t) \/ mutex_unlock(t)
    BY <2>2 DEF mutex_lock, mutex_unlock, Moves
  <2>3. CASE console_write_line(t) \/ console_write(t)
    BY <2>3 DEF console_write_line, console_write, Moves
  <2>6. CASE UserTypes(t)
    <3>1. last_line'[1] = t
      BY <2>6 DEF UserTypes, ThisCall
    <3> QED
      BY <2>6, <3>1 DEF UserTypes, Moves
  <2>4. CASE console_read_line(t)
    BY <2>4 DEF console_read_line, Moves
  <2>8. CASE ReadLineFails(t)
    <3>1. \A u \in Threads : value'[u][1] \in {u, Nobody}
      BY <1>0, <2>8 DEF ReadLineFails
    <3> QED
      BY <2>8, <3>1 DEF ReadLineFails, Moves
  <2>7. CASE ReadLineReturns(t)
    BY <2>7 DEF ReadLineReturns, Moves
  <2>5. CASE thread_start(t) \/ Ends(t) \/ thread_join(t)
    BY <2>5 DEF thread_start, Ends, thread_join, Moves
  <2>9. CASE Raise(t)
    <3>1. PICK to \in {"work", "ended"} : thread_pc' = [thread_pc EXCEPT ![t] = to]
      BY <2>9 DEF Raise
    <3> QED
      BY <2>9, <3>1 DEF Raise
  <2>10. CASE thread_start_fails(t)
    BY <1>3, <2>10 DEF thread_start_fails, WriteException
  <2> QED
    BY <1>2, <2>1, <2>2, <2>3, <2>4, <2>5, <2>6, <2>7, <2>8, <2>9, <2>10 DEF ThreadStep, Inside
<1> QED
  BY <1>1, <1>2, <1>4 DEF ConsoleNext

(* What CallsStayWhole says of the screen, of any sequence: it stays so   *)
(* when an element is added that is a report, or that only reports follow. *)
Whole(s) ==
    \A i, j, k \in DOMAIN s :
        i < j /\ j < k /\ s[i] = s[k] /\ s[i] # Report => s[j] \in {s[i], Report}

LEMMA AppendWhole ==
    ASSUME NEW S, NEW s \in Seq(S), NEW c \in S, Whole(s),
           c # Report => \A i, j \in DOMAIN s : s[i] = c /\ i < j => s[j] \in {c, Report}
    PROVE  Whole(Append(s, c))
<1> DEFINE r == Append(s, c)
<1>1. Len(s) \in Nat /\ Len(r) = Len(s) + 1 /\ DOMAIN r = 1 .. Len(s) + 1
      /\ DOMAIN s = 1 .. Len(s)
  OBVIOUS
<1>2. r[Len(s) + 1] = c /\ \A i \in 1 .. Len(s) : r[i] = s[i]
  OBVIOUS
<1> HIDE DEF r
<1>3. ASSUME NEW i \in DOMAIN r, NEW j \in DOMAIN r, NEW k \in DOMAIN r, i < j, j < k,
             r[i] = r[k], r[i] # Report
      PROVE  r[j] \in {r[i], Report}
  <2>1. CASE k = Len(s) + 1
    <3>1. i \in DOMAIN s /\ j \in DOMAIN s /\ s[i] = c /\ c # Report
      BY <1>1, <1>2, <1>3, <2>1
    <3> QED
      BY <1>1, <1>2, <1>3, <3>1
  <2>2. CASE k # Len(s) + 1
    BY <1>1, <1>2, <1>3, <2>2 DEF Whole
  <2> QED
    BY <2>1, <2>2
<1> QED
  BY <1>3 DEF Whole, r

LEMMA ConsoleFacts ==
    ASSUME ConsoleTypeOK
    PROVE  /\ \A t \in Threads : /\ ThisCall(t) \in CallId
                                /\ ThisCall(t)[1] = t /\ ThisCall(t)[2] = number[t]
                                /\ number[t] \in Nat
           /\ \A c \in CallId : c[1] \in Threads /\ c[2] \in Nat /\ c # Report
           /\ screen \in Seq(CallId \cup {Report})
           /\ thread_pc = [t \in Threads |-> thread_pc[t]]
              /\ number = [t \in Threads |-> number[t]]
<1>0. number \in [Threads -> 0 .. MaxCalls]
  BY DEF ConsoleTypeOK
<1>1. \A t \in Threads : number[t] \in 0 .. MaxCalls /\ number[t] \in Nat
  BY <1>0, ConsoleAssumption
<1>2. \A c \in CallId : c[1] \in Threads /\ c[2] \in 0 .. MaxCalls
  BY DEF CallId
<1>3. \A c \in CallId : c[2] \in Nat
  BY <1>2, ConsoleAssumption
<1>4. Report[1] = Nobody
  BY DEF Report, NoCall
<1>5. \A c \in CallId : c # Report
  BY <1>2, <1>4, NobodyAssumption
<1> QED
  BY <1>1, <1>2, <1>3, <1>5 DEF ConsoleTypeOK, ThisCall, CallId

LEMMA ElementIn == ASSUME NEW S, NEW s \in Seq(S) PROVE \A i \in DOMAIN s : s[i] \in S
  OBVIOUS

(* A thread that shows something holds the mutex: only reports follow its  *)
(* call on the screen, or it is not on it yet, and no other one is writing. *)
LEMMA ConsoleShows ==
    ASSUME ConsoleProofInv, NEW t \in Threads, Holding(t),
           thread_pc[t] \in {"write", "prompt", "input"},
           Shows(t), number' = number,
           thread_pc' \in {[thread_pc EXCEPT ![t] = "unlock"], [thread_pc EXCEPT ![t] = "copy"], thread_pc},
           thread_pc[t] = "write" => thread_pc' # thread_pc
    PROVE  ScreenInv' /\ CallsStayWhole'
<1> DEFINE c == ThisCall(t)
           n == Len(screen)
<1>0. /\ c \in CallId /\ c[1] = t /\ c[2] = number[t] /\ screen \in Seq(CallId \cup {Report})
      /\ thread_pc = [u \in Threads |-> thread_pc[u]]
      /\ \A u \in Threads : number[u] \in Nat
      /\ c # Report
  BY ConsoleFacts DEF ConsoleProofInv
<1>1. /\ n \in Nat /\ Len(screen') = n + 1 /\ DOMAIN screen = 1 .. n
         /\ DOMAIN screen' = 1 .. n + 1
      /\ screen'[n + 1] = c /\ \A i \in 1 .. n : screen'[i] = screen[i]
  BY <1>0 DEF Shows
<1>2. \A i, j \in DOMAIN screen : screen[i] = c /\ i < j => screen[j] \in {c, Report}
  BY DEF ConsoleProofInv, ScreenInv, Silent, OnlyReportsAfter
<1>3. CallsStayWhole'
  <2>1. Whole(screen)
    BY DEF ConsoleProofInv, CallsStayWhole, Whole
  <2>2. Whole(Append(screen, c))
    BY <1>0, <1>2, <2>1, AppendWhole
  <2> QED
    BY <2>2 DEF Shows, Whole, CallsStayWhole
<1>4. \A u \in Threads : u # t => thread_pc'[u] = thread_pc[u]
      /\ thread_pc[u] \notin {"write", "prompt", "input"} /\ ThisCall(u) # c
  BY <1>0 DEF ConsoleProofInv, LockInv, Holding, ThisCall
<1>5. \A u \in Threads : ThisCall(u)' = ThisCall(u)
  BY DEF ThisCall
<1>6. ScreenInv'
  <2>1. ASSUME NEW i \in DOMAIN screen', screen'[i] # Report
        PROVE  (screen[i][2] <= number[screen[i][1]])'
    BY <1>0, <1>1, <2>1 DEF ConsoleProofInv, ScreenInv
  <2>2. ASSUME NEW u \in Threads, NEW i \in DOMAIN screen', screen'[i] = ThisCall(u)
        PROVE  ~Silent(u)' /\ (thread_pc'[u] \in {"prompt", "input"}
               => OnlyReportsAfter(i, ThisCall(u))')
    <3>1. CASE u = t
      <4>1. ~Silent(u)'
        BY <1>0, <3>1 DEF Silent
      <4>2. ASSUME NEW j \in DOMAIN screen', i < j PROVE screen'[j] \in {c, Report}
        BY <1>1, <1>2, <2>2, <3>1, <4>2
      <4> QED
        BY <1>5, <3>1, <4>1, <4>2 DEF OnlyReportsAfter
    <3>2. CASE u # t
      <4>1. i \in DOMAIN screen /\ screen[i] = ThisCall(u)
        BY <1>1, <1>4, <2>2, <3>2
      <4> QED
        BY <1>4, <3>2, <4>1 DEF ConsoleProofInv, ScreenInv, Silent
    <3> QED
      BY <3>1, <3>2
  <2> QED
    BY <1>5, <2>1, <2>2 DEF ScreenInv
<1> QED
  BY <1>3, <1>6

(* A report can come at any moment.                                        *)
LEMMA ConsoleReports ==
    ASSUME ConsoleProofInv, WriteException, thread_pc' = thread_pc
    PROVE  ScreenInv' /\ CallsStayWhole'
<1> DEFINE n == Len(screen)
<1>0. /\ screen \in Seq(CallId \cup {Report})
      /\ \A u \in Threads : ThisCall(u) \in CallId
      /\ Report \notin CallId
  BY ConsoleFacts DEF ConsoleProofInv
<1>1. /\ n \in Nat /\ DOMAIN screen = 1 .. n /\ DOMAIN screen' = 1 .. n + 1
      /\ screen'[n + 1] = Report /\ \A i \in 1 .. n : screen'[i] = screen[i]
  BY <1>0 DEF WriteException
<1>2. number' = number /\ \A u \in Threads : ThisCall(u)' = ThisCall(u)
  BY DEF ThisCall, WriteException
<1>3. CallsStayWhole'
  <2>1. Whole(screen)
    BY DEF ConsoleProofInv, CallsStayWhole, Whole
  <2>2. Whole(Append(screen, Report))
    BY <1>0, <2>1, AppendWhole
  <2> QED
    BY <2>2 DEF WriteException, Whole, CallsStayWhole
<1>4. \A i \in DOMAIN screen' : screen'[i] # Report => screen'[i][2] <= number'[screen'[i][1]]
  BY <1>1, <1>2 DEF ConsoleProofInv, ScreenInv
<1>5. ASSUME NEW u \in Threads, NEW i \in DOMAIN screen', screen'[i] = ThisCall(u)'
      PROVE  ~Silent(u)' /\ (thread_pc'[u] \in {"prompt", "input"}
             => OnlyReportsAfter(i, ThisCall(u))')
  <2>1. i \in DOMAIN screen /\ screen[i] = ThisCall(u)
    BY <1>0, <1>1, <1>2, <1>5
  <2>2. ~Silent(u)'
    BY <2>1 DEF ConsoleProofInv, ScreenInv, Silent
  <2>3. ASSUME thread_pc'[u] \in {"prompt", "input"}, NEW j \in DOMAIN screen', i < j
        PROVE  screen'[j] \in {ThisCall(u), Report}
    <3>1. CASE j \in DOMAIN screen
      BY <1>1, <2>1, <2>3, <3>1 DEF ConsoleProofInv, ScreenInv, OnlyReportsAfter
    <3>2. CASE j = n + 1
      BY <1>1, <3>2
    <3> QED
      BY <1>1, <3>1, <3>2
  <2> QED
    BY <1>2, <2>2, <2>3 DEF OnlyReportsAfter
<1> QED
  BY <1>3, <1>4, <1>5 DEF ScreenInv

LEMMA ConsoleScreen == ConsoleProofInv /\ [ConsoleNext]_systemVars => ScreenInv'
  /\ CallsStayWhole'
<1> SUFFICES ASSUME ConsoleProofInv, [ConsoleNext]_systemVars PROVE ScreenInv'
    /\ CallsStayWhole'
  OBVIOUS
<1>1. ASSUME NEW t \in Threads, console_write_line(t) \/ console_write(t) \/ UserTypes(t)
      PROVE  ScreenInv' /\ CallsStayWhole'
  <2>1. /\ thread_pc[t] \in {"write", "prompt", "input"} /\ Shows(t) /\ number' = number
        /\ thread_pc' \in {[thread_pc EXCEPT ![t] = "unlock"], [thread_pc EXCEPT ![t] = "copy"], thread_pc}
        /\ thread_pc[t] = "write" => thread_pc' = [thread_pc EXCEPT ![t] = "unlock"]
    BY <1>1 DEF console_write_line, console_write, UserTypes, Moves
  <2>2. thread_pc[t] = "write" => thread_pc' # thread_pc
    BY <2>1 DEF ConsoleProofInv, ConsoleTypeOK
  <2> QED
    BY <2>1, <2>2, ConsoleShows DEF Holding
<1>2. ASSUME NEW t \in Threads, WriteLine(t) \/ ReadLine(t)
      PROVE  ScreenInv' /\ CallsStayWhole'
  <2>1. PICK w \in Waits : Calls(t, w)
    BY <1>2 DEF WriteLine, ReadLine, Waits
  <2>2. /\ screen' = screen /\ number' = [number EXCEPT ![t] = @ + 1]
           /\ thread_pc' = [thread_pc EXCEPT ![t] = w]
        /\ \A u \in Threads : number[u] \in Nat
        /\ thread_pc = [u \in Threads |-> thread_pc[u]]
           /\ number = [u \in Threads |-> number[u]]
        /\ screen \in Seq(CallId \cup {Report})
    BY <2>1, ConsoleFacts DEF Calls, ConsoleProofInv
  <2>3. \A i \in DOMAIN screen :
          screen[i] # Report => /\ screen[i][1] \in Threads /\ screen[i][2] \in Nat
                                /\ screen[i][2] <= number[screen[i][1]]
    <3>1. \A i \in DOMAIN screen : screen[i] \in CallId \cup {Report}
      BY <2>2, ElementIn
    <3> QED
      BY <3>1, ConsoleFacts DEF ConsoleProofInv, ScreenInv
  <2>4. \A i \in DOMAIN screen : screen[i] # <<t, number[t] + 1>>
    <3>1. ASSUME NEW i \in DOMAIN screen, screen[i] = <<t, number[t] + 1>> PROVE FALSE
      <4>1. screen[i][1] = t /\ screen[i][2] = number[t] + 1
        BY <3>1
      <4>2. screen[i] # Report
        BY <4>1, NobodyAssumption DEF Report, NoCall
      <4>3. number[t] + 1 <= number[t] /\ number[t] \in Nat
        BY <2>2, <2>3, <4>1, <4>2
      <4> QED
        BY <4>3
    <3> QED
      BY <3>1
  <2>5. ASSUME NEW u \in Threads, NEW i \in DOMAIN screen, screen[i] = ThisCall(u)'
        PROVE  /\ ~Silent(u)'
               /\ thread_pc'[u] \in {"prompt", "input"} => OnlyReportsAfter(i, ThisCall(u))'
    <3>1. u # t /\ ThisCall(u)' = ThisCall(u) /\ thread_pc'[u] = thread_pc[u]
      BY <2>2, <2>4, <2>5 DEF ThisCall
    <3> QED
      BY <2>2, <2>5, <3>1 DEF ConsoleProofInv, ScreenInv, Silent, OnlyReportsAfter
  <2>6. ASSUME NEW i \in DOMAIN screen, screen[i] # Report
        PROVE  screen[i][2] <= number'[screen[i][1]]
    <3> DEFINE u == screen[i][1]
    <3>1. u \in Threads /\ screen[i][2] \in Nat /\ screen[i][2] <= number[u]
          /\ number[u] \in Nat
      BY <2>2, <2>3, <2>6
    <3>2. number'[u] \in {number[u], number[u] + 1}
      BY <2>2, <3>1
    <3> HIDE DEF u
    <3>3. screen[i][2] <= number'[u]
      BY <3>1, <3>2
    <3> QED
      BY <3>3 DEF u
  <2> QED
    BY <2>2, <2>5, <2>6 DEF ScreenInv, ConsoleProofInv, CallsStayWhole
<1>3. CASE /\ screen' = screen /\ number' = number
           /\ \A u \in Threads : thread_pc'[u] # thread_pc[u] =>
                \/ thread_pc'[u] \in {"input", "copy", "unlock", "work", "ended"}
                   /\ (thread_pc'[u] = "input" => thread_pc[u] = "prompt")
                \/ thread_pc[u] = "write wait" /\ thread_pc'[u] = "write" 
                \/ thread_pc[u] = "read wait" /\ thread_pc'[u] = "prompt"
  BY <1>3 DEF ConsoleProofInv, ScreenInv, CallsStayWhole, Silent, ThisCall, OnlyReportsAfter
<1>4. ASSUME NEW t \in Threads, mutex_lock(t) \/ mutex_unlock(t) \/ console_read_line(t)
             \/ ReadLineReturns(t) \/ ReadLineFails(t) \/ Raise(t) \/ thread_start(t)
                \/ Ends(t) \/ thread_join(t)
      PROVE  ScreenInv' /\ CallsStayWhole'
  BY <1>3, <1>4 DEF mutex_lock, mutex_unlock, console_read_line, ReadLineReturns,
     ReadLineFails, Raise, thread_start, Ends, thread_join, Moves, consoleVars, threadVars,
     ConsoleProofInv, ConsoleTypeOK
<1>5. CASE Joined \/ JoinTimesOut \/ UNCHANGED systemVars
  BY <1>3, <1>5 DEF Joined, JoinTimesOut, systemVars, consoleVars
<1>6. CASE JoinFails \/ \E t \in Threads : thread_start_fails(t)
  BY <1>6, ConsoleReports DEF JoinFails, thread_start_fails
<1> QED
  BY <1>1, <1>2, <1>4, <1>5, <1>6 DEF ConsoleNext, ThreadStep, Inside

LEMMA ConsoleProofInvHolds == ConsoleSpec => []ConsoleProofInv
<1>1. ConsoleProofInv /\ [ConsoleNext]_systemVars => ConsoleProofInv'
  BY ConsoleType, ConsoleLock, ConsoleScreen DEF ConsoleProofInv
<1> QED
  BY <1>1, InitConsole, PTL DEF ConsoleSpec

(* The types; a ReadLine returns the line typed for it, although all      *)
(* threads read into one string (Console/main.cpp:11, 26-29); and a thread*)
(* object is freed after its thread has ended (Thread/main.cpp:63-84).    *)
THEOREM ConsoleInvHolds == ConsoleSpec => []ConsoleInv
<1>1. ConsoleProofInv => ConsoleInv
  BY DEF ConsoleProofInv, ConsoleInv, LockInv, ReadsItsOwnLine
<1> QED
  BY <1>1, ConsoleProofInvHolds, PTL

(* Between the pieces of a console call on the screen stand at most        *)
(* reports of failing thread functions, which are written without the      *)
(* mutex, for any number of threads, calls and reports, and also when calls *)
(* raise errors with the mutex locked (Console.lua:18-34, 44-58;           *)
(* Thread/main.cpp:45-49, 73-79).                                          *)
THEOREM CallsStayWholeThm == ConsoleSpec => []CallsStayWhole
  BY ConsoleProofInvHolds, PTL DEF ConsoleProofInv

-----------------------------------------------------------------------------
(* The stream of replies: the lines of the reply to the last command.     *)
Word(texts, i) == Said(command.n, texts[i])
End == Said(command.n, Newline)

(* How far a reply of one line, or of two, can be read.                   *)
OneLine(a, z) ==
    \/ buffer = <<a>> /\ buffers = <<>>      /\ received = <<z>>
    \/ buffer = <<>>  /\ buffers = << <<a>> >> /\ received = <<>>

TwoLines(a, b, z) ==
    \/ buffer = <<a>> /\ buffers = <<>>             /\ received = <<z, b, z>>
    \/ buffer = <<>>  /\ buffers = << <<a>> >>        /\ received = <<b, z>>
    \/ buffer = <<b>> /\ buffers = << <<a>> >>        /\ received = <<z>>
    \/ buffer = <<>>  /\ buffers = << <<a>>, <<b>> >> /\ received = <<>>

PartRead(texts) ==
    IF Len(texts) = 1 THEN OneLine(Word(texts, 1), End)
                      ELSE TwoLines(Word(texts, 1), Word(texts, 2), End)

(* The first character is waited for: of the whole reply, which is on its *)
(* way or has arrived, or of none if the server has closed.               *)
NothingRead ==
    /\ buffer = <<>> /\ buffers = <<>>
    /\ \/ replies = <<>> /\ received = <<>>
       \/ \E texts \in Answers(command.kind) :
            LET reply == Reply(command.n, texts)
            IN  \/ replies = <<reply>> /\ received = <<>>
                \/ replies = <<>> /\ received = reply

PartlyRead == replies = <<>> /\ \E texts \in Answers(command.kind) : PartRead(texts)

Quiet == replies = <<>> /\ received = <<>>

(* When replies come as a whole there is at most one in the stream, the   *)
(* one to the command whose call is reading.                              *)
StreamInv ==
    /\ reader_pc # "idle" => command.kind \in Kinds
    /\ whole /\ reader_pc = "idle"  => Quiet
    /\ whole /\ reader_pc = "first" => NothingRead
    /\ whole /\ reader_pc = "more"  => PartlyRead

SDRPPProofInv == SDRPPTypeOK /\ StreamInv /\ TrueAnswer

Double(kind) == kind = "get_mode"

(* Tuples of one and of two elements.                                     *)
LEMMA OneText == ASSUME NEW x, NEW texts, texts = <<x>>
                 PROVE  Len(texts) = 1 /\ DOMAIN texts = 1 .. 1 /\ texts[1] = x
  OBVIOUS

LEMMA TwoTexts == ASSUME NEW x, NEW y, NEW texts, texts = <<x, y>>
                  PROVE  Len(texts) = 2 /\ DOMAIN texts = 1 .. 2 /\ texts[1] = x
                         /\ texts[2] = y
  OBVIOUS

LEMMA AppendTwo == ASSUME NEW a, NEW b PROVE Append(<<a>>, b) = <<a, b>>
<1> DEFINE S == {a, b}
           s == Append(<<a>>, b)
           t == <<a, b>>
<1>1. s \in Seq(S) /\ t \in Seq(S) /\ Len(s) = 2 /\ Len(t) = 2
  OBVIOUS
<1>2. \A i \in 1 .. 2 : s[i] = t[i]
  OBVIOUS
<1> HIDE DEF s, t, S
<1>3. s = t
  BY <1>1, <1>2, SeqEqual
<1> QED
  BY <1>3 DEF s, t

(* A reply has one line; only that of get_mode may have two.              *)
LEMMA SDRPPAnswers ==
    ASSUME NEW kind \in Kinds, NEW texts \in Answers(kind)
    PROVE  /\ ~Double(kind) => Len(texts) = 1
           /\ Len(texts) \in {1, 2}
           /\ DOMAIN texts = 1 .. Len(texts)
           /\ \A i \in DOMAIN texts : texts[i] \in Texts /\ texts[i] # Newline
<1> DEFINE Word0(x) == x \in Texts /\ x # Newline
<1>1. ASSUME NEW x, NEW y, texts = <<x, y>>, Word0(x), Word0(y), Double(kind)
      PROVE  /\ Len(texts) = 2 /\ DOMAIN texts = 1 .. 2
             /\ \A i \in 1 .. 2 : Word0(texts[i])
  <2> HIDE DEF Word0
  <2> QED
    BY <1>1, TwoTexts
<1>2. ASSUME NEW x, texts = <<x>>, Word0(x)
      PROVE  /\ Len(texts) = 1 /\ DOMAIN texts = 1 .. 1
             /\ \A i \in 1 .. 1 : Word0(texts[i])
  <2> HIDE DEF Word0
  <2> QED
    BY <1>2, OneText
<1>3. \/ \E x, y : texts = <<x, y>> /\ Word0(x) /\ Word0(y) /\ Double(kind)
      \/ \E x : texts = <<x>> /\ Word0(x)
  BY DEF Double, Answers, Texts, Newline, Kinds
<1> QED
  BY <1>1, <1>2, <1>3

LEMMA SDRPPReply ==
    ASSUME NEW n \in Nat, NEW kind \in Kinds, NEW texts \in Answers(kind)
    PROVE  /\ Reply(n, texts) \in Seq(Unit)
           /\ Len(Reply(n, texts)) \in Nat \ {0}
           /\ Len(texts) = 1 => Reply(n, texts) = <<Said(n, texts[1]), Said(n, Newline)>>
           /\ Len(texts) # 1 => Reply(n, texts) = <<Said(n, texts[1]), Said(n, Newline),
                                                    Said(n, texts[2]), Said(n, Newline)>>
<1>1. Len(texts) \in {1, 2} /\ DOMAIN texts = 1 .. Len(texts)
      /\ \A i \in DOMAIN texts : texts[i] \in Texts
  BY SDRPPAnswers
<1>2. \A i \in DOMAIN texts : Said(n, texts[i]) \in Unit
  BY <1>1 DEF Said, Unit
<1>3. Said(n, Newline) \in Unit
  BY DEF Said, Unit
<1>4. CASE Len(texts) = 1
  <2>1. Said(n, texts[1]) \in Unit
    BY <1>1, <1>2, <1>4
  <2> QED
    BY <1>3, <1>4, <2>1 DEF Reply
<1>5. CASE Len(texts) = 2
  <2>1. Said(n, texts[1]) \in Unit /\ Said(n, texts[2]) \in Unit
    BY <1>1, <1>2, <1>5
  <2> QED
    BY <1>3, <1>5, <2>1 DEF Reply
<1> QED
  BY <1>1, <1>4, <1>5

LEMMA InitSDRPP == SDRPPInit => SDRPPProofInv
<1> SUFFICES ASSUME SDRPPInit PROVE SDRPPProofInv
  OBVIOUS
<1>0. command.n \in Nat /\ command \in Command
  BY DEF SDRPPInit, Command
<1>1. SDRPPTypeOK
  <2>1. <<>> \in Seq(Unit) /\ <<>> \in Seq(Seq(Unit))
    OBVIOUS
  <2> QED
    BY <1>0, <2>1 DEF SDRPPInit, SDRPPTypeOK, NoAnswer
<1>2. StreamInv /\ TrueAnswer
  BY DEF SDRPPInit, StreamInv, Quiet, TrueAnswer, NoAnswer
<1> QED
  BY <1>1, <1>2 DEF SDRPPProofInv

LEMMA SDRPPType == SDRPPTypeOK /\ StreamInv /\ [SDRPPNext]_sdrppVars => SDRPPTypeOK'
<1> SUFFICES ASSUME SDRPPTypeOK, StreamInv, [SDRPPNext]_sdrppVars PROVE SDRPPTypeOK'
  OBVIOUS
<1> USE DEF clientVars, serverVars
<1>0. /\ buffer \in Seq(Unit) /\ received \in Seq(Unit)
      /\ buffers \in Seq(Seq(Unit)) /\ replies \in Seq(Seq(Unit)) /\ command.n \in Nat
  BY DEF SDRPPTypeOK, Command
<1>00. <<>> \in Seq(Unit) /\ <<>> \in Seq(Seq(Unit))
       /\ NoAnswer \in [success : BOOLEAN, lines : Seq(Seq(Unit))]
  BY DEF NoAnswer
<1>1. CASE UNCHANGED sdrppVars \/ (UNCHANGED whole /\ (sdrpp_connect \/ Disconnect
           \/ ServerCloses))
  BY <1>1, <1>00 DEF sdrppVars, sdrpp_connect, Disconnect, ServerCloses, Closed,
     SDRPPTypeOK
<1>2. ASSUME NEW kind \in Kinds, NewCommand(kind) PROVE command' \in Command
  <2>1. command.n + 1 \in Nat
    BY <1>0
  <2> QED
    BY <1>2, <2>1 DEF NewCommand, Command
<1>3. ASSUME NEW kind \in Kinds, SendCommand(kind), UNCHANGED whole PROVE SDRPPTypeOK'
  <2>1. command' \in Command /\ command'.n \in Nat
    BY <1>2, <1>3 DEF SendCommand, Command
  <2>2. \A texts \in Answers(kind) : Reply(command'.n, texts) \in Seq(Unit)
    BY <2>1, SDRPPReply
  <2>3. replies' \in Seq(Seq(Unit))
    <3>1. \A texts \in Answers(kind) : Append(replies, Reply(command'.n, texts)) \in Seq(Seq(Unit))
      BY <1>0, <2>2, AppendProperties
    <3> QED
      BY <1>0, <1>3, <3>1 DEF SendCommand
  <2> QED
    BY <1>00, <1>3, <2>1, <2>3 DEF SendCommand, SDRPPTypeOK
<1>4. ASSUME NEW kind \in Kinds, SendFails(kind), UNCHANGED whole PROVE SDRPPTypeOK'
  BY <1>00, <1>2, <1>4 DEF SendFails, Closed, SDRPPTypeOK
<1>5. CASE ReadFirst /\ UNCHANGED whole
  <2>1. Head(received) \in Unit /\ Tail(received) \in Seq(Unit)
    BY <1>0, <1>5 DEF ReadFirst
  <2>2. <<Head(received)>> \in Seq(Unit)
    BY <2>1
  <2> QED
    BY <1>5, <2>1, <2>2 DEF ReadFirst, SDRPPTypeOK
<1>6. CASE ReadMore /\ UNCHANGED whole
  <2>1. Head(received) \in Unit /\ Tail(received) \in Seq(Unit)
    BY <1>0, <1>6 DEF ReadMore
  <2>2. Append(buffers, buffer) \in Seq(Seq(Unit))
        /\ Append(buffer, Head(received)) \in Seq(Unit)
    BY <1>0, <2>1
  <2> QED
    BY <1>00, <1>6, <2>1, <2>2 DEF ReadMore, SDRPPTypeOK
<1>7. ASSUME ReturnResult, reader_pc # "idle"
             PROVE answer' \in [success : BOOLEAN, lines : Seq(Seq(Unit))]
  <2>1. Succeeds \in BOOLEAN
    BY <1>7 DEF Succeeds, StreamInv, Kinds
  <2> QED
    BY <1>0, <1>00, <1>7, <2>1 DEF ReturnResult
<1>8. CASE ReadNothing /\ UNCHANGED whole
  BY <1>00, <1>7, <1>8 DEF ReadNothing, ReturnResult, SDRPPTypeOK
<1>9. CASE ReadResultFails /\ UNCHANGED whole
  BY <1>00, <1>7, <1>9 DEF ReadResultFails, ReturnResult, Closed, SDRPPTypeOK
<1>10. CASE Arrive /\ UNCHANGED whole
  <2>1. PICK k \in 1 .. Len(Head(replies)) :
          /\ received' = received \o SubSeq(Head(replies), 1, k)
          /\ replies' = IF k = Len(Head(replies))
                        THEN Tail(replies)
                        ELSE <<SubSeq(Head(replies), k + 1, Len(Head(replies)))>> \o Tail(replies)
    BY <1>10 DEF Arrive
  <2>2. Head(replies) \in Seq(Unit) /\ Tail(replies) \in Seq(Seq(Unit))
    BY <1>0, <1>10 DEF Arrive
  <2>3. k \in Nat /\ 1 <= k /\ k <= Len(Head(replies))
    BY <2>2
  <2>4. SubSeq(Head(replies), 1, k) \in Seq(Unit)
        /\ SubSeq(Head(replies), k + 1, Len(Head(replies))) \in Seq(Unit)
    BY <2>2, <2>3, SubSeqProperties
  <2>5. received' \in Seq(Unit)
    BY <1>0, <2>1, <2>4
  <2>6. replies' \in Seq(Seq(Unit))
    <3> DEFINE rest == SubSeq(Head(replies), k + 1, Len(Head(replies)))
    <3>1. rest \in Seq(Unit)
      BY <2>4
    <3> HIDE DEF rest
    <3>2. <<rest>> \o Tail(replies) \in Seq(Seq(Unit))
      BY <2>2, <3>1
    <3> QED
      BY <2>1, <2>2, <3>2 DEF rest
  <2> QED
    BY <1>10, <2>5, <2>6 DEF Arrive, SDRPPTypeOK
<1> QED
  BY <1>1, <1>3, <1>4, <1>5, <1>6, <1>8, <1>9, <1>10 DEF SDRPPNext, ReaderStep

LEMMA SDRPPStream == SDRPPTypeOK /\ StreamInv /\ TrueAnswer /\ [SDRPPNext]_sdrppVars
  => StreamInv' /\ TrueAnswer'
<1> SUFFICES ASSUME SDRPPTypeOK, StreamInv, TrueAnswer, [SDRPPNext]_sdrppVars
    PROVE StreamInv' /\ TrueAnswer'
  OBVIOUS
<1> USE DEF clientVars, serverVars
<1>0. command.n \in Nat
  BY DEF SDRPPTypeOK, Command
<1>1. CASE UNCHANGED sdrppVars \/ (UNCHANGED whole /\ (sdrpp_connect \/ Disconnect
           \/ ServerCloses))
  BY <1>1 DEF sdrppVars, sdrpp_connect, Disconnect, ServerCloses, Closed, StreamInv,
     TrueAnswer,
     Quiet, NothingRead, PartlyRead, PartRead, OneLine, TwoLines, Word, End
<1>2. ASSUME NEW kind \in Kinds, SendCommand(kind), UNCHANGED whole PROVE StreamInv'
             /\ TrueAnswer'
  <2>1. reader_pc' = "first" /\ command'.kind = kind /\ reader_pc = "idle"
        /\ buffer' = <<>> /\ buffers' = <<>>
        /\ received' = received /\ whole' = whole
    BY <1>2 DEF SendCommand, NewCommand
  <2>2. CASE whole
    <3>1. Quiet
      BY <2>1, <2>2 DEF StreamInv
    <3>2. replies' = <<>>
          \/ \E texts \in Answers(kind) : replies' = <<Reply(command'.n, texts)>>
      BY <1>2, <3>1 DEF SendCommand, Quiet
    <3>3. NothingRead'
      BY <2>1, <3>1, <3>2 DEF NothingRead, Quiet
    <3> QED
      BY <2>1, <3>3 DEF StreamInv, TrueAnswer
  <2> QED
    BY <2>1, <2>2 DEF StreamInv, TrueAnswer
<1>3. ASSUME NEW kind \in Kinds, SendFails(kind), UNCHANGED whole PROVE StreamInv'
             /\ TrueAnswer'
  BY <1>3 DEF SendFails, NewCommand, Closed, StreamInv, TrueAnswer, Quiet, NoAnswer
<1>4. CASE ReadFirst /\ UNCHANGED whole
  <2>1. reader_pc = "first" /\ reader_pc' = "more" /\ whole' = whole
        /\ command' = command /\ received # <<>>
        /\ buffer' = <<Head(received)>> /\ buffers' = buffers
           /\ received' = Tail(received) /\ replies' = replies
    BY <1>4 DEF ReadFirst
  <2>2. ASSUME whole PROVE PartlyRead'
    <3>1. PICK texts \in Answers(command.kind) :
             buffers = <<>> /\ replies = <<>> /\ received = Reply(command.n, texts)
      BY <2>1, <2>2 DEF StreamInv, NothingRead
    <3>2. command.kind \in Kinds
      BY <2>1 DEF StreamInv
    <3>4. Word(texts, 1)' = Word(texts, 1) /\ Word(texts, 2)' = Word(texts, 2)
          /\ End' = End
      BY <2>1 DEF Word, End
    <3>3. PartRead(texts)'
      <4>1. CASE Len(texts) = 1
        <5>1. received = <<Word(texts, 1), End>>
          BY <1>0, <3>1, <3>2, <4>1, SDRPPReply DEF Word, End
        <5>2. buffer' = <<Word(texts, 1)>> /\ received' = <<End>> /\ buffers' = <<>>
          BY <2>1, <3>1, <5>1
        <5> QED
          BY <3>4, <4>1, <5>2 DEF PartRead, OneLine
      <4>2. CASE Len(texts) # 1
        <5>1. received = <<Word(texts, 1), End, Word(texts, 2), End>>
          BY <1>0, <3>1, <3>2, <4>2, SDRPPReply DEF Word, End
        <5>2. buffer' = <<Word(texts, 1)>> /\ received' = <<End, Word(texts, 2), End>>
              /\ buffers' = <<>>
          BY <2>1, <3>1, <5>1
        <5> QED
          BY <3>4, <4>2, <5>2 DEF PartRead, TwoLines
      <4> QED
        BY <4>1, <4>2
    <3> QED
      BY <2>1, <3>1, <3>3 DEF PartlyRead
  <2> QED
    BY <2>1, <2>2 DEF StreamInv, TrueAnswer
<1>5. CASE ReadMore /\ UNCHANGED whole
  <2>1. reader_pc = "more" /\ reader_pc' = "more" /\ whole' = whole
        /\ command' = command /\ received # <<>>
        /\ received' = Tail(received) /\ replies' = replies
        /\ IF Head(received).text = Newline
           THEN buffers' = Append(buffers, buffer) /\ buffer' = <<>>
           ELSE buffer' = Append(buffer, Head(received)) /\ UNCHANGED buffers
    BY <1>5 DEF ReadMore
  <2>2. ASSUME whole PROVE PartlyRead'
    <3>1. PICK texts \in Answers(command.kind) : replies = <<>> /\ PartRead(texts)
      BY <2>1, <2>2 DEF StreamInv, PartlyRead
    <3>2. command.kind \in Kinds
      BY <2>1 DEF StreamInv
    <3>3. Word(texts, 1).text # Newline /\ End.text = Newline
          /\ (Len(texts) # 1 => Word(texts, 2).text # Newline)
      BY <3>2, SDRPPAnswers DEF Word, End, Said
    <3>4. End' = End /\ Word(texts, 1)' = Word(texts, 1)
          /\ Word(texts, 2)' = Word(texts, 2)
      BY <2>1 DEF End, Word
    <3> DEFINE a == Word(texts, 1)
               b == Word(texts, 2)
    <3>5. CASE Len(texts) = 1
      <4>1. OneLine(a, End)
        BY <3>1, <3>5 DEF PartRead
      <4>2. buffer' = <<>> /\ buffers' = << <<a>> >> /\ received' = <<>>
        BY <2>1, <3>3, <4>1 DEF OneLine
      <4> QED
        BY <2>1, <3>1, <3>4, <3>5, <4>2 DEF PartlyRead, PartRead, OneLine
    <3>6. CASE Len(texts) # 1
      <4>1. TwoLines(a, b, End)
        BY <3>1, <3>6 DEF PartRead
      <4> HIDE DEF a, b
      <4>2. a.text # Newline /\ b.text # Newline
        BY <3>3, <3>6 DEF a, b
      <4>3. TwoLines(a, b, End)'
        <5>0. a' = a /\ b' = b /\ End' = End
          BY <3>4 DEF a, b
        <5>1. CASE buffer = <<a>> /\ buffers = <<>> /\ received = <<End, b, End>>
          <6>1. Head(received) = End /\ Tail(received) = <<b, End>>
                /\ Append(buffers, buffer) = << <<a>> >>
            BY <5>1
          <6> QED
            BY <2>1, <3>3, <5>0, <6>1 DEF TwoLines
        <5>2. CASE buffer = <<>> /\ buffers = << <<a>> >> /\ received = <<b, End>>
          <6>1. Head(received) = b /\ Tail(received) = <<End>>
                /\ Append(buffer, b) = <<b>>
            BY <5>2
          <6> QED
            BY <2>1, <4>2, <5>0, <5>2, <6>1 DEF TwoLines
        <5>3. CASE buffer = <<b>> /\ buffers = << <<a>> >> /\ received = <<End>>
          <6>1. Head(received) = End /\ Tail(received) = <<>>
            BY <5>3
          <6>2. Append(buffers, buffer) = << <<a>>, <<b>> >>
            BY <5>3, AppendTwo
          <6> QED
            BY <2>1, <3>3, <5>0, <6>1, <6>2 DEF TwoLines
        <5> QED
          BY <2>1, <4>1, <5>1, <5>2, <5>3 DEF TwoLines
      <4> QED
        BY <2>1, <3>1, <3>4, <3>6, <4>3 DEF PartlyRead, PartRead, a, b
    <3> QED
      BY <3>5, <3>6
  <2> QED
    BY <2>1, <2>2 DEF StreamInv, TrueAnswer
<1>6. ASSUME reader_pc = "more", ReturnResult, UNCHANGED whole PROVE TrueAnswer'
  <2>1. CASE whole /\ Succeeds
    <3>1. PICK texts \in Answers(command.kind) : PartRead(texts)
      BY <1>6, <2>1 DEF StreamInv, PartlyRead
    <3>2. command.kind \in Kinds
      BY <1>6 DEF StreamInv
    <3>6. /\ Double(command.kind) => Len(buffers) = 2
          /\ ~Double(command.kind) => Len(buffers) = 1
      BY <2>1, <3>2 DEF Succeeds, Kinds, Double
    <3>7. /\ ~Double(command.kind) => Len(texts) = 1
          /\ Len(texts) \in {1, 2} /\ DOMAIN texts = 1 .. Len(texts)
      BY <3>1, <3>2, SDRPPAnswers
    <3>8. ASSUME Len(texts) = 1 PROVE Len(buffers) # 2
      BY <3>1, <3>8 DEF PartRead, OneLine
    <3>3. Len(buffers) = Len(texts) /\ Len(texts) \in {1, 2}
          /\ DOMAIN texts = 1 .. Len(texts)
      BY <3>6, <3>7, <3>8
    <3>4. \A i \in DOMAIN texts : buffers[i] = <<[n |-> command.n, text |-> texts[i]]>>
      <4>1. CASE Len(texts) = 1
        <5> DEFINE a == Word(texts, 1)
        <5>1. OneLine(a, End)
          BY <3>1, <4>1 DEF PartRead
        <5>2. Len(buffers) = 1
          BY <3>3, <4>1
        <5> HIDE DEF a
        <5>3. buffers = << <<a>> >>
          BY <5>1, <5>2 DEF OneLine
        <5>4. \A i \in DOMAIN texts : i = 1
          BY <3>3, <4>1
        <5> QED
          BY <5>3, <5>4 DEF a, Word, Said
      <4>2. CASE Len(texts) = 2
        <5> DEFINE a == Word(texts, 1)
                   b == Word(texts, 2)
        <5>1. TwoLines(a, b, End)
          BY <3>1, <4>2 DEF PartRead
        <5> HIDE DEF a, b
        <5>2. buffers = << <<a>>, <<b>> >>
          <6>1. Len(buffers) = 2
            BY <3>3, <4>2
          <6>2. \/ buffers = <<>> \/ buffers = << <<a>> >> \/ buffers = << <<a>>, <<b>> >>
            BY <5>1 DEF TwoLines
          <6>3. (buffers = <<>> => Len(buffers) = 0) /\ (buffers = << <<a>> >>
                => Len(buffers) = 1)
            OBVIOUS
          <6> QED
            BY <6>1, <6>2, <6>3
        <5>3. buffers[1] = <<a>> /\ buffers[2] = <<b>>
          BY <5>2, TwoTexts
        <5> QED
          BY <3>3, <4>2, <5>3 DEF a, b, Word, Said
      <4> QED
        BY <3>3, <4>1, <4>2
    <3>5. answer'.lines = buffers /\ command' = command
      BY <1>6, <2>1 DEF ReturnResult
    <3> QED
      BY <3>1, <3>3, <3>4, <3>5 DEF TrueAnswer
  <2>2. CASE ~(whole /\ Succeeds)
    BY <1>6, <2>2 DEF ReturnResult, TrueAnswer
  <2> QED
    BY <2>1, <2>2
<1>7. CASE ReadNothing /\ UNCHANGED whole
  BY <1>6, <1>7 DEF ReadNothing, ReturnResult, StreamInv, Quiet, PartlyRead
<1>8. CASE ReadResultFails /\ UNCHANGED whole
  <2>1. StreamInv'
    BY <1>8 DEF ReadResultFails, ReturnResult, Closed, StreamInv, Quiet
  <2>2. TrueAnswer'
    BY <1>6, <1>8 DEF ReadResultFails, TrueAnswer, NoAnswer
  <2> QED
    BY <2>1, <2>2
<1>9. CASE Arrive /\ UNCHANGED whole
  <2>0. replies # <<>>
        /\ UNCHANGED <<reader_pc, open, command, buffer, buffers, answer, whole>>
    BY <1>9 DEF Arrive
  <2>1. ASSUME whole PROVE reader_pc = "first" /\ NothingRead'
    <3>1. reader_pc = "first"
      BY <2>0, <2>1 DEF StreamInv, Quiet, PartlyRead, SDRPPTypeOK
    <3>2. PICK texts \in Answers(command.kind) :
            replies = <<Reply(command.n, texts)>> /\ received = <<>> /\ buffer = <<>>
              /\ buffers = <<>>
      BY <2>0, <2>1, <3>1 DEF StreamInv, NothingRead
    <3> DEFINE r == Reply(command.n, texts)
    <3>3. r \in Seq(Unit) /\ Len(r) \in Nat \ {0}
      BY <1>0, <3>1, SDRPPReply DEF StreamInv
    <3> HIDE DEF r
    <3>4. Head(replies) = r /\ Tail(replies) = <<>>
      BY <3>2 DEF r
    <3>5. received' = received \o SubSeq(r, 1, Len(r)) /\ replies' = <<>>
      BY <1>9, <2>1, <3>4 DEF Arrive
    <3>6. SubSeq(r, 1, Len(r)) = r
      BY <3>3
    <3>7. received' = r
      BY <3>2, <3>3, <3>5, <3>6
    <3> QED
      BY <2>0, <3>1, <3>2, <3>5, <3>7 DEF NothingRead, r
  <2> QED
    BY <2>0, <2>1 DEF StreamInv, TrueAnswer
<1> QED
  BY <1>1, <1>2, <1>3, <1>4, <1>5, <1>7, <1>8, <1>9 DEF SDRPPNext, ReaderStep

LEMMA SDRPPProofInvHolds == SDRPPSpec => []SDRPPProofInv
<1>1. SDRPPProofInv /\ [SDRPPNext]_sdrppVars => SDRPPProofInv'
  BY SDRPPType, SDRPPStream DEF SDRPPProofInv
<1> QED
  BY <1>1, InitSDRPP, PTL DEF SDRPPSpec

(* The types; and, when replies come as a whole, an open connection between*)
(* two calls has no reply left over (SDR++/main.cpp:274-312).             *)
THEOREM SDRPPInvHolds == SDRPPSpec => []SDRPPInv
<1>1. SDRPPProofInv => SDRPPInv
  BY DEF SDRPPProofInv, StreamInv, Quiet, SDRPPInv, InStep
<1> QED
  BY <1>1, SDRPPProofInvHolds, PTL

(* When replies come as a whole, a call that succeeds hands out the lines *)
(* of its own reply, all of them, for any number of commands and wherever *)
(* the connection breaks (SDR++/main.cpp:297-306, SDR++.lua:58).          *)
THEOREM TrueAnswerThm == SDRPPSpec => []TrueAnswer
  BY SDRPPProofInvHolds, PTL DEF SDRPPProofInv

-----------------------------------------------------------------------------
(* Socket: what is held anywhere between the two sides is a stretch of the *)
(* stream of bytes. The invariant says so by positions; the sequences of   *)
(* NothingLost follow from it.                                             *)

Holds(bytes, from, size, place) == \A i \in 1 .. size : bytes[from + i] = StreamByte(place + i)

Got     == IF Receiving THEN call.done ELSE fresh.write   \* bytes in fresh
Gone    == IF Sending THEN call.done ELSE 0               \* bytes of outbox that were sent
Taken   == Length(Len(values))
Waiting == inbox.write - inbox.read

(* The sizes of the buffers and the bounds.                                *)
Sizes ==
    /\ inbox.endian = Endian /\ Len(inbox.bytes) = Capacity /\ inbox.read <= inbox.write
    /\ outbox.endian = Endian /\ Len(outbox.bytes) = Capacity
    /\ Len(fresh.bytes) <= Capacity /\ fresh.write <= Len(fresh.bytes)
    /\ written <= MaxFields /\ produced <= MaxFields

(* How far a call can be.                                                  *)
UnderWay ==
    /\ Receiving => fresh # nullptr /\ call.done < Len(fresh.bytes) /\ fresh.write = 0
    /\ Receiving => "receiving" \notin givenUp
    /\ Sending => call.done < outbox.write /\ "sending" \notin givenUp
    /\ call.op \in {"Send", "Receive"} => call.done = 0
    /\ ~IsConnected => call.done = 0 /\ fresh.write = 0 /\ ~Sending

(* A socket not yet opened has done nothing; one for datagrams leaves      *)
(* inbox, values and stream alone.                                         *)
Unused ==
    /\ socket = NoSocket =>
         /\ call = Idle /\ fresh = nullptr /\ ~lost /\ givenUp = {}
         /\ outbox.write = 0 /\ written = 0 /\ produced = 0
    /\ socket = NoSocket \/ Is("UDP") =>
         inbox.read = inbox.write /\ values = <<>> /\ wire = <<>> /\ arrived = <<>>

(* The bytes on their way to the script.                                   *)
InStream ==
    /\ \A i \in 1 .. Len(values) : values[i] = i
    /\ Holds(inbox.bytes, inbox.read, Waiting, Taken)
    /\ Holds(fresh.bytes, 0, Got, Taken + Waiting)
    /\ Holds(wire, 0, Len(wire), Taken + Waiting + Got)
    /\ IF OverIn
       THEN Taken + Waiting + Got + Len(wire) <= Length(produced)
       ELSE Taken + Waiting + Got + Len(wire) = Length(produced)

(* The bytes on their way from it.                                         *)
OutStream ==
    /\ Holds(arrived, 0, Len(arrived), 0)
    /\ Len(arrived) <= Length(written)
    /\ ~OverOut =>
         /\ Len(arrived) + (outbox.write - Gone) = Length(written)
         /\ Holds(outbox.bytes, Gone, outbox.write - Gone, Len(arrived))

StreamsInv == Is("TCP") => InStream /\ OutStream
SocketProofInv == SocketInv /\ Sizes /\ UnderWay /\ Unused /\ StreamsInv

-----------------------------------------------------------------------------
(* The operations of ByteBuffer, and the stream of fields.                 *)

(* Field n adds its width to the stream.                                   *)
LEMMA LengthGrows ==
    ASSUME NEW n \in Nat
    PROVE  Length(n) \in Nat /\ Length(n + 1) = Length(n) + Width(n + 1) /\ Length(0) = 0
  BY DEF Length, Width

(* The bytes of a field are where the stream has them.                     *)
LEMMA StreamByteIs ==
    ASSUME NEW n \in Nat, NEW i \in 1 .. Width(n + 1)
    PROVE  StreamByte(Length(n) + i) = Encode(n + 1, Width(n + 1), PeerEndian)[i]
<1>1. PICK p \in Nat : n = 2 * p \/ n = 2 * p + 1
  <2>1. n \div 2 \in Nat /\ (n = 2 * (n \div 2) \/ n = 2 * (n \div 2) + 1)
    OBVIOUS
  <2> QED
    BY <2>1
<1>2. CASE n = 2 * p
  <2>1. Width(n + 1) = 1 /\ i = 1 /\ Length(n) = 3 * p
    BY <1>2 DEF Width, Length
  <2>2. (3 * p + 1) % 3 = 1 /\ (3 * p + 1 - 1) \div 3 = p
    OBVIOUS
  <2> QED
    BY <1>2, <2>1, <2>2 DEF StreamByte
<1>3. CASE n = 2 * p + 1
  <2>1. Width(n + 1) = 2 /\ i \in {1, 2} /\ Length(n) = 3 * p + 1
    BY <1>3 DEF Width, Length
  <2>2. (3 * p + 2) % 3 = 2 /\ (3 * p + 2 - 1) \div 3 = p /\ (3 * p + 3) % 3 = 0
        /\ (3 * p + 3 - 1) \div 3 = p
    OBVIOUS
  <2>3. n + 1 = 2 * p + 2
    BY <1>3
  <2>4. Length(n) + i = IF i = 1 THEN 3 * p + 2 ELSE 3 * p + 3
    BY <2>1
  <2> QED
    BY <2>1, <2>2, <2>3, <2>4 DEF StreamByte
<1> QED
  BY <1>1, <1>2, <1>3

(* A value is encoded in as many bytes as it is wide, all of that value.   *)
LEMMA EncodeIs ==
    ASSUME NEW v \in Nat, NEW w \in {1, 2}, NEW e, v <= MaxFields, MaxFields \in Nat
    PROVE  /\ DOMAIN Encode(v, w, e) = 1 .. w
           /\ Encode(v, w, e) \in Seq(Bytes)
           /\ Len(Encode(v, w, e)) = w
           /\ \A i \in 1 .. w : Encode(v, w, e)[i].value = v
<1> DEFINE big == ByteOrder(e) = "Big"
           f == Encode(v, w, e)
           part(i) == IF big THEN i ELSE w + 1 - i
<1>1. f = [i \in 1 .. w |-> [value |-> v, part |-> part(i)]]
  BY DEF Encode
<1> HIDE DEF big, f
<1>2. \A i \in 1 .. w : part(i) \in 0 .. 2
  OBVIOUS
<1> HIDE DEF part
<1>3. v \in 0 .. MaxFields
  OBVIOUS
<1>4. \A i \in 1 .. w : f[i] \in Bytes /\ f[i].value = v
  BY <1>1, <1>2, <1>3 DEF Bytes
<1>5. f \in [1 .. w -> Bytes] /\ w \in Nat
  BY <1>1, <1>4
<1>6. f \in Seq(Bytes) /\ Len(f) = w
  BY <1>5
<1> QED
  BY <1>4, <1>5, <1>6 DEF f

(* What is written by address replaces the bytes there and nothing else.   *)
LEMMA PutIs ==
    ASSUME NEW b \in Buffer, NEW off \in Nat, NEW bs \in Seq(Bytes), NEW c,
           c = Put(b, off, bs)
    PROVE  /\ c \in Buffer
           /\ c.endian = b.endian /\ c.read = b.read /\ c.write = b.write
           /\ Len(c.bytes) = Len(b.bytes)
           /\ \A i \in 1 .. Len(b.bytes) :
                c.bytes[i] = IF off < i /\ i <= off + Len(bs)
                             THEN bs[i - off] ELSE b.bytes[i]
<1> DEFINE n == Len(b.bytes)
           f == [i \in 1 .. n |-> IF i \in off + 1 .. off + Len(bs) THEN bs[i - off] ELSE b.bytes[i]]
<1>1. b.bytes \in Seq(Bytes) /\ n \in Nat /\ DOMAIN b.bytes = 1 .. n
  BY DEF Buffer
<1>2. c = [b EXCEPT !.bytes = f]
  BY <1>1 DEF Put
<1> HIDE DEF n
<1>3. /\ Len(bs) \in Nat
      /\ \A i \in 1 .. n :
           (i \in off + 1 .. off + Len(bs)) <=> (off < i /\ i <= off + Len(bs))
  BY <1>1
<1>4. \A i \in 1 .. n : b.bytes[i] \in Bytes
  BY <1>1 DEF n
<1>5. \A i \in off + 1 .. off + Len(bs) : bs[i - off] \in Bytes
  <2>1. \A j \in 1 .. Len(bs) : bs[j] \in Bytes
    OBVIOUS
  <2>2. \A i \in off + 1 .. off + Len(bs) : i - off \in 1 .. Len(bs)
    BY <1>3
  <2> QED
    BY <2>1, <2>2
<1>6. f \in [1 .. n -> Bytes]
  BY <1>4, <1>5
<1>7. f \in Seq(Bytes) /\ Len(f) = n
  BY <1>1, <1>6
<1>8. \A i \in 1 .. n : f[i] = IF off < i /\ i <= off + Len(bs)
                               THEN bs[i - off] ELSE b.bytes[i]
  BY <1>3
<1> HIDE DEF f
<1>9. c \in Buffer /\ c.endian = b.endian /\ c.read = b.read /\ c.write = b.write
      /\ c.bytes = f
  BY <1>2, <1>7 DEF Buffer
<1> QED
  BY <1>7, <1>8, <1>9 DEF n

(* The offsets and the memory are set apart from each other.               *)
LEMMA ReadOffsetSet ==
    ASSUME NEW b \in Buffer, NEW k \in 0 .. Capacity, NEW c,
           c = byte_buffer_set_read_offset(b, k)
    PROVE  /\ c \in Buffer
           /\ c.bytes = b.bytes /\ c.endian = b.endian /\ c.read = k /\ c.write = b.write
  BY DEF Buffer, byte_buffer_set_read_offset

LEMMA WriteOffsetSet ==
    ASSUME NEW b \in Buffer, NEW k \in 0 .. Capacity, NEW c,
           c = byte_buffer_set_write_offset(b, k)
    PROVE  /\ c \in Buffer
           /\ c.bytes = b.bytes /\ c.endian = b.endian /\ c.read = b.read /\ c.write = k
  BY DEF Buffer, byte_buffer_set_write_offset

(* A new buffer has the size asked for and nothing in it.                  *)
LEMMA AllocatedIs ==
    ASSUME NEW e \in Endians, NEW n \in Nat, Capacity \in Nat, MaxFields \in Nat
    PROVE  LET b == byte_buffer_allocate(e, n)
           IN  b \in Buffer /\ b.endian = e /\ b.read = 0 /\ b.write = 0
             /\ Len(b.bytes) = n
<1> DEFINE f == [i \in 1 .. n |-> Blank]
<1>1. Blank \in Bytes
  BY DEF Blank, Bytes
<1>2. f \in Seq(Bytes) /\ Len(f) = n
  BY <1>1
<1>3. 0 \in 0 .. Capacity
  OBVIOUS
<1>4. byte_buffer_allocate(e, n) = [endian |-> e, bytes |-> f, read |-> 0, write |-> 0]
  BY DEF byte_buffer_allocate
<1> HIDE DEF f
<1> QED
  BY <1>2, <1>3, <1>4 DEF Buffer

Bounded(b) == Len(b.bytes) \in Nat /\ Capacity \in Nat /\ Len(b.bytes) <= Capacity

(* Appending leaves what was written before and advances the offset.       *)
LEMMA AppendedIs ==
    ASSUME NEW b \in Buffer, NEW bs \in Seq(Bytes), Fits(b, Len(bs)),
           Bounded(b), NEW c, c = Appended(b, bs)
    PROVE  /\ c \in Buffer
           /\ c.endian = b.endian /\ c.read = b.read /\ c.write = b.write + Len(bs)
           /\ Len(c.bytes) = Len(b.bytes) /\ c.write <= Len(c.bytes)
           /\ \A i \in 1 .. b.write : c.bytes[i] = b.bytes[i]
           /\ \A i \in 1 .. Len(bs) : c.bytes[b.write + i] = bs[i]
<1> DEFINE d == Put(b, b.write, bs)
<1>9. b.write \in Nat
  BY DEF Buffer
<1>1. b.write \in Nat /\ Len(bs) \in Nat
  BY <1>9
<1>0. d = Put(b, b.write, bs)
  OBVIOUS
<1> HIDE DEF d
<1>2. d \in Buffer /\ d.endian = b.endian /\ d.read = b.read
      /\ Len(d.bytes) = Len(b.bytes)
  BY <1>0, <1>9, PutIs
<1>10. \A i \in 1 .. Len(b.bytes) :
          d.bytes[i] = IF b.write < i /\ i <= b.write + Len(bs)
                       THEN bs[i - b.write] ELSE b.bytes[i]
  BY <1>0, <1>9, PutIs
<1> DEFINE k == b.write + Len(bs)
<1>8. Len(b.bytes) \in Nat /\ Capacity \in Nat /\ Len(b.bytes) <= Capacity
      /\ k <= Len(b.bytes)
  BY DEF Fits, byte_buffer_get_capacity, Bounded
<1>3. c = byte_buffer_set_write_offset(d, k)
  BY <1>0 DEF Appended
<1>4. k \in 0 .. Capacity
  BY <1>1, <1>8
<1> HIDE DEF k
<1>5. c \in Buffer /\ c.bytes = d.bytes /\ c.write = k /\ c.read = d.read
      /\ c.endian = d.endian
  BY <1>2, <1>3, <1>4, WriteOffsetSet
<1>6. ASSUME NEW i \in 1 .. b.write PROVE c.bytes[i] = b.bytes[i]
  BY <1>1, <1>2, <1>5, <1>8, <1>10 DEF k
<1>7. ASSUME NEW i \in 1 .. Len(bs) PROVE c.bytes[b.write + i] = bs[i]
  <2>1. b.write + i \in 1 .. Len(b.bytes) /\ b.write < b.write + i
        /\ b.write + i <= b.write + Len(bs)
        /\ (b.write + i) - b.write = i
    BY <1>1, <1>8 DEF k
  <2> QED
    BY <1>2, <1>5, <1>10, <2>1
<1> QED
  BY <1>1, <1>2, <1>5, <1>6, <1>7, <1>8 DEF k

(* What lies behind the read offset.                                       *)
LEMMA AheadIs ==
    ASSUME NEW b \in Buffer, NEW size \in Nat, b.read + size <= Len(b.bytes), NEW s,
           s = Ahead(b, size)
    PROVE  /\ s \in Seq(Bytes) /\ Len(s) = size
           /\ \A i \in 1 .. size : s[i] = b.bytes[b.read + i]
<1>1. b.read \in Nat /\ b.bytes \in Seq(Bytes) /\ Len(b.bytes) \in Nat
  BY DEF Buffer
<1>2. \A i \in b.read + 1 .. b.read + size : b.bytes[i] \in Bytes
  BY <1>1
<1>3. b.read + 1 \in Int /\ b.read + size \in Int
  BY <1>1
<1>4. s = SubSeq(b.bytes, b.read + 1, b.read + size)
  BY DEF Ahead
<1>5. /\ s \in Seq(Bytes)
      /\ Len(s) = IF b.read + 1 <= b.read + size THEN (b.read + size) - (b.read + 1) + 1 ELSE 0
      /\ \A i \in 1 .. (b.read + size) - (b.read + 1) + 1 : s[i] = b.bytes[(b.read + 1) + i - 1]
  BY <1>2, <1>3, <1>4, SubSeqProperties
<1>6. Len(s) = size
  BY <1>1, <1>5
<1>7. ASSUME NEW i \in 1 .. size PROVE s[i] = b.bytes[b.read + i]
  <2>1. i \in 1 .. (b.read + size) - (b.read + 1) + 1 /\ (b.read + 1) + i - 1 = b.read + i
    BY <1>1
  <2> QED
    BY <1>5, <2>1
<1> QED
  BY <1>5, <1>6, <1>7

(* The offsets and the size of a buffer.                                   *)
LEMMA BufferIs ==
    ASSUME NEW b \in Buffer
    PROVE  /\ b.read \in Nat /\ b.write \in Nat /\ b.write <= Capacity
           /\ b.bytes \in Seq(Bytes) /\ Len(b.bytes) \in Nat
<1>1. b.read \in 0 .. Capacity /\ b.write \in 0 .. Capacity /\ b.bytes \in Seq(Bytes)
  BY DEF Buffer
<1> QED
  BY <1>1, SocketAssumption

(* The script's own buffers, and those a receive allocates.                *)
LEMMA ScriptIs ==
    /\ Script \in Buffer
    /\ Script.endian = Endian /\ Script.read = 0 /\ Script.write = 0
    /\ Len(Script.bytes) = Capacity
<1>1. Endian \in Endians /\ Capacity \in Nat /\ MaxFields \in Nat
  BY SocketAssumption
<1> QED
  BY <1>1, AllocatedIs DEF Script

LEMMA FreshIs ==
    ASSUME NEW n \in Nat, NEW b, b = byte_buffer_allocate(Endian, n)
    PROVE  b \in Buffer /\ b.endian = Endian /\ b.read = 0 /\ b.write = 0
           /\ Len(b.bytes) = n
<1>1. Endian \in Endians /\ Capacity \in Nat /\ MaxFields \in Nat
  BY SocketAssumption
<1> QED
  BY <1>1, AllocatedIs

(* The null pointer is a buffer with no memory.                            *)
LEMMA NullIs ==
    nullptr \in Buffer /\ nullptr.read = 0 /\ nullptr.write = 0 /\ Len(nullptr.bytes) = 0
<1>1. "Machine" \in Endians /\ Capacity \in Nat /\ MaxFields \in Nat
  BY SocketAssumption DEF Endians
<1> QED
  BY <1>1, AllocatedIs DEF nullptr

(* Both sides write in the same byte order, whatever they call it.         *)
LEMMA EncodeSame == \A v, w : Encode(v, w, Endian) = Encode(v, w, PeerEndian)
  BY SocketAssumption DEF Encode

(* What was encoded is decoded.                                            *)
LEMMA DecodeIs ==
    ASSUME NEW v \in 0 .. MaxFields, NEW w \in {1, 2}, NEW e, NEW s, s = Encode(v, w, e)
    PROVE  Decode(s, e) = v
<1>1. v \in Nat /\ v <= MaxFields /\ MaxFields \in Nat /\ 1 \in 1 .. w
  BY SocketAssumption
<1>2. Len(Encode(v, w, e)) = w
  BY <1>1, EncodeIs
<1>4. \A i \in 1 .. w : Encode(v, w, e)[i].value = v
  BY <1>1, EncodeIs
<1>3. Len(s) = w /\ s[1].value = v
  BY <1>1, <1>2, <1>4
<1> QED
  BY <1>3 DEF Decode

(* A part of a sequence of bytes.                                          *)
LEMMA PartIs ==
    ASSUME NEW s \in Seq(Bytes), NEW from \in Nat, NEW n \in Nat, from + n <= Len(s),
           NEW p, p = SubSeq(s, from + 1, from + n)
    PROVE  p \in Seq(Bytes) /\ Len(p) = n /\ \A i \in 1 .. n : p[i] = s[from + i]
<1>1. Len(s) \in Nat /\ from + 1 \in Int /\ from + n \in Int
  OBVIOUS
<1>2. \A i \in from + 1 .. from + n : s[i] \in Bytes
  BY <1>1
<1>3. /\ p \in Seq(Bytes)
      /\ Len(p) = IF from + 1 <= from + n THEN (from + n) - (from + 1) + 1 ELSE 0
      /\ \A i \in 1 .. (from + n) - (from + 1) + 1 : p[i] = s[(from + 1) + i - 1]
  BY <1>1, <1>2, SubSeqProperties
<1>4. Len(p) = n
  BY <1>3
<1>5. ASSUME NEW i \in 1 .. n PROVE p[i] = s[from + i]
  <2>1. i \in 1 .. (from + n) - (from + 1) + 1 /\ (from + 1) + i - 1 = from + i
    OBVIOUS
  <2> QED
    BY <1>3, <2>1
<1> QED
  BY <1>3, <1>4, <1>5

(* Writing from the start.                                                 *)
LEMMA PutAtStart ==
    ASSUME NEW b \in Buffer, NEW bs \in Seq(Bytes), NEW c, c = Put(b, 0, bs)
    PROVE  /\ c \in Buffer
           /\ c.endian = b.endian /\ c.read = b.read /\ c.write = b.write
           /\ Len(c.bytes) = Len(b.bytes)
           /\ \A i \in 1 .. Len(bs) : i <= Len(b.bytes) => c.bytes[i] = bs[i]
<1> DEFINE off == 0
<1>1. off \in Nat /\ c = Put(b, off, bs) /\ off = 0
  OBVIOUS
<1> HIDE DEF off
<1>2. c \in Buffer /\ c.endian = b.endian /\ c.read = b.read /\ c.write = b.write
  BY <1>1, PutIs
<1>3. Len(c.bytes) = Len(b.bytes)
  BY <1>1, PutIs
<1>4. \A i \in 1 .. Len(b.bytes) :
         c.bytes[i] = IF off < i /\ i <= off + Len(bs)
                      THEN bs[i - off] ELSE b.bytes[i]
  BY <1>1, PutIs
<1>5. Len(b.bytes) \in Nat /\ Len(bs) \in Nat
  BY BufferIs
<1>6. ASSUME NEW i \in 1 .. Len(bs), i <= Len(b.bytes) PROVE c.bytes[i] = bs[i]
  <2>1. i \in 1 .. Len(b.bytes) /\ off < i /\ i <= off + Len(bs) /\ i - off = i
    BY <1>1, <1>5, <1>6
  <2> QED
    BY <1>4, <2>1
<1> QED
  BY <1>2, <1>3, <1>6

(* Reading copies what lies behind the read offset to a new buffer.        *)
LEMMA ReadIs ==
    ASSUME NEW b \in Buffer, NEW size \in Nat, b.read + size <= Len(b.bytes),
           b.endian = Endian,
           NEW c, c = byte_buffer_read(b, size)
    PROVE  /\ c.bytes \in Seq(Bytes) /\ Len(c.bytes) = size
           /\ \A i \in 1 .. size : c.bytes[i] = b.bytes[b.read + i]
<1> DEFINE a == byte_buffer_allocate(Endian, size)
           s == Ahead(b, size)
<1>1. a \in Buffer /\ Len(a.bytes) = size
  BY FreshIs
<1>2. s \in Seq(Bytes) /\ Len(s) = size /\ \A i \in 1 .. size : s[i] = b.bytes[b.read + i]
  BY AheadIs
<1>3. c = Put(a, 0, s)
  BY DEF byte_buffer_read
<1> HIDE DEF a, s
<1>8. s \in Seq(Bytes)
  BY <1>2
<1>9. a \in Buffer
  BY <1>1
<1>5. c \in Buffer /\ Len(c.bytes) = Len(a.bytes)
  BY <1>3, <1>8, <1>9, PutAtStart
<1>6. \A i \in 1 .. Len(s) : i <= Len(a.bytes) => c.bytes[i] = s[i]
  BY <1>3, <1>8, <1>9, PutAtStart
<1>7. ASSUME NEW i \in 1 .. size PROVE c.bytes[i] = b.bytes[b.read + i]
  <2>1. i \in 1 .. Len(s) /\ i <= Len(a.bytes)
    BY <1>1, <1>2
  <2> QED
    BY <1>2, <1>6, <2>1
<1> QED
  BY <1>1, <1>5, <1>7, BufferIs

(* What was not sent moves to the start of a buffer of its own.            *)
LEMMA RestIs ==
    ASSUME NEW b \in Buffer, Len(b.bytes) = Capacity, b.endian = Endian,
           NEW sent \in Nat, sent <= b.write, NEW c, c = Rest(b, sent)
    PROVE  /\ c \in Buffer /\ c.endian = Endian /\ c.read = 0
           /\ c.write = b.write - sent /\ Len(c.bytes) = Capacity
           /\ \A i \in 1 .. b.write - sent : c.bytes[i] = b.bytes[sent + i]
<1> DEFINE size == b.write - sent
           r == byte_buffer_set_read_offset(b, sent)
           m == byte_buffer_read(r, size)
           moved == m.bytes
           empty == Script
           p == Put(empty, 0, moved)
<1>1. b.write \in Nat /\ b.write <= Capacity /\ Capacity \in Nat
  BY BufferIs, SocketAssumption
<1>2. size \in Nat /\ size \in 0 .. Capacity /\ sent \in 0 .. Capacity
      /\ sent + size = b.write
  BY <1>1
<1>3. r \in Buffer /\ r.bytes = b.bytes /\ r.endian = b.endian /\ r.read = sent
  BY <1>2, ReadOffsetSet
<1>4. c = byte_buffer_set_write_offset(p, size)
  BY DEF Rest
<1> HIDE DEF r, size
<1>5. r.read + size <= Len(r.bytes)
  BY <1>1, <1>2, <1>3
<1>6. /\ m.bytes \in Seq(Bytes) /\ Len(m.bytes) = size
      /\ \A i \in 1 .. size : m.bytes[i] = r.bytes[r.read + i]
  BY <1>2, <1>3, <1>5, ReadIs
<1> HIDE DEF m, moved
<1>7. moved \in Seq(Bytes)
  BY <1>6 DEF moved
<1>12. empty \in Buffer /\ empty.endian = Endian /\ empty.read = 0
       /\ Len(empty.bytes) = Capacity
  BY ScriptIs
<1> HIDE DEF empty
<1>13. empty \in Buffer
  BY <1>12
<1>8. p \in Buffer /\ p.endian = empty.endian /\ p.read = empty.read
      /\ Len(p.bytes) = Len(empty.bytes)
  BY <1>7, <1>13, PutAtStart
<1>9. \A i \in 1 .. Len(moved) : i <= Len(empty.bytes) => p.bytes[i] = moved[i]
  BY <1>7, <1>13, PutAtStart
<1> HIDE DEF p
<1>10. c \in Buffer /\ c.bytes = p.bytes /\ c.endian = p.endian /\ c.read = p.read
       /\ c.write = size
  <2>1. p \in Buffer /\ size \in 0 .. Capacity
    BY <1>2, <1>8
  <2> QED
    BY <1>4, <2>1, WriteOffsetSet
<1>11. ASSUME NEW i \in 1 .. size PROVE c.bytes[i] = b.bytes[sent + i]
  <2>1. i \in 1 .. Len(moved) /\ i <= Len(empty.bytes)
    BY <1>2, <1>6, <1>12 DEF moved
  <2>2. moved[i] = r.bytes[r.read + i]
    BY <1>6 DEF moved
  <2> QED
    BY <1>3, <1>9, <1>10, <2>1, <2>2
<1> QED
  BY <1>8, <1>10, <1>11, <1>12 DEF size

-----------------------------------------------------------------------------
(* Stretches of the stream.                                                *)

(* Bytes that are held elsewhere, or a part of them, or next to others, are *)
(* still a stretch of the stream.                                          *)
Copied(a2, from2, a, from, n) == \A i \in 1 .. n : a2[from2 + i] = a[from + i]

LEMMA CopiedHold ==
    ASSUME NEW a, NEW a2, NEW from, NEW from2, NEW n, NEW p, Holds(a, from, n, p),
           Copied(a2, from2, a, from, n)
    PROVE  Holds(a2, from2, n, p)
  BY DEF Holds, Copied

LEMMA FrontHolds ==
    ASSUME NEW a, NEW from, NEW m \in Nat, NEW n \in Nat, n <= m, NEW p,
           Holds(a, from, m, p)
    PROVE  Holds(a, from, n, p)
  BY DEF Holds

LEMMA RestHolds ==
    ASSUME NEW a, NEW from \in Nat, NEW m \in Nat, NEW p \in Nat, NEW k \in Nat, k <= m,
           Holds(a, from, m, p), NEW from2, from2 = from + k, NEW r, r = m - k, NEW q,
             q = p + k
    PROVE  Holds(a, from2, r, q)
<1>1. ASSUME NEW i \in 1 .. m - k PROVE a[(from + k) + i] = StreamByte((p + k) + i)
  <2> DEFINE j == k + i
  <2>1. j \in 1 .. m /\ (from + k) + i = from + j /\ (p + k) + i = p + j
    OBVIOUS
  <2> HIDE DEF j
  <2> QED
    BY <2>1 DEF Holds
<1> QED
  BY <1>1 DEF Holds

LEMMA JoinedHold ==
    ASSUME NEW a, NEW from \in Nat, NEW g \in Nat, NEW n \in Nat, NEW p \in Nat,
           Holds(a, from, g, p), NEW from2, from2 = from + g, NEW q, q = p + g,
           Holds(a, from2, n, q), NEW k, k = g + n
    PROVE  Holds(a, from, k, p)
<1>1. ASSUME NEW i \in 1 .. g + n PROVE a[from + i] = StreamByte(p + i)
  <2>1. CASE i <= g
    <3>1. i \in 1 .. g
      BY <2>1
    <3> QED
      BY <3>1 DEF Holds
  <2>2. CASE ~(i <= g)
    <3> DEFINE j == i - g
    <3>1. j \in 1 .. n /\ from2 + j = from + i /\ q + j = p + i
      BY <2>2
    <3> HIDE DEF j
    <3>2. a[from2 + j] = StreamByte(q + j)
      BY <3>1 DEF Holds
    <3> QED
      BY <3>1, <3>2
  <2> QED
    BY <2>1, <2>2
<1> QED
  BY <1>1 DEF Holds

(* A field is a stretch of the stream.                                     *)
LEMMA FieldHolds ==
    ASSUME NEW n \in Nat, NEW a, NEW from,
           \A i \in 1 .. Width(n + 1) : a[from + i] = Encode(n + 1, Width(n + 1), PeerEndian)[i]
    PROVE  Holds(a, from, Width(n + 1), Length(n))
<1>1. ASSUME NEW i \in 1 .. Width(n + 1) PROVE a[from + i] = StreamByte(Length(n) + i)
  BY StreamByteIs
<1> QED
  BY <1>1 DEF Holds

(* No bytes are a stretch at any place.                                    *)
LEMMA NoneHeld == \A a, from, p : Holds(a, from, 0, p)
  BY DEF Holds

-----------------------------------------------------------------------------
(* What the steps of Socket do, by positions.                              *)

(* The types, one by one.                                                  *)
LEMMA TypesAre ==
    ASSUME TypeOK
    PROVE  /\ fresh \in Buffer /\ inbox \in Buffer /\ outbox \in Buffer
           /\ wire \in Seq(Bytes) /\ arrived \in Seq(Bytes)
           /\ values \in Seq(0 .. MaxFields) /\ datagrams \subseteq 1 .. MaxFields
           /\ call.done \in 0 .. Capacity /\ call = [op |-> call.op, done |-> call.done]
           /\ allocated \in Nat /\ written \in Nat /\ produced \in Nat /\ lost \in BOOLEAN
  BY DEF TypeOK

(* The bounds.                                                             *)
LEMMA ConstantsAre == Capacity \in Nat /\ Capacity >= 1 /\ MaxFields \in Nat
  /\ MaxFields >= 1
  BY SocketAssumption

(* No call sends and receives.                                             *)
LEMMA OpsDiffer ==
    /\ ~(Sending /\ Receiving)
    /\ call = Idle => ~Sending /\ ~Receiving /\ call.done = 0
  BY DEF Sending, Receiving, Idle

(* What a step of Send or SendAll does.                                    *)
LEMMA SendMoreDoes ==
    ASSUME TypeOK, Sizes, UnderWay, SendMore
    PROVE  \E sent \in Nat \ {0}, done2 \in Nat :
             /\ call.done + sent <= outbox.write
             /\ \/ call' = Idle /\ outbox' = Rest(outbox, call.done + sent) /\ done2 = 0
                \/ /\ call.op = "SendAll"
                      /\ call' = [call EXCEPT !.done = call.done + sent]
                   /\ outbox' = outbox /\ done2 = call.done + sent /\ done2 < outbox.write
             /\ arrived' = IF Is("TCP") /\ ~lost
                           THEN arrived \o SubSeq(outbox.bytes, call.done + 1, call.done + sent)
                           ELSE arrived
             /\ outbox' \in Buffer /\ outbox'.endian = Endian
                /\ Len(outbox'.bytes) = Capacity
             /\ outbox'.write = done2 + (outbox.write - (call.done + sent))
             /\ \A i \in 1 .. outbox.write - (call.done + sent) :
                   outbox'.bytes[done2 + i] = outbox.bytes[call.done + (sent + i)]
<1> DEFINE done == call.done
           all == outbox.write
<1>1. outbox \in Buffer /\ done \in 0 .. Capacity
  BY TypesAre
<1>2. all \in Nat /\ done \in Nat
  BY <1>1, BufferIs, ConstantsAre
<1>3. Sending /\ done < all /\ outbox.endian = Endian /\ Len(outbox.bytes) = Capacity
  BY DEF SendMore, UnderWay, Sizes
<1>4. PICK sent \in 1 .. all - done :
         /\ arrived' = IF Is("TCP") /\ ~lost
                       THEN arrived \o Chunk(sent) ELSE arrived
         /\ IF call.op = "Send" \/ done + sent = all
            THEN Return /\ outbox' = Rest(outbox, done + sent)
            ELSE call' = [call EXCEPT !.done = @ + sent] /\ UNCHANGED outbox
  BY DEF SendMore
<1>5. Chunk(sent) = SubSeq(outbox.bytes, done + 1, done + sent)
  BY DEF Chunk
<1>6. sent \in Nat \ {0} /\ done + sent <= all /\ done + sent \in Nat
  BY <1>2
<1> HIDE DEF done, all
<1>7. CASE call.op = "Send" \/ done + sent = all
  <2> DEFINE gone == done + sent
  <2>1. call' = Idle /\ outbox' = Rest(outbox, gone)
    BY <1>4, <1>7 DEF Return
  <2>2. gone \in Nat /\ gone <= outbox.write
    BY <1>6 DEF all
  <2> HIDE DEF gone
  <2>3. /\ outbox' \in Buffer /\ outbox'.endian = Endian
        /\ outbox'.write = outbox.write - gone /\ Len(outbox'.bytes) = Capacity
        /\ \A i \in 1 .. outbox.write - gone : outbox'.bytes[i] = outbox.bytes[gone + i]
    BY <1>1, <1>3, <2>1, <2>2, RestIs
  <2>4. ASSUME NEW i \in 1 .. all - gone
        PROVE  outbox'.bytes[0 + i] = outbox.bytes[done + (sent + i)]
    <3>1. 0 + i = i /\ done + (sent + i) = gone + i
      BY <1>2 DEF gone
    <3> QED
      BY <2>3, <3>1 DEF all
  <2>5. outbox'.write = 0 + (all - gone)
    BY <1>2, <2>2, <2>3 DEF all
  <2> QED
    BY <1>4, <1>5, <1>6, <2>1, <2>3, <2>4, <2>5 DEF gone, done, all
<1>8. CASE ~(call.op = "Send" \/ done + sent = all)
  <2> DEFINE gone == done + sent
  <2>1. call' = [call EXCEPT !.done = gone] /\ outbox' = outbox
    BY <1>4, <1>8 DEF done
  <2>2. call.op = "SendAll" /\ gone < all /\ gone \in Nat
    BY <1>2, <1>3, <1>6, <1>8 DEF Sending
  <2>3. outbox'.write = gone + (all - gone)
    BY <1>2, <2>1, <2>2 DEF all
  <2>4. ASSUME NEW i \in 1 .. all - gone
        PROVE  outbox'.bytes[gone + i] = outbox.bytes[done + (sent + i)]
    <3>1. done + (sent + i) = gone + i
      BY <1>2
    <3> QED
      BY <2>1, <3>1
  <2> QED
    BY <1>1, <1>3, <1>4, <1>5, <1>6, <2>1, <2>2, <2>3, <2>4 DEF done, all
<1> QED
  BY <1>7, <1>8

(* What the library hands over.                                            *)
LEMMA GotIs ==
    ASSUME TypeOK, NEW room \in Nat, room >= 1, NEW got \in Deliveries(room)
    PROVE  /\ got.bytes \in Seq(Bytes) /\ Len(got.bytes) \in 1 .. room
           /\ Is("TCP") =>
                /\ got.datagrams = datagrams /\ got.endpoint = socket.endpoint
                /\ got.wire \in Seq(Bytes) /\ Len(wire) = Len(got.bytes) + Len(got.wire)
                /\ \A i \in 1 .. Len(got.bytes) : got.bytes[i] = wire[i]
                /\ \A i \in 1 .. Len(got.wire) : got.wire[i] = wire[Len(got.bytes) + i]
           /\ ~Is("TCP") =>
                /\ got.wire = wire /\ got.datagrams \subseteq datagrams
                /\ got.endpoint = Sender(got.bytes[Len(got.bytes)].value)
<1>1. wire \in Seq(Bytes) /\ datagrams \subseteq 1 .. MaxFields
  BY TypesAre
<1>2. CASE Is("TCP")
  <2> DEFINE l == Len(wire)
  <2>1. l \in Nat
    BY <1>1
  <2> HIDE DEF l
  <2>2. PICK k \in 1 .. Smaller(room, l) :
          /\ got.bytes = SubSeq(wire, 1, k) /\ got.wire = SubSeq(wire, k + 1, l)
          /\ got.datagrams = datagrams /\ got.endpoint = socket.endpoint
    BY <1>2 DEF Deliveries, l
  <2>3. k \in Nat /\ k >= 1 /\ k <= room /\ k <= l
    BY <2>1, <2>2 DEF Smaller
  <2>4. PICK m \in Nat : l = k + m
    <3>1. l - k \in Nat /\ l = k + (l - k)
      BY <2>1, <2>3
    <3> QED
      BY <3>1
  <2>5. 0 \in Nat /\ 0 + k <= Len(wire) /\ got.bytes = SubSeq(wire, 0 + 1, 0 + k)
    BY <2>2, <2>3 DEF l
  <2>6. got.bytes \in Seq(Bytes) /\ Len(got.bytes) = k
        /\ \A i \in 1 .. k : got.bytes[i] = wire[0 + i]
    BY <1>1, <2>3, <2>5, PartIs
  <2>7. got.wire = SubSeq(wire, k + 1, k + m) /\ k + m <= Len(wire)
    BY <2>2, <2>3, <2>4 DEF l
  <2>12. k \in Nat /\ m \in Nat
    BY <2>3, <2>4
  <2>13. got.wire \in Seq(Bytes)
    BY <1>1, <2>7, <2>12, PartIs
  <2>14. Len(got.wire) = m
    BY <1>1, <2>7, <2>12, PartIs
  <2>8. \A i \in 1 .. m : got.wire[i] = wire[k + i]
    BY <1>1, <2>7, <2>12, PartIs
  <2>9. \A i \in 1 .. k : 0 + i = i
    OBVIOUS
  <2> QED
    BY <1>2, <2>2, <2>3, <2>4, <2>6, <2>8, <2>9, <2>13, <2>14 DEF l
<1>3. CASE ~Is("TCP")
  <2>1. PICK n \in datagrams :
          /\ got.bytes = SubSeq(Encode(n, Width(n), PeerEndian), 1, Smaller(room, Width(n)))
          /\ got.wire = wire /\ got.datagrams = datagrams \ {n}
             /\ got.endpoint = Sender(n)
    BY <1>3 DEF Deliveries
  <2> DEFINE w == Width(n)
             e == Encode(n, w, PeerEndian)
             k == Smaller(room, w)
  <2>2. n \in Nat /\ n <= MaxFields /\ MaxFields \in Nat
    BY <1>1, ConstantsAre
  <2>3. w \in {1, 2}
    BY DEF Width
  <2> HIDE DEF w
  <2>4. e \in Seq(Bytes)
    BY <2>2, <2>3, EncodeIs
  <2>5. Len(e) = w
    BY <2>2, <2>3, EncodeIs
  <2>6. \A i \in 1 .. w : e[i].value = n
    BY <2>2, <2>3, EncodeIs
  <2>7. got.bytes = SubSeq(e, 1, k)
    BY <2>1 DEF w
  <2> HIDE DEF e
  <2>8. k \in Nat /\ k >= 1 /\ k <= room /\ k <= w
    BY <2>3 DEF Smaller
  <2> HIDE DEF k
  <2>9. 0 \in Nat /\ 0 + k <= Len(e) /\ got.bytes = SubSeq(e, 0 + 1, 0 + k)
    BY <2>5, <2>7, <2>8
  <2>10. got.bytes \in Seq(Bytes) /\ Len(got.bytes) = k
         /\ \A i \in 1 .. k : got.bytes[i] = e[0 + i]
    BY <2>4, <2>8, <2>9, PartIs
  <2>11. got.bytes[k].value = n
    <3>1. 0 + k = k /\ k \in 1 .. k /\ k \in 1 .. w
      BY <2>3, <2>8
    <3> QED
      BY <2>6, <2>10, <3>1
  <2> QED
    BY <1>3, <2>1, <2>8, <2>10, <2>11
<1> QED
  BY <1>2, <1>3

(* What a step of Receive or ReceiveAll does.                              *)
LEMMA ReceiveMoreDoes ==
    ASSUME TypeOK, Sizes, UnderWay, ReceiveMore
    PROVE  \E room \in Nat : \E got \in Deliveries(room) :
             /\ room >= 1 /\ call.done + room = Len(fresh.bytes)
             /\ wire' = got.wire /\ datagrams' = got.datagrams
             /\ socket' = [socket EXCEPT !.endpoint = got.endpoint]
             /\ fresh' \in Buffer /\ Len(fresh'.bytes) = Len(fresh.bytes)
             /\ \A i \in 1 .. call.done : fresh'.bytes[i] = fresh.bytes[i]
             /\ \A i \in 1 .. Len(got.bytes) : fresh'.bytes[call.done + i] = got.bytes[i]
             /\ \/ call' = Idle /\ fresh'.write = call.done + Len(got.bytes)
                \/ /\ call.op = "ReceiveAll"
                      /\ call' = [call EXCEPT !.done = call.done + Len(got.bytes)]
                   /\ fresh'.write = fresh.write
                      /\ call.done + Len(got.bytes) < Len(fresh.bytes)
<1> DEFINE done == call.done
           room == byte_buffer_get_capacity(fresh) - done
<1>1. fresh \in Buffer /\ done \in 0 .. Capacity
  BY TypesAre
<1>2. done \in Nat /\ Len(fresh.bytes) \in Nat /\ Capacity \in Nat
  BY <1>1, BufferIs, ConstantsAre
<1>3. Receiving /\ done < Len(fresh.bytes) /\ Len(fresh.bytes) <= Capacity
  BY DEF ReceiveMore, UnderWay, Sizes
<1>4. PICK got \in Deliveries(room) :
         /\ LET filled == Put(fresh, done, got.bytes)
            IN  IF call.op = "Receive" \/ done + Len(got.bytes) = Len(fresh.bytes)
                THEN HandOver(filled, done + Len(got.bytes))
                ELSE call' = [call EXCEPT !.done = done + Len(got.bytes)]
                  /\ fresh' = filled
         /\ wire' = got.wire /\ datagrams' = got.datagrams
         /\ socket' = [socket EXCEPT !.endpoint = got.endpoint]
  BY DEF ReceiveMore, byte_buffer_get_capacity
<1>5. room \in Nat /\ room >= 1 /\ done + room = Len(fresh.bytes)
  BY <1>2, <1>3 DEF byte_buffer_get_capacity
<1> HIDE DEF room
<1> DEFINE new == got.bytes
           n == Len(new)
           filled == Put(fresh, done, new)
           all == Len(fresh.bytes)
<1>6. new \in Seq(Bytes)
  BY <1>5, GotIs
<1>7. n \in 1 .. room
  BY <1>5, GotIs
<1>8. done \in Nat
  BY <1>2
<1> HIDE DEF done, new
<1>9. filled \in Buffer /\ filled.write = fresh.write
  BY <1>1, <1>6, <1>8, PutIs
<1>10. Len(filled.bytes) = all
  BY <1>1, <1>6, <1>8, PutIs
<1>11. \A i \in 1 .. Len(fresh.bytes) :
         filled.bytes[i] = IF done < i /\ i <= done + Len(new)
                           THEN new[i - done] ELSE fresh.bytes[i]
  BY <1>1, <1>6, <1>8, PutIs
<1> HIDE DEF filled
<1>12. n \in Nat /\ n >= 1 /\ done + n <= all /\ all \in Nat
  BY <1>2, <1>5, <1>7
<1>13. ASSUME NEW i \in 1 .. done PROVE filled.bytes[i] = fresh.bytes[i]
  <2>1. i \in 1 .. Len(fresh.bytes) /\ ~(done < i)
    BY <1>8, <1>12
  <2> QED
    BY <1>11, <2>1
<1>14. ASSUME NEW i \in 1 .. n PROVE filled.bytes[done + i] = new[i]
  <2> DEFINE j == done + i
  <2>1. j \in 1 .. Len(fresh.bytes) /\ done < j /\ j <= done + Len(new) /\ j - done = i
    BY <1>8, <1>12
  <2> HIDE DEF j
  <2>2. filled.bytes[j] = new[i]
    BY <1>11, <2>1
  <2> QED
    BY <2>2 DEF j
<1>15. CASE call.op = "Receive" \/ done + n = all
  <2> DEFINE k == done + n
  <2>1. call' = Idle /\ fresh' = byte_buffer_set_write_offset(filled, k)
    BY <1>4, <1>15 DEF HandOver, Return, new, filled
  <2>2. k \in 0 .. Capacity
    BY <1>2, <1>3, <1>8, <1>12
  <2> HIDE DEF k
  <2>3. fresh' \in Buffer /\ fresh'.bytes = filled.bytes /\ fresh'.write = k
    BY <1>9, <2>1, <2>2, WriteOffsetSet
  <2> QED
    BY <1>4, <1>5, <1>10, <1>13, <1>14, <2>1, <2>3 DEF k, done, new
<1>16. CASE ~(call.op = "Receive" \/ done + n = all)
  <2>1. call' = [call EXCEPT !.done = done + n] /\ fresh' = filled
    BY <1>4, <1>16 DEF new, filled
  <2>2. call.op = "ReceiveAll"
    BY <1>3, <1>16 DEF Receiving
  <2>3. done + n < all
    BY <1>8, <1>12, <1>16
  <2> QED
    BY <1>4, <1>5, <1>9, <1>10, <1>13, <1>14, <2>1, <2>2, <2>3 DEF done, new
<1> QED
  BY <1>15, <1>16

(* The bytes of a field that may be sent.                                  *)
LEMMA FieldIs ==
    ASSUME NEW n \in Nat, n < MaxFields, NEW f,
           f = Encode(n + 1, Width(n + 1), PeerEndian)
    PROVE  f \in Seq(Bytes) /\ Len(f) = Width(n + 1)
<1> DEFINE v == n + 1
           w == Width(v)
<1>1. v \in Nat /\ v <= MaxFields /\ MaxFields \in Nat
  BY ConstantsAre
<1>2. w \in {1, 2}
  BY DEF Width
<1>3. f = Encode(v, w, PeerEndian)
  OBVIOUS
<1> HIDE DEF v, w
<1>7. Encode(v, w, PeerEndian) \in Seq(Bytes)
  BY <1>1, <1>2, EncodeIs
<1>4. f \in Seq(Bytes)
  BY <1>3, <1>7
<1>6. Len(Encode(v, w, PeerEndian)) = w
  BY <1>1, <1>2, EncodeIs
<1>5. Len(f) = w
  BY <1>3, <1>6
<1> QED
  BY <1>4, <1>5 DEF v, w

(* The script's buffers are bounded.                                       *)
LEMMA OutboxBounded == TypeOK /\ Sizes => Bounded(outbox) /\ Bounded(inbox)
  BY ConstantsAre DEF Sizes, Bounded

(* What writing a field does: it is appended to the outbox.                *)
LEMMA WriteFieldDoes ==
    ASSUME TypeOK, Sizes, WriteField
    PROVE  /\ outbox' \in Buffer /\ outbox'.endian = Endian
              /\ Len(outbox'.bytes) = Capacity
           /\ outbox'.write = outbox.write + Width(written + 1)
           /\ \A i \in 1 .. outbox.write : outbox'.bytes[i] = outbox.bytes[i]
           /\ \A i \in 1 .. Width(written + 1) :
                outbox'.bytes[outbox.write + i] = Encode(written + 1, Width(written + 1), PeerEndian)[i]
<1> DEFINE w == Width(written + 1)
           f == Encode(written + 1, w, PeerEndian)
<1>1. outbox \in Buffer /\ written \in Nat /\ written < MaxFields
  BY TypesAre DEF WriteField
<1>2. f \in Seq(Bytes)
  BY <1>1, FieldIs
<1>3. Len(f) = w
  BY <1>1, FieldIs
<1>4. outbox.endian = Endian /\ Len(outbox.bytes) = Capacity
  BY DEF Sizes
<1>5. Fits(outbox, Len(f))
  BY <1>3 DEF WriteField
<1>6. outbox' = Appended(outbox, f)
  BY <1>4, EncodeSame DEF WriteField, byte_buffer_write_value
<1> HIDE DEF w, f
<1>7. Bounded(outbox)
  BY OutboxBounded
<1>8. outbox' \in Buffer /\ outbox'.endian = outbox.endian
  BY <1>1, <1>2, <1>5, <1>6, <1>7, AppendedIs
<1>9. outbox'.write = outbox.write + Len(f)
  BY <1>1, <1>2, <1>5, <1>6, <1>7, AppendedIs
<1>10. Len(outbox'.bytes) = Len(outbox.bytes)
  BY <1>1, <1>2, <1>5, <1>6, <1>7, AppendedIs
<1>11. \A i \in 1 .. outbox.write : outbox'.bytes[i] = outbox.bytes[i]
  BY <1>1, <1>2, <1>5, <1>6, <1>7, AppendedIs
<1>12. \A i \in 1 .. Len(f) : outbox'.bytes[outbox.write + i] = f[i]
  BY <1>1, <1>2, <1>5, <1>6, <1>7, AppendedIs
<1> QED
  BY <1>3, <1>4, <1>8, <1>9, <1>10, <1>11, <1>12 DEF w, f

(* The script's inbox takes what was received behind what is unread there. *)
LEMMA CollectDoes ==
    ASSUME TypeOK, Sizes, Collect, Is("TCP")
    PROVE  \E from \in Nat :
             /\ inbox' \in Buffer /\ inbox'.endian = Endian
                /\ Len(inbox'.bytes) = Capacity
             /\ inbox'.read = from /\ inbox'.write = from + (Waiting + fresh.write)
             /\ \A i \in 1 .. Waiting : inbox'.bytes[from + i] = inbox.bytes[inbox.read + i]
             /\ \A i \in 1 .. fresh.write : inbox'.bytes[from + (Waiting + i)] = fresh.bytes[i]
<1> DEFINE into == IF inbox.read = inbox.write THEN Script ELSE inbox
           g == fresh.write
           new == SubSeq(fresh.bytes, 1, g)
<1>1. inbox \in Buffer /\ fresh \in Buffer
  BY TypesAre
<1>2. inbox.endian = Endian /\ Len(inbox.bytes) = Capacity /\ inbox.read <= inbox.write
      /\ g <= Len(fresh.bytes)
  BY DEF Sizes
<1>3. inbox.read \in Nat /\ inbox.write \in Nat
  BY <1>1, BufferIs
<1>4. g \in Nat /\ fresh.bytes \in Seq(Bytes)
  BY <1>1, BufferIs
<1>5. into \in Buffer /\ into.endian = Endian /\ Len(into.bytes) = Capacity
  BY <1>1, <1>2, ScriptIs
<1>6. into.read \in Nat /\ into.write = into.read + Waiting /\ Waiting \in Nat
  BY <1>2, <1>3, ScriptIs DEF Waiting
<1>7. \A i \in 1 .. Waiting : into.bytes[into.read + i] = inbox.bytes[inbox.read + i]
  <2>1. CASE inbox.read = inbox.write
    BY <1>3, <2>1 DEF Waiting
  <2>2. CASE inbox.read # inbox.write
    BY <2>2
  <2> QED
    BY <2>1, <2>2
<1>8. Fits(into, g) /\ inbox' = byte_buffer_write(into, fresh, g)
  BY DEF Collect
<1>9. inbox' = Appended(into, new)
  BY <1>8 DEF byte_buffer_write
<1> HIDE DEF into, g
<1>10. 0 \in Nat /\ 0 + g <= Len(fresh.bytes) /\ new = SubSeq(fresh.bytes, 0 + 1, 0 + g)
  BY <1>2, <1>4
<1> HIDE DEF new
<1>11. new \in Seq(Bytes) /\ Len(new) = g
  BY <1>4, <1>10, PartIs
<1>12. \A i \in 1 .. g : new[i] = fresh.bytes[0 + i]
  BY <1>4, <1>10, PartIs
<1>13. Bounded(into)
  BY <1>5, ConstantsAre DEF Bounded
<1>14. new \in Seq(Bytes) /\ into \in Buffer /\ Fits(into, Len(new))
  BY <1>5, <1>8, <1>11
<1>15. inbox' \in Buffer /\ inbox'.endian = into.endian /\ inbox'.read = into.read
  BY <1>9, <1>13, <1>14, AppendedIs
<1>16. inbox'.write = into.write + Len(new)
  BY <1>9, <1>13, <1>14, AppendedIs
<1>17. Len(inbox'.bytes) = Len(into.bytes)
  BY <1>9, <1>13, <1>14, AppendedIs
<1>18. \A i \in 1 .. into.write : inbox'.bytes[i] = into.bytes[i]
  BY <1>9, <1>13, <1>14, AppendedIs
<1>19. \A i \in 1 .. Len(new) : inbox'.bytes[into.write + i] = new[i]
  BY <1>9, <1>13, <1>14, AppendedIs
<1> DEFINE from == into.read
           here == Waiting
<1>20. from \in Nat /\ here \in Nat /\ into.write = from + here
  BY <1>6
<1> HIDE DEF from, here
<1>21. ASSUME NEW i \in 1 .. here
              PROVE inbox'.bytes[from + i] = inbox.bytes[inbox.read + i]
  <2> DEFINE j == from + i
  <2>1. j \in 1 .. into.write
    BY <1>20
  <2> HIDE DEF j
  <2>2. inbox'.bytes[j] = into.bytes[j]
    BY <1>18, <2>1
  <2>3. into.bytes[from + i] = inbox.bytes[inbox.read + i]
    BY <1>7 DEF from, here
  <2> QED
    BY <2>2, <2>3 DEF j
<1>22. ASSUME NEW i \in 1 .. g PROVE inbox'.bytes[from + (here + i)] = fresh.bytes[i]
  <2>1. from + (here + i) = into.write + i /\ 0 + i = i
    BY <1>4, <1>20
  <2>2. inbox'.bytes[into.write + i] = new[i]
    BY <1>11, <1>19
  <2>3. new[i] = fresh.bytes[0 + i]
    BY <1>12
  <2> QED
    BY <2>1, <2>2, <2>3
<1>23. inbox'.write = from + (here + g)
  BY <1>4, <1>11, <1>16, <1>20
<1> QED
  BY <1>5, <1>15, <1>17, <1>20, <1>21, <1>22, <1>23 DEF from, here, g

(* What is received and what waits on the wire have a length.              *)
LEMMA GotWireNat ==
    ASSUME TypeOK
    PROVE  Got \in Nat /\ Len(wire) \in Nat
<1>1. call.done \in Nat /\ fresh.write \in Nat
  BY TypesAre, BufferIs, ConstantsAre
<1>2. wire \in Seq(Bytes)
  BY TypesAre
<1> QED
  BY <1>1, <1>2 DEF Got

(* What reading a field does: the script gets the next value.              *)
LEMMA ReadFieldDoes ==
    ASSUME TypeOK, Sizes, ReadField, InStream
    PROVE  LET w == Width(Len(values) + 1)
           IN  /\ inbox' \in Buffer /\ inbox'.endian = Endian
             /\ Len(inbox'.bytes) = Capacity
               /\ inbox'.bytes = inbox.bytes /\ inbox'.write = inbox.write
               /\ inbox'.read = inbox.read + w /\ inbox.read + w <= inbox.write
               /\ Len(values) + 1 <= MaxFields
               /\ values' = Append(values, Len(values) + 1)
<1> DEFINE n == Len(values)
           w == Width(n + 1)
           s == Ahead(inbox, w)
<1>1. inbox \in Buffer /\ values \in Seq(0 .. MaxFields) /\ produced \in Nat
  BY TypesAre
<1>2. n \in Nat
  BY <1>1
<1>3. inbox.endian = Endian /\ Len(inbox.bytes) = Capacity /\ produced <= MaxFields
      /\ inbox.read <= inbox.write
  BY DEF Sizes
<1>4. inbox.read \in Nat /\ inbox.write \in Nat /\ inbox.write <= Capacity
  BY <1>1, BufferIs
<1>5. /\ inbox.read + w <= inbox.write
      /\ values' = Append(values, Decode(s, Endian))
      /\ inbox' = byte_buffer_set_read_offset(inbox, inbox.read + w)
  BY <1>3 DEF ReadField, byte_buffer_read_value, ReadOn
<1> HIDE DEF n
<1>6. w \in {1, 2} /\ w \in Nat
  BY DEF Width
<1>7. Holds(inbox.bytes, inbox.read, Waiting, Length(n))
  BY DEF InStream, Taken, n
<1>8. Length(n) + w <= Length(produced)
  <2>1. Got \in Nat /\ Len(wire) \in Nat
    BY GotWireNat
  <2>2. Length(n) \in Nat /\ Length(produced) \in Nat
    BY <1>1, <1>2 DEF Length
  <2>4. Waiting \in Nat
    BY <1>3, <1>4 DEF Waiting
  <2>5. Length(n) + Waiting + Got + Len(wire) <= Length(produced)
    <3> DEFINE sum == Length(n) + Waiting + Got + Len(wire)
               all == Length(produced)
    <3>1. all \in Nat /\ sum \in Nat
      BY <2>1, <2>2, <2>4
    <3>2. IF OverIn THEN sum <= all ELSE sum = all
      BY DEF InStream, Taken, n
    <3> HIDE DEF sum, all
    <3>3. sum <= all
      BY <3>1, <3>2
    <3> QED
      BY <3>3 DEF sum, all
  <2>3. Waiting >= w /\ Waiting \in Nat
    BY <1>4, <1>5, <1>6 DEF Waiting
  <2> HIDE DEF w
  <2> QED
    BY <1>6, <2>1, <2>2, <2>3, <2>5
<1>9. n + 1 <= produced
  <2>1. ASSUME produced <= n PROVE FALSE
    <3>1. Length(produced) <= Length(n)
      BY <1>1, <1>2, <2>1 DEF Length
    <3>2. Length(n) \in Nat /\ Length(produced) \in Nat
      BY <1>1, <1>2 DEF Length
    <3> QED
      BY <1>8, <3>1, <3>2 DEF Width
  <2> QED
    BY <1>1, <1>2, <2>1
<1>10. n + 1 \in 0 .. MaxFields /\ n < MaxFields /\ n + 1 <= MaxFields
  BY <1>1, <1>2, <1>3, <1>9, ConstantsAre
<1> DEFINE f == Encode(n + 1, w, PeerEndian)
<1>11. f \in Seq(Bytes)
  BY <1>2, <1>10, FieldIs
<1>12. Len(f) = w
  BY <1>2, <1>10, FieldIs
<1>13. ASSUME NEW i \in 1 .. w PROVE inbox.bytes[inbox.read + i] = f[i]
  <2>1. i \in 1 .. Waiting
    BY <1>4, <1>5, <1>6 DEF Waiting
  <2>2. inbox.bytes[inbox.read + i] = StreamByte(Length(n) + i)
    BY <1>7, <2>1 DEF Holds
  <2>3. StreamByte(Length(n) + i) = f[i]
    BY <1>2, StreamByteIs
  <2> QED
    BY <2>2, <2>3
<1> HIDE DEF f, w
<1>14. inbox.read + w <= Len(inbox.bytes)
  BY <1>3, <1>4, <1>5, <1>6, ConstantsAre
<1>19. w \in Nat
  BY <1>6
<1>15. s \in Seq(Bytes) /\ Len(s) = w
  BY <1>1, <1>14, <1>19, AheadIs
<1>16. \A i \in 1 .. w : s[i] = inbox.bytes[inbox.read + i]
  BY <1>1, <1>14, <1>19, AheadIs
<1> HIDE DEF s
<1>17. s = f
  <2>1. \A i \in 1 .. Len(s) : s[i] = f[i]
    BY <1>13, <1>15, <1>16
  <2> QED
    BY <1>11, <1>12, <1>15, <2>1, SeqEqual
<1>18. Decode(s, Endian) = n + 1
  <2>1. s = Encode(n + 1, w, Endian)
    BY <1>17, EncodeSame DEF f
  <2> QED
    BY <1>6, <1>10, <2>1, DecodeIs
<1>20. inbox.read + w \in 0 .. Capacity
  BY <1>4, <1>5, <1>6, ConstantsAre
<1>21. inbox' \in Buffer /\ inbox'.bytes = inbox.bytes /\ inbox'.endian = inbox.endian
       /\ inbox'.read = inbox.read + w /\ inbox'.write = inbox.write
  BY <1>1, <1>5, <1>20, ReadOffsetSet
<1> QED
  BY <1>3, <1>5, <1>10, <1>18, <1>21 DEF n, w

-----------------------------------------------------------------------------
(* The start.                                                              *)

(* Nothing was sent in either direction.                                   *)
NothingSent ==
    /\ inbox.read \in Nat /\ outbox.write = 0 /\ inbox.read = inbox.write
    /\ fresh.write = 0 /\ call.done = 0
    /\ values = <<>> /\ wire = <<>> /\ arrived = <<>>
    /\ written = 0 /\ produced = 0 /\ lost = FALSE /\ givenUp = {}

(* Then the streams are empty.                                             *)
LEMMA NothingSentStreams == NothingSent => StreamsInv
<1> SUFFICES ASSUME NothingSent PROVE InStream /\ OutStream
  BY DEF StreamsInv
<1>1. Got = 0 /\ Gone = 0 /\ Waiting = 0 /\ Len(values) = 0 /\ Len(wire) = 0
      /\ Len(arrived) = 0
  BY DEF NothingSent, Got, Gone, Waiting
<1>2. Taken = 0 /\ Length(produced) = 0 /\ Length(written) = 0
  BY <1>1 DEF Taken, Length, NothingSent
<1>3. outbox.write - Gone = 0
  BY <1>1 DEF NothingSent
<1>4. InStream
  BY <1>1, <1>2, NoneHeld DEF InStream, NothingSent, OverIn
<1>5. OutStream
  BY <1>1, <1>2, <1>3, NoneHeld DEF OutStream, NothingSent, OverOut
<1> QED
  BY <1>4, <1>5

(* The invariant holds at the start, and after the socket was closed.      *)
LEMMA InitInv == Init => SocketProofInv
<1> SUFFICES ASSUME Init PROVE SocketProofInv
  OBVIOUS
<1> USE DEF Init
<1>1. Script \in Buffer
  BY ScriptIs
<1>2. nullptr \in Buffer
  BY NullIs
<1>3. call \in [op : {"none", "Send", "SendAll", "Receive", "ReceiveAll"}, done : 0 .. Capacity]
  BY ConstantsAre DEF Idle
<1>4. TypeOK
  <2>1. fresh \in Buffer /\ inbox \in Buffer /\ outbox \in Buffer
    BY <1>1, <1>2
  <2>2. wire \in Seq(Bytes) /\ arrived \in Seq(Bytes) /\ values \in Seq(0 .. MaxFields)
    OBVIOUS
  <2>3. socket \in {NoSocket} /\ al \in {NoSocket}
    OBVIOUS
  <2>4. allocated \in Nat /\ written \in Nat /\ produced \in Nat /\ lost \in BOOLEAN
        /\ datagrams \subseteq 1 .. MaxFields /\ givenUp \subseteq {"sending", "receiving"}
    OBVIOUS
  <2> HIDE DEF Init
  <2> QED
    BY <1>3, <2>1, <2>2, <2>3, <2>4 DEF TypeOK
<1>5. FlagsTrue /\ NoBufferLeaks
  BY DEF FlagsTrue, NoBufferLeaks, IsConnected
<1>6. AnswersReachSender
  BY NullIs DEF AnswersReachSender
<1>7. inbox.read = 0 /\ inbox.write = 0 /\ inbox.endian = Endian
      /\ Len(inbox.bytes) = Capacity
      /\ outbox.write = 0 /\ outbox.endian = Endian /\ Len(outbox.bytes) = Capacity
  BY ScriptIs
<1>8. fresh.write = 0 /\ Len(fresh.bytes) = 0
  BY NullIs
<1>9. Sizes
  BY <1>7, <1>8, ConstantsAre DEF Sizes
<1>10. UnderWay
  BY <1>8 DEF UnderWay, Sending, Receiving, Idle
<1>11. Unused
  BY <1>7 DEF Unused
<1>12. NothingSent
  BY <1>7, <1>8 DEF NothingSent, Idle
<1>13. StreamsInv
  BY <1>12, NothingSentStreams
<1> QED
  BY <1>4, <1>5, <1>6, <1>9, <1>10, <1>11, <1>13 DEF SocketProofInv, SocketInv

LEMMA InitInvAfter == Init' => SocketProofInv'
  BY InitInv, PTL

LEMMA NothingSentAfter == NothingSent' => StreamsInv'
  BY NothingSentStreams, PTL

(* Closing starts again.                                                   *)
LEMMA CloseDoes == SocketProofInv /\ Close => SocketProofInv'
<1> SUFFICES ASSUME NoBufferLeaks, Close PROVE Init'
  BY InitInvAfter DEF SocketProofInv, SocketInv
<1>1. allocated' = 0
  BY DEF NoBufferLeaks, Close
<1> QED
  BY <1>1 DEF Close, Init

-----------------------------------------------------------------------------
(* Every step, by the conjuncts of the invariant.                          *)

SocketType ==
    /\ socket \in {NoSocket} \cup
           [type : Types, blocking : BOOLEAN, connected : BOOLEAN, listening : BOOLEAN, endpoint : Hosts]
    /\ al \in {NoSocket} \cup [type : Types, blocking : BOOLEAN]
    /\ lost \in BOOLEAN /\ givenUp \subseteq {"sending", "receiving"}
CallType == call \in [op : {"none", "Send", "SendAll", "Receive", "ReceiveAll"}, done : 0 .. Capacity]
InType   == inbox \in Buffer /\ values \in Seq(0 .. MaxFields)
WireType == /\ wire \in Seq(Bytes) /\ datagrams \subseteq 1 .. MaxFields
            /\ produced \in Nat
OutType  == outbox \in Buffer /\ arrived \in Seq(Bytes) /\ written \in Nat
FreshType == fresh \in Buffer /\ allocated \in Nat

(* The type invariant by groups of variables.                              *)
LEMMA TypesAll == TypeOK <=> SocketType /\ CallType /\ InType /\ WireType /\ OutType
  /\ FreshType
<1>1. TypeOK => SocketType /\ CallType /\ InType /\ WireType /\ OutType /\ FreshType
  BY DEF TypeOK, SocketType, CallType, InType, WireType, OutType, FreshType
<1>2. SocketType /\ CallType /\ InType /\ WireType /\ OutType /\ FreshType => TypeOK
  BY DEF TypeOK, SocketType, CallType, InType, WireType, OutType, FreshType
<1> QED
  BY <1>1, <1>2

LEMMA TypesAllAfter ==
    (SocketType /\ CallType /\ InType /\ WireType /\ OutType /\ FreshType)' => TypeOK'
  BY TypesAll, PTL

(* The other steps.                                                        *)
LEMMA NextCases ==
    ASSUME Next, ~Close
    PROVE  \/ \E type \in Types : Open(type)
           \/ \E flag \in BOOLEAN : SetBlocking(flag)
           \/ Listen \/ Connect
           \/ \E op \in {"Send", "SendAll"} : BeginSend(op)
           \/ \E op \in {"Receive", "ReceiveAll"},
              capacity \in 1 .. Capacity : BeginReceive(op, capacity)
           \/ SendMore \/ SendNothing
           \/ ReceiveMore \/ ReceiveNothing \/ ReceiveUnconnected
           \/ WriteField \/ Collect \/ ReadField
           \/ PeerSends \/ Lose
  BY DEF Next

(* The types of the socket and of the one below it are kept.               *)
LEMMA SocketTypeStep ==
    ASSUME SocketProofInv, Next, ~Close PROVE SocketType'
<1>1. SocketType
  BY TypesAll DEF SocketProofInv, SocketInv
<1>2. ASSUME NEW type \in Types, Open(type) PROVE SocketType'
  BY <1>1, <1>2 DEF Open, SocketType, Hosts, Types, peerVars
<1>3. ASSUME NEW flag \in BOOLEAN, SetBlocking(flag) PROVE SocketType'
  BY <1>1, <1>3 DEF SetBlocking, SocketType, IsConnected, Ready, NoSocket, peerVars
<1>4. CASE Listen
  BY <1>1, <1>4 DEF Listen, SocketType, Ready, NoSocket, peerVars
<1>5. CASE Connect
  BY <1>1, <1>5 DEF Connect, SocketType, Ready, NoSocket, Hosts, Types, Is, peerVars
<1>6. CASE ReceiveMore
  <2>1. socket # NoSocket /\ socket.endpoint \in Hosts
    BY <1>1, <1>6 DEF ReceiveMore, IsConnected, SocketType
  <2>2. PICK got \in Deliveries(byte_buffer_get_capacity(fresh) - call.done) :
          socket' = [socket EXCEPT !.endpoint = got.endpoint]
    BY <1>6 DEF ReceiveMore
  <2>3. got.endpoint \in Hosts
    BY <2>1, <2>2 DEF Deliveries, Sender, Hosts
  <2>4. UNCHANGED <<al, lost, givenUp>>
    BY <1>6 DEF ReceiveMore, peerVars
  <2> QED
    BY <1>1, <2>1, <2>2, <2>3, <2>4 DEF SocketType
<1>7. CASE Lose
  BY <1>1, <1>7 DEF Lose, SocketType, socketVars
<1>8. CASE /\ UNCHANGED <<socket, al, lost>>
           /\ givenUp' \in {givenUp, givenUp \cup {"sending"}, givenUp \cup {"receiving"}}
  BY <1>1, <1>8 DEF SocketType
<1>9. \/ \E type \in Types : Open(type)
      \/ \E flag \in BOOLEAN : SetBlocking(flag)
      \/ Listen \/ Connect \/ ReceiveMore \/ Lose
      \/ /\ UNCHANGED <<socket, al, lost>>
         /\ givenUp' \in {givenUp, givenUp \cup {"sending"}, givenUp \cup {"receiving"}}
  BY NextCases DEF BeginSend, BeginReceive, SendMore, SendNothing, ReceiveNothing,
     ReceiveUnconnected, SaidClosed,
     WriteField, Collect, ReadField, PeerSends, socketVars, peerVars
<1> QED
  BY <1>2, <1>3, <1>4, <1>5, <1>6, <1>7, <1>8, <1>9

(* The flags of the extension stay true.                                   *)
LEMMA FlagsStep ==
    ASSUME SocketProofInv, Next, ~Close PROVE FlagsTrue'
<1>1. SocketType /\ FlagsTrue
  BY TypesAll DEF SocketProofInv, SocketInv
<1> USE DEF FlagsTrue, IsConnected, Is
<1>2. ASSUME NEW type \in Types, Open(type) PROVE FlagsTrue'
  BY <1>1, <1>2 DEF Open, NoSocket, Types
<1>3. ASSUME NEW flag \in BOOLEAN, SetBlocking(flag) PROVE FlagsTrue'
  BY <1>1, <1>3 DEF SetBlocking, SocketType, Ready, NoSocket, Types
<1>4. CASE Listen
  BY <1>1, <1>4 DEF Listen, SocketType, Ready, NoSocket, Types
<1>5. CASE Connect
  BY <1>1, <1>5 DEF Connect, SocketType, Ready, NoSocket, Types
<1>6. CASE ReceiveMore
  <2>1. socket # NoSocket /\ \E host : socket' = [socket EXCEPT !.endpoint = host]
    BY <1>6 DEF ReceiveMore
  <2>2. al' = al
    BY <1>6 DEF ReceiveMore
  <2> QED
    BY <1>1, <2>1, <2>2 DEF SocketType, NoSocket, Types
<1>7. CASE UNCHANGED <<socket, al>>
  BY <1>1, <1>7
<1>8. \/ \E type \in Types : Open(type)
      \/ \E flag \in BOOLEAN : SetBlocking(flag)
      \/ Listen \/ Connect \/ ReceiveMore
      \/ UNCHANGED <<socket, al>>
  BY NextCases DEF BeginSend, BeginReceive, SendMore, SendNothing, ReceiveNothing,
     ReceiveUnconnected,
     WriteField, Collect, ReadField, PeerSends, Lose, socketVars
<1> QED
  BY <1>2, <1>3, <1>4, <1>5, <1>6, <1>7, <1>8

(* A buffer of some size is not the null pointer.                          *)
LEMMA NotNull == \A b : Len(b.bytes) >= 1 => b # nullptr
  BY NullIs

(* The buffer that was allocated is handed out or released.                *)
LEMMA FreshTypeStep ==
    ASSUME SocketProofInv, Next, ~Close PROVE FreshType' /\ NoBufferLeaks'
<1>1. TypeOK /\ FreshType /\ NoBufferLeaks /\ Sizes /\ UnderWay
  BY TypesAll DEF SocketProofInv, SocketInv
<1>2. ASSUME NEW op \in {"Receive", "ReceiveAll"}, NEW capacity \in 1 .. Capacity,
             BeginReceive(op, capacity)
      PROVE  FreshType' /\ NoBufferLeaks'
  <2>1. capacity \in Nat /\ capacity >= 1
    BY ConstantsAre
  <2>2. fresh' = byte_buffer_allocate(Endian, capacity) /\ allocated = 0
        /\ allocated' = allocated + 1
    BY <1>1, <1>2 DEF BeginReceive, NoBufferLeaks
  <2>3. fresh' \in Buffer /\ Len(fresh'.bytes) = capacity
    BY <2>1, <2>2, FreshIs
  <2> QED
    BY <2>1, <2>2, <2>3, NotNull DEF FreshType, NoBufferLeaks
<1>3. CASE ReceiveMore
  <2>1. fresh' \in Buffer /\ Len(fresh'.bytes) = Len(fresh.bytes)
    BY <1>1, <1>3, ReceiveMoreDoes
  <2>2. Len(fresh.bytes) >= 1 /\ fresh # nullptr
    <3>1. call.done \in Nat /\ call.done < Len(fresh.bytes) /\ fresh # nullptr
      BY <1>1, <1>3, TypesAre, ConstantsAre DEF ReceiveMore, UnderWay
    <3>2. Len(fresh.bytes) \in Nat
      BY <1>1, TypesAre, BufferIs
    <3> QED
      BY <3>1, <3>2
  <2>3. fresh' # nullptr
    BY <2>1, <2>2, NotNull
  <2>4. allocated' = allocated
    BY <1>3 DEF ReceiveMore
  <2> QED
    BY <1>1, <2>1, <2>2, <2>3, <2>4 DEF FreshType, NoBufferLeaks
<1>4. CASE ReceiveNothing \/ Collect
  <2>1. fresh # nullptr /\ fresh' = nullptr /\ allocated' = allocated - 1
    BY <1>1, <1>4 DEF ReceiveNothing, Collect, Release, UnderWay
  <2> QED
    BY <1>1, <2>1, NullIs DEF FreshType, NoBufferLeaks
<1>5. CASE ReceiveUnconnected
  <2>1. fresh' = byte_buffer_set_write_offset(fresh, 0) /\ allocated' = allocated
    BY <1>5 DEF ReceiveUnconnected, HandOver
  <2>2. fresh # nullptr /\ Len(fresh.bytes) >= 1
    <3>1. call.done \in Nat /\ call.done < Len(fresh.bytes) /\ fresh # nullptr
      BY <1>1, <1>5, TypesAre, ConstantsAre DEF ReceiveUnconnected, UnderWay
    <3>2. Len(fresh.bytes) \in Nat
      BY <1>1, TypesAre, BufferIs
    <3> QED
      BY <3>1, <3>2
  <2>3. 0 \in 0 .. Capacity
    BY ConstantsAre
  <2>4. fresh' \in Buffer /\ fresh'.bytes = fresh.bytes
    BY <1>1, <2>1, <2>3, WriteOffsetSet DEF FreshType
  <2>5. fresh' # nullptr
    BY <2>2, <2>4, NotNull
  <2> QED
    BY <1>1, <2>1, <2>2, <2>4, <2>5 DEF FreshType, NoBufferLeaks
<1>6. CASE UNCHANGED <<fresh, allocated>>
  BY <1>1, <1>6 DEF FreshType, NoBufferLeaks
<1>7. \/ \E op \in {"Receive", "ReceiveAll"},
         capacity \in 1 .. Capacity : BeginReceive(op, capacity)
      \/ ReceiveMore \/ ReceiveNothing \/ Collect \/ ReceiveUnconnected
      \/ UNCHANGED <<fresh, allocated>>
  BY NextCases DEF Open, SetBlocking, Listen, Connect, BeginSend, SendMore, SendNothing,
     WriteField, ReadField, PeerSends, Lose, receiveVars
<1> QED
  BY <1>2, <1>3, <1>4, <1>5, <1>6, <1>7

(* A call transfers no more than fits.                                     *)
LEMMA CallTypeStep ==
    ASSUME SocketProofInv, Next, ~Close PROVE CallType'
<1>1. TypeOK /\ CallType /\ Sizes /\ UnderWay
  BY TypesAll DEF SocketProofInv, SocketInv
<1>2. Idle \in [op : {"none", "Send", "SendAll", "Receive", "ReceiveAll"}, done : 0 .. Capacity]
  BY ConstantsAre DEF Idle
<1>3. ASSUME NEW op \in {"Send", "SendAll", "Receive", "ReceiveAll"},
             call' = [op |-> op, done |-> 0]
      PROVE  CallType'
  <2>1. 0 \in 0 .. Capacity
    BY ConstantsAre
  <2> QED
    BY <1>3, <2>1 DEF CallType
<1>4. ASSUME NEW n \in 0 .. Capacity, call' = [call EXCEPT !.done = n] PROVE CallType'
  BY <1>1, <1>4 DEF CallType
<1>5. CASE SendMore
  <2>1. PICK sent \in Nat \ {0} : 
           /\ call.done + sent <= outbox.write
           /\ call' = Idle \/ call' = [call EXCEPT !.done = call.done + sent]
    BY <1>1, <1>5, SendMoreDoes
  <2>2. call.done \in Nat /\ outbox.write \in Nat /\ outbox.write <= Capacity
    BY <1>1, TypesAre, BufferIs, ConstantsAre
  <2>3. call.done + sent \in 0 .. Capacity
    BY <2>1, <2>2, ConstantsAre
  <2> QED
    BY <1>2, <1>4, <2>1, <2>3 DEF CallType
<1>6. CASE ReceiveMore
  <2>1. PICK room \in Nat : \E got \in Deliveries(room) :
           /\ room >= 1 /\ call.done + room = Len(fresh.bytes)
           /\ call' = Idle \/ call' = [call EXCEPT !.done = call.done + Len(got.bytes)]
    BY <1>1, <1>6, ReceiveMoreDoes
  <2>6. PICK got \in Deliveries(room) :
           call' = Idle \/ call' = [call EXCEPT !.done = call.done + Len(got.bytes)]
    BY <2>1
  <2>2. Len(got.bytes) \in 1 .. room
    BY <1>1, <2>1, GotIs
  <2>3. Len(fresh.bytes) <= Capacity
    BY <1>1 DEF Sizes
  <2>4. call.done \in Nat
    BY <1>1, TypesAre, ConstantsAre
  <2>5. call.done + Len(got.bytes) \in 0 .. Capacity
    BY <2>1, <2>2, <2>3, <2>4, ConstantsAre
  <2> QED
    BY <1>2, <1>4, <2>6, <2>5 DEF CallType
<1>7. CASE call' \in {call, Idle}
  BY <1>1, <1>2, <1>7 DEF CallType
<1>8. \/ \E op \in {"Send", "SendAll", "Receive", "ReceiveAll"} : call' = [op |-> op, done |-> 0]
      \/ SendMore \/ ReceiveMore \/ call' \in {call, Idle}
  BY NextCases DEF Open, SetBlocking, Listen, Connect, BeginSend, BeginReceive,
     SendNothing, ReceiveNothing,
     ReceiveUnconnected, HandOver, Return, WriteField, Collect, ReadField, PeerSends, Lose
<1> QED
  BY <1>3, <1>5, <1>6, <1>7, <1>8

(* What a step of the peer does.                                           *)
LEMMA PeerSendsDoes ==
    ASSUME TypeOK, PeerSends, Is("TCP"), "receiving" \notin givenUp
    PROVE  LET f == Encode(produced + 1, Width(produced + 1), PeerEndian)
           IN  /\ f \in Seq(Bytes) /\ wire' = wire \o f /\ produced' = produced + 1
               /\ wire' \in Seq(Bytes) /\ Len(wire') = Len(wire) + Width(produced + 1)
               /\ \A i \in 1 .. Len(wire) : wire'[i] = wire[i]
               /\ \A i \in 1 .. Width(produced + 1) : wire'[Len(wire) + i] = f[i]
<1> DEFINE f == Encode(produced + 1, Width(produced + 1), PeerEndian)
           w == Width(produced + 1)
<1>1. wire \in Seq(Bytes) /\ produced \in Nat /\ produced < MaxFields
  BY TypesAre DEF PeerSends
<1>2. f \in Seq(Bytes)
  BY <1>1, FieldIs
<1>3. Len(f) = w
  BY <1>1, FieldIs
<1>4. wire' = wire \o f /\ produced' = produced + 1
  BY DEF PeerSends
<1> HIDE DEF f, w
<1>5. wire \o f \in Seq(Bytes) /\ Len(wire \o f) = Len(wire) + Len(f)
  BY <1>1, <1>2, ConcatProperties
<1>6. \A i \in 1 .. Len(wire) + Len(f) : (wire \o f)[i] = IF i <= Len(wire) THEN wire[i] ELSE f[i - Len(wire)]
  BY <1>1, <1>2, ConcatProperties
<1>7. Len(wire) \in Nat /\ Len(f) \in Nat
  BY <1>1, <1>2
<1>8. ASSUME NEW i \in 1 .. Len(wire) PROVE (wire \o f)[i] = wire[i]
  BY <1>6, <1>7
<1>9. ASSUME NEW i \in 1 .. w PROVE (wire \o f)[Len(wire) + i] = f[i]
  <2>1. Len(wire) + i \in 1 .. Len(wire) + Len(f) /\ ~(Len(wire) + i <= Len(wire))
        /\ (Len(wire) + i) - Len(wire) = i
    BY <1>3, <1>7
  <2> QED
    BY <1>6, <2>1
<1> QED
  BY <1>2, <1>3, <1>4, <1>5, <1>8, <1>9 DEF f, w

(* The types of what is on its way are kept.                               *)
LEMMA WireTypeStep ==
    ASSUME SocketProofInv, Next, ~Close PROVE WireType'
<1>1. TypeOK /\ WireType /\ Sizes /\ UnderWay
  BY TypesAll DEF SocketProofInv, SocketInv
<1>2. CASE ReceiveMore
  <2>1. PICK room \in Nat : \E got \in Deliveries(room) :
           room >= 1 /\ wire' = got.wire /\ datagrams' = got.datagrams
    BY <1>1, <1>2, ReceiveMoreDoes
  <2>4. PICK got \in Deliveries(room) : wire' = got.wire /\ datagrams' = got.datagrams
    BY <2>1
  <2>2. got.wire \in Seq(Bytes) /\ got.datagrams \subseteq datagrams
    BY <1>1, <2>1, GotIs DEF WireType
  <2>3. produced' = produced
    BY <1>2 DEF ReceiveMore, peerVars
  <2> QED
    BY <1>1, <2>4, <2>2, <2>3 DEF WireType
<1>3. CASE PeerSends
  <2>1. produced \in Nat /\ produced' = produced + 1 /\ produced < MaxFields
    BY <1>1, <1>3 DEF PeerSends, WireType
  <2>2. wire' \in Seq(Bytes)
    <3>1. CASE Is("TCP") /\ "receiving" \notin givenUp
      BY <1>1, <1>3, <3>1, PeerSendsDoes
    <3>2. CASE ~(Is("TCP") /\ "receiving" \notin givenUp)
      BY <1>1, <1>3, <3>2 DEF PeerSends, WireType
    <3> QED
      BY <3>1, <3>2
  <2>3. produced + 1 \in 1 .. MaxFields
    BY <2>1, ConstantsAre
  <2>4. datagrams' \subseteq 1 .. MaxFields
    BY <1>1, <1>3, <2>3 DEF PeerSends, WireType
  <2> QED
    BY <2>1, <2>2, <2>4 DEF WireType
<1>4. CASE Lose \/ ReceiveNothing
  <2>1. wire' \in {wire, <<>>} /\ UNCHANGED <<datagrams, produced>>
    BY <1>4 DEF Lose, ReceiveNothing
  <2>2. <<>> \in Seq(Bytes) /\ wire \in Seq(Bytes)
    BY <1>1 DEF WireType
  <2>3. wire' \in Seq(Bytes)
    BY <2>1, <2>2
  <2> QED
    BY <1>1, <2>1, <2>3 DEF WireType
<1>5. CASE UNCHANGED <<wire, datagrams, produced>>
  BY <1>1, <1>5 DEF WireType
<1>6. ReceiveMore \/ PeerSends \/ Lose \/ ReceiveNothing
      \/ UNCHANGED <<wire, datagrams, produced>>
  BY NextCases DEF Open, SetBlocking, Listen, Connect, BeginSend, BeginReceive, SendMore,
     SendNothing,
     ReceiveUnconnected, WriteField, Collect, ReadField, receiveVars,
       peerVars
<1> QED
  BY <1>2, <1>3, <1>4, <1>5, <1>6

(* What a step of sending does to the bytes that arrived.                  *)
LEMMA SendMoreArrives ==
    ASSUME TypeOK, Sizes, UnderWay, SendMore
    PROVE  \E sent \in Nat \ {0}, done2 \in Nat :
             /\ call.done + sent <= outbox.write
             /\ \/ call' = Idle /\ done2 = 0
                \/ call.op = "SendAll"
                   /\ call' = [call EXCEPT !.done = call.done + sent]
                   /\ done2 = call.done + sent
             /\ outbox'.write = done2 + (outbox.write - (call.done + sent))
             /\ \A i \in 1 .. outbox.write - (call.done + sent) :
                   outbox'.bytes[done2 + i] = outbox.bytes[call.done + (sent + i)]
             /\ IF Is("TCP") /\ ~lost
                THEN /\ arrived' \in Seq(Bytes) /\ Len(arrived') = Len(arrived) + sent
                     /\ \A i \in 1 .. Len(arrived) : arrived'[i] = arrived[i]
                     /\ \A i \in 1 .. sent : arrived'[Len(arrived) + i] = outbox.bytes[call.done + i]
                ELSE arrived' = arrived
<1>1. PICK sent \in Nat \ {0}, done2 \in Nat :
        /\ call.done + sent <= outbox.write
        /\ \/ call' = Idle /\ done2 = 0
           \/ call.op = "SendAll" /\ call' = [call EXCEPT !.done = call.done + sent]
              /\ done2 = call.done + sent
        /\ outbox'.write = done2 + (outbox.write - (call.done + sent))
        /\ \A i \in 1 .. outbox.write - (call.done + sent) :
              outbox'.bytes[done2 + i] = outbox.bytes[call.done + (sent + i)]
        /\ arrived' = IF Is("TCP") /\ ~lost
                      THEN arrived \o SubSeq(outbox.bytes, call.done + 1, call.done + sent)
                      ELSE arrived
  BY SendMoreDoes
<1>2. outbox \in Buffer /\ outbox.bytes \in Seq(Bytes) /\ arrived \in Seq(Bytes)
      /\ call.done \in Nat
  BY TypesAre, BufferIs, ConstantsAre
<1>3. Len(outbox.bytes) = Capacity /\ outbox.write <= Capacity /\ outbox.write \in Nat
  BY <1>2, BufferIs DEF Sizes
<1> DEFINE done == call.done
           new == SubSeq(outbox.bytes, done + 1, done + sent)
<1>4. done \in Nat /\ sent \in Nat /\ done + sent <= Len(outbox.bytes)
  BY <1>1, <1>2, <1>3, ConstantsAre
<1> HIDE DEF done
<1>9. new = SubSeq(outbox.bytes, done + 1, done + sent)
  OBVIOUS
<1> DEFINE bytes == outbox.bytes
<1>11. bytes \in Seq(Bytes) /\ done + sent <= Len(bytes)
      /\ new = SubSeq(bytes, done + 1, done + sent)
  BY <1>2, <1>4, <1>9
<1> HIDE DEF new, bytes
<1>10. new \in Seq(Bytes) /\ Len(new) = sent /\ \A i \in 1 .. sent : new[i] = bytes[done + i]
  BY <1>4, <1>11, PartIs, SMTT(30)
<1>5. new \in Seq(Bytes) /\ Len(new) = sent
  BY <1>10
<1>6. \A i \in 1 .. sent : new[i] = outbox.bytes[done + i]
  BY <1>10 DEF bytes
<1>7. CASE Is("TCP") /\ ~lost
  <2>1. arrived' = arrived \o new
    BY <1>1, <1>7 DEF new, done
  <2>2. arrived' \in Seq(Bytes) /\ Len(arrived') = Len(arrived) + Len(new)
    BY <1>2, <1>5, <2>1, ConcatProperties
  <2>3. \A i \in 1 .. Len(arrived) + Len(new) :
           arrived'[i] = IF i <= Len(arrived) THEN arrived[i] ELSE new[i - Len(arrived)]
    BY <1>2, <1>5, <2>1, ConcatProperties
  <2>4. Len(arrived) \in Nat /\ Len(new) \in Nat
    BY <1>2, <1>5
  <2>5. ASSUME NEW i \in 1 .. Len(arrived) PROVE arrived'[i] = arrived[i]
    BY <2>3, <2>4
  <2>6. ASSUME NEW i \in 1 .. sent
               PROVE arrived'[Len(arrived) + i] = outbox.bytes[done + i]
    <3>1. Len(arrived) + i \in 1 .. Len(arrived) + Len(new)
          /\ ~(Len(arrived) + i <= Len(arrived))
          /\ (Len(arrived) + i) - Len(arrived) = i
      BY <1>5, <2>4
    <3>2. arrived'[Len(arrived) + i] = new[i]
      BY <2>3, <3>1
    <3> QED
      BY <1>6, <3>2
  <2> QED
    BY <1>1, <1>5, <1>7, <2>2, <2>5, <2>6 DEF done
<1>8. CASE ~(Is("TCP") /\ ~lost)
  BY <1>1, <1>8
<1> QED
  BY <1>7, <1>8

(* The types of what is sent are kept.                                     *)
LEMMA OutTypeStep ==
    ASSUME SocketProofInv, Next, ~Close PROVE OutType' /\ outbox'.endian = Endian
           /\ Len(outbox'.bytes) = Capacity
<1>1. TypeOK /\ OutType /\ Sizes /\ UnderWay /\ outbox.endian = Endian
      /\ Len(outbox.bytes) = Capacity
  BY TypesAll DEF SocketProofInv, SocketInv, Sizes
<1>2. CASE SendMore
  <2>1. outbox' \in Buffer /\ outbox'.endian = Endian /\ Len(outbox'.bytes) = Capacity
    BY <1>1, <1>2, SendMoreDoes
  <2>2. arrived' \in Seq(Bytes)
    BY <1>1, <1>2, SendMoreArrives DEF OutType
  <2>3. written' = written
    BY <1>2 DEF SendMore
  <2> QED
    BY <1>1, <2>1, <2>2, <2>3 DEF OutType
<1>3. CASE WriteField
  <2>1. outbox' \in Buffer /\ outbox'.endian = Endian /\ Len(outbox'.bytes) = Capacity
    BY <1>1, <1>3, WriteFieldDoes
  <2>2. written' = written + 1 /\ arrived' = arrived
    BY <1>3 DEF WriteField
  <2> QED
    BY <1>1, <2>1, <2>2 DEF OutType
<1>4. CASE UNCHANGED outVars
  BY <1>1, <1>4 DEF OutType, outVars
<1>5. SendMore \/ WriteField \/ UNCHANGED outVars
  BY NextCases DEF Open, SetBlocking, Listen, Connect, BeginSend, BeginReceive,
     SendNothing, ReceiveMore,
     ReceiveNothing, ReceiveUnconnected, Collect, ReadField, PeerSends, Lose
<1> QED
  BY <1>2, <1>3, <1>4, <1>5

(* The script reads a field only when it is connected over TCP.            *)
LEMMA OnlyTCPReads ==
    ASSUME SocketProofInv, ReadField
    PROVE  Is("TCP") /\ InStream
<1>1. TypeOK /\ Unused /\ StreamsInv /\ SocketType /\ Sizes
  BY TypesAll DEF SocketProofInv, SocketInv
<1>2. socket # NoSocket
  BY DEF ReadField, Ready
<1>3. inbox.read + Width(Len(values) + 1) <= inbox.write
  BY DEF ReadField
<1>4. inbox.read \in Nat /\ inbox.write \in Nat
  BY <1>1, TypesAre, BufferIs
<1>5. inbox.read # inbox.write
  BY <1>3, <1>4 DEF Width
<1>6. Is("TCP")
  BY <1>1, <1>2, <1>5 DEF Unused, SocketType, Is, Types
<1> QED
  BY <1>1, <1>6 DEF StreamsInv

(* The types of what the script reads are kept.                            *)
LEMMA InTypeStep ==
    ASSUME SocketProofInv, Next, ~Close
    PROVE  InType' /\ inbox'.endian = Endian /\ Len(inbox'.bytes) = Capacity
           /\ inbox'.read <= inbox'.write
<1>1. TypeOK /\ InType /\ Sizes /\ inbox.endian = Endian /\ Len(inbox.bytes) = Capacity
      /\ inbox.read <= inbox.write
  BY TypesAll DEF SocketProofInv, SocketInv, Sizes
<1>2. CASE Collect /\ Is("TCP")
  <2>1. PICK from \in Nat :
             /\ inbox' \in Buffer /\ inbox'.endian = Endian
                /\ Len(inbox'.bytes) = Capacity
             /\ inbox'.read = from /\ inbox'.write = from + (Waiting + fresh.write)
    BY <1>1, <1>2, CollectDoes
  <2>2. Waiting \in Nat /\ fresh.write \in Nat
    <3>1. inbox.read \in Nat /\ inbox.write \in Nat /\ fresh.write \in Nat
      BY <1>1, TypesAre, BufferIs
    <3> QED
      BY <1>1, <3>1 DEF Waiting
  <2>3. inbox'.read <= inbox'.write
    BY <2>1, <2>2
  <2>4. values' = values
    BY <1>2 DEF Collect
  <2> QED
    BY <1>1, <2>1, <2>3, <2>4 DEF InType
<1>3. CASE ReadField
  <2>1. InStream
    BY <1>3, OnlyTCPReads
  <2> DEFINE w == Width(Len(values) + 1)
  <2>2. /\ inbox' \in Buffer /\ inbox'.endian = Endian /\ Len(inbox'.bytes) = Capacity
        /\ inbox'.read = inbox.read + w /\ inbox.read + w <= inbox.write
           /\ inbox'.write = inbox.write
        /\ Len(values) + 1 <= MaxFields
        /\ values' = Append(values, Len(values) + 1)
    BY <1>1, <1>3, <2>1, ReadFieldDoes
  <2>3. values \in Seq(0 .. MaxFields) /\ Len(values) \in Nat
    BY <1>1 DEF InType
  <2>4. Len(values) + 1 \in 0 .. MaxFields
    BY <2>2, <2>3, ConstantsAre
  <2>5. values' \in Seq(0 .. MaxFields)
    BY <2>2, <2>3, <2>4, AppendProperties
  <2> QED
    BY <2>2, <2>5 DEF InType
<1>4. CASE UNCHANGED inVars
  BY <1>1, <1>4 DEF InType, inVars
<1>5. (Collect /\ Is("TCP")) \/ ReadField \/ UNCHANGED inVars
  <2>1. Collect /\ ~Is("TCP") => UNCHANGED inVars
    BY DEF Collect, inVars
  <2> QED
    BY <2>1, NextCases DEF Open, SetBlocking, Listen, Connect, BeginSend, BeginReceive,
       SendMore, SendNothing,
     ReceiveMore, ReceiveNothing, ReceiveUnconnected, WriteField, PeerSends, Lose
<1> QED
  BY <1>2, <1>3, <1>4, <1>5

(* All types are kept.                                                     *)
LEMMA SocketTypesStep ==
    ASSUME SocketProofInv, Next, ~Close PROVE TypeOK'
  BY SocketTypeStep, CallTypeStep, InTypeStep, WireTypeStep, OutTypeStep, FreshTypeStep,
     TypesAllAfter

(* The offsets stay within the buffers.                                    *)
LEMMA SizesStep ==
    ASSUME SocketProofInv, Next, ~Close PROVE Sizes'
<1>1. TypeOK /\ Sizes /\ UnderWay
  BY DEF SocketProofInv, SocketInv
<1>2. Len(fresh'.bytes) <= Capacity /\ fresh'.write <= Len(fresh'.bytes)
  <2>1. Len(fresh.bytes) <= Capacity /\ fresh.write <= Len(fresh.bytes)
        /\ Len(fresh.bytes) \in Nat
    BY <1>1, TypesAre, BufferIs DEF Sizes
  <2>2. ASSUME NEW op \in {"Receive", "ReceiveAll"}, NEW capacity \in 1 .. Capacity,
               BeginReceive(op, capacity)
        PROVE  Len(fresh'.bytes) <= Capacity /\ fresh'.write <= Len(fresh'.bytes)
    <3>1. capacity \in Nat /\ capacity <= Capacity
      BY ConstantsAre
    <3>2. fresh' = byte_buffer_allocate(Endian, capacity)
      BY <2>2 DEF BeginReceive
    <3>3. fresh'.write = 0 /\ Len(fresh'.bytes) = capacity
      BY <3>1, <3>2, FreshIs
    <3> QED
      BY <3>1, <3>3
  <2>3. CASE ReceiveMore
    <3>1. PICK room \in Nat : \E got \in Deliveries(room) :
             /\ room >= 1 /\ call.done + room = Len(fresh.bytes)
                /\ Len(fresh'.bytes) = Len(fresh.bytes)
             /\ fresh'.write = call.done + Len(got.bytes) \/ fresh'.write = fresh.write
      BY <1>1, <2>3, ReceiveMoreDoes
    <3>2. PICK got \in Deliveries(room) :
             fresh'.write = call.done + Len(got.bytes) \/ fresh'.write = fresh.write
      BY <3>1
    <3>3. Len(got.bytes) \in 1 .. room
      BY <1>1, <3>1, GotIs
    <3>4. call.done \in Nat
      BY <1>1, TypesAre, ConstantsAre
    <3>5. call.done + Len(got.bytes) <= Len(fresh.bytes)
      BY <3>1, <3>3, <3>4
    <3> QED
      BY <2>1, <3>1, <3>2, <3>5
  <2>4. CASE fresh' = nullptr
    BY <2>4, NullIs, ConstantsAre
  <2>5. CASE ReceiveUnconnected
    <3>1. fresh' = byte_buffer_set_write_offset(fresh, 0) /\ 0 \in 0 .. Capacity
      BY <2>5, ConstantsAre DEF ReceiveUnconnected, HandOver
    <3>2. fresh'.bytes = fresh.bytes /\ fresh'.write = 0
      BY <1>1, <3>1, TypesAre, WriteOffsetSet
    <3> QED
      BY <2>1, <3>2
  <2>6. CASE fresh' = fresh
    BY <2>1, <2>6
  <2>7. \/ \E op \in {"Receive", "ReceiveAll"},
           capacity \in 1 .. Capacity : BeginReceive(op, capacity)
        \/ ReceiveMore \/ ReceiveUnconnected
        \/ fresh' \in {fresh, nullptr}
    BY NextCases DEF Open, SetBlocking, Listen, Connect, BeginSend, SendMore,
       SendNothing, ReceiveNothing,
       Collect, Release, WriteField, ReadField, PeerSends, Lose, receiveVars
  <2> QED
    BY <2>2, <2>3, <2>4, <2>5, <2>6, <2>7
<1>3. written' <= MaxFields /\ produced' <= MaxFields
  <2>1. /\ written' = written \/ (written < MaxFields /\ written' = written + 1)
        /\ produced' = produced \/ (produced < MaxFields /\ produced' = produced + 1)
    BY NextCases DEF Open, SetBlocking, Listen, Connect, BeginSend, BeginReceive,
       SendMore, SendNothing,
       ReceiveMore, ReceiveNothing, ReceiveUnconnected, WriteField, Collect, ReadField,
         PeerSends, Lose,
       outVars, peerVars
  <2>2. written \in Nat /\ produced \in Nat /\ written <= MaxFields
        /\ produced <= MaxFields
    BY <1>1, TypesAre DEF Sizes
  <2> QED
    BY <2>1, <2>2, ConstantsAre
<1> QED
  BY <1>2, <1>3, InTypeStep, OutTypeStep DEF Sizes

(* A socket keeps its type, and its connection until it is closed.         *)
LEMMA SocketKept ==
    ASSUME SocketProofInv, Next, ~Close
    PROVE  /\ socket' # NoSocket
           /\ socket # NoSocket => socket'.type = socket.type
           /\ IsConnected => IsConnected'
<1>1. SocketType /\ Unused /\ UnderWay
  BY TypesAll DEF SocketProofInv, SocketInv
<1>2. ASSUME NEW type \in Types, Open(type) PROVE socket' # NoSocket /\ socket = NoSocket
  BY <1>2 DEF Open, NoSocket
<1>3. CASE /\ socket # NoSocket
           /\ \/ \E flag \in BOOLEAN : socket' = [socket EXCEPT !.blocking = flag]
              \/ socket' = [socket EXCEPT !.listening = TRUE]
              \/ \E host : socket' = [socket EXCEPT !.endpoint = host]
              \/ \E host : socket' = [socket EXCEPT !.connected = TRUE, !.endpoint = host]
              \/ socket' = socket
  BY <1>1, <1>3 DEF SocketType, NoSocket, Types, IsConnected
<1>4. \/ \E type \in Types : Open(type)
      \/ \E flag \in BOOLEAN : socket' = [socket EXCEPT !.blocking = flag]
      \/ socket' = [socket EXCEPT !.listening = TRUE]
      \/ \E host : socket' = [socket EXCEPT !.endpoint = host]
      \/ \E host : socket' = [socket EXCEPT !.connected = TRUE, !.endpoint = host]
      \/ socket' = socket
  BY NextCases DEF SetBlocking, Listen, Connect, ReceiveMore, BeginSend, BeginReceive,
     SendMore, SendNothing,
     ReceiveNothing, ReceiveUnconnected, WriteField, Collect, ReadField, PeerSends, Lose,
       socketVars
<1>5. (\E type \in Types : Open(type)) \/ socket # NoSocket
  <2>1. socket = NoSocket => ~Sending /\ ~Receiving
    BY <1>1, OpsDiffer DEF Unused
  <2> QED
    BY <2>1, NextCases DEF SetBlocking, Listen, Connect, BeginSend, BeginReceive,
       SendMore, SendNothing,
       ReceiveMore, ReceiveNothing, ReceiveUnconnected, WriteField, Collect, ReadField,
         PeerSends, Lose,
       Ready, IsConnected
<1>6. (\E type \in Types : Open(type)) => socket' # NoSocket /\ socket = NoSocket
  BY <1>2
<1>7. socket = NoSocket => ~IsConnected
  BY DEF IsConnected
<1> QED
  BY <1>3, <1>4, <1>5, <1>6, <1>7

(* What is behind the write offset of the buffer the script was handed.    *)
LEMMA AnswersStep ==
    ASSUME SocketProofInv, Next, ~Close PROVE AnswersReachSender'
<1>1. TypeOK /\ SocketType /\ Sizes /\ UnderWay /\ Unused /\ AnswersReachSender
  BY TypesAll DEF SocketProofInv, SocketInv
<1>2. fresh.write \in Nat /\ call.done \in Nat
  BY <1>1, TypesAre, BufferIs, ConstantsAre
<1>3. CASE ReceiveMore
  <2>1. PICK room \in Nat : \E got \in Deliveries(room) :
             /\ room >= 1
             /\ socket' = [socket EXCEPT !.endpoint = got.endpoint]
             /\ \A i \in 1 .. Len(got.bytes) : fresh'.bytes[call.done + i] = got.bytes[i]
             /\ fresh'.write = call.done + Len(got.bytes) \/ fresh'.write = fresh.write
    BY <1>1, <1>3, ReceiveMoreDoes
  <2>2. PICK got \in Deliveries(room) :
             /\ socket' = [socket EXCEPT !.endpoint = got.endpoint]
             /\ \A i \in 1 .. Len(got.bytes) : fresh'.bytes[call.done + i] = got.bytes[i]
             /\ fresh'.write = call.done + Len(got.bytes) \/ fresh'.write = fresh.write
    BY <2>1
  <2>3. Len(got.bytes) \in 1 .. room
    BY <1>1, <2>1, GotIs
  <2>4. ~Is("TCP") => got.endpoint = Sender(got.bytes[Len(got.bytes)].value)
    BY <1>1, <2>1, GotIs
  <2>5. socket # NoSocket /\ fresh.write = 0
    BY <1>1, <1>3 DEF ReceiveMore, IsConnected, UnderWay
  <2>6. socket'.endpoint = got.endpoint /\ socket'.type = socket.type
    BY <1>1, <2>2, <2>5 DEF SocketType
  <2>7. SUFFICES ASSUME Is("UDP")', fresh'.write > 0
                 PROVE  socket'.endpoint = Sender(fresh'.bytes[fresh'.write].value)
    BY DEF AnswersReachSender
  <2>8. fresh'.write = call.done + Len(got.bytes)
    BY <2>2, <2>5, <2>7
  <2>9. Len(got.bytes) \in 1 .. Len(got.bytes)
    BY <2>3
  <2>10. fresh'.bytes[fresh'.write] = got.bytes[Len(got.bytes)]
    BY <2>2, <2>8, <2>9
  <2>11. ~Is("TCP")
    BY <2>6, <2>7 DEF Is
  <2> QED
    BY <2>4, <2>6, <2>10, <2>11
<1>4. CASE fresh'.write = 0
  BY <1>4 DEF AnswersReachSender
<1>5. CASE fresh.write = 0 /\ fresh' = fresh
  BY <1>4, <1>5
<1>6. CASE fresh' = fresh /\ socket' \in {socket, [socket EXCEPT !.listening = TRUE]}
                                      \cup {[socket EXCEPT !.blocking = flag] : flag \in BOOLEAN}
  BY <1>1, <1>6 DEF AnswersReachSender, Is, SocketType, NoSocket, Types
<1>7. ASSUME NEW type \in Types, Open(type) PROVE fresh.write = 0 /\ fresh' = fresh
  BY <1>1, <1>7, NullIs DEF Open, Unused, receiveVars
<1>8. Connect => fresh.write = 0 /\ fresh' = fresh
  BY <1>1 DEF Connect, UnderWay, receiveVars
<1>9. ASSUME NEW op \in {"Receive", "ReceiveAll"}, NEW capacity \in 1 .. Capacity,
               BeginReceive(op, capacity)
      PROVE  fresh'.write = 0
  <2>1. capacity \in Nat
    BY ConstantsAre
  <2>2. fresh' = byte_buffer_allocate(Endian, capacity)
    BY <1>9 DEF BeginReceive
  <2> QED
    BY <2>1, <2>2, FreshIs
<1>10. ReceiveNothing \/ Collect => fresh'.write = 0
  BY NullIs DEF ReceiveNothing, Collect, Release
<1>11. ReceiveUnconnected => fresh'.write = 0
  <2>1. SUFFICES ASSUME ReceiveUnconnected PROVE fresh'.write = 0
    OBVIOUS
  <2>2. fresh' = byte_buffer_set_write_offset(fresh, 0) /\ 0 \in 0 .. Capacity
    BY <2>1, ConstantsAre DEF ReceiveUnconnected, HandOver
  <2> QED
    BY <1>1, <2>2, TypesAre, WriteOffsetSet
<1>12. CASE \/ SendMore \/ SendNothing \/ WriteField \/ ReadField \/ PeerSends \/ Lose
            \/ \E op \in {"Send", "SendAll"} : BeginSend(op)
  <2>1. UNCHANGED <<fresh, socket>>
    BY <1>12 DEF SendMore, SendNothing, WriteField, ReadField, PeerSends, Lose,
       BeginSend, socketVars, receiveVars
  <2> QED
    BY <1>6, <2>1
<1>13. Listen \/ (\E flag \in BOOLEAN : SetBlocking(flag)) =>
         fresh' = fresh /\ socket' \in {socket, [socket EXCEPT !.listening = TRUE]}
                                      \cup {[socket EXCEPT !.blocking = flag] : flag \in BOOLEAN}
  BY DEF Listen, SetBlocking, receiveVars
<1> QED
  BY <1>3, <1>4, <1>5, <1>6, <1>7, <1>8, <1>9, <1>10, <1>11, <1>12, <1>13, NextCases

(* A call that transfers all of a buffer ends when it has.                 *)
LEMMA CallsStep ==
    ASSUME SocketProofInv, Next, ~Close PROVE UnderWay'
<1>1. TypeOK /\ SocketType /\ Sizes /\ UnderWay /\ Unused /\ NoBufferLeaks
  BY TypesAll DEF SocketProofInv, SocketInv
<1>2. fresh.write \in Nat /\ call.done \in Nat /\ outbox.write \in Nat
      /\ Len(fresh.bytes) \in Nat
  BY <1>1, TypesAre, BufferIs, ConstantsAre
<1>3. IsConnected => IsConnected'
  BY SocketKept
<1>4. ASSUME call' = Idle, fresh'.write = 0 \/ IsConnected PROVE UnderWay'
  BY <1>3, <1>4 DEF UnderWay, Sending, Receiving, Idle
<1>5. ASSUME call' = call, fresh' = fresh, outbox' = outbox, givenUp' = givenUp PROVE UnderWay'
  BY <1>1, <1>3, <1>5 DEF UnderWay, Sending, Receiving
<1>6. ASSUME call = Idle, call' = Idle, fresh'.write = 0 \/ fresh' = fresh PROVE UnderWay'
  BY <1>1, <1>3, <1>6 DEF UnderWay, Sending, Receiving, Idle
<1>7. ASSUME NEW op \in {"Send", "SendAll"}, BeginSend(op) PROVE UnderWay'
  BY <1>1, <1>2, <1>3, <1>7 DEF BeginSend, UnderWay, Sending, Receiving, receiveVars, outVars,
     peerVars
<1>8. ASSUME NEW op \in {"Receive", "ReceiveAll"}, NEW capacity \in 1 .. Capacity,
             BeginReceive(op, capacity)
      PROVE  UnderWay'
  <2>1. capacity \in Nat /\ capacity >= 1
    BY ConstantsAre
  <2>2. fresh' = byte_buffer_allocate(Endian, capacity) /\ call' = [op |-> op, done |-> 0]
    BY <1>8 DEF BeginReceive
  <2>3. fresh'.write = 0 /\ Len(fresh'.bytes) = capacity
    BY <2>1, <2>2, FreshIs
  <2>4. fresh' # nullptr
    BY <2>1, <2>3, NotNull
  <2>5. "receiving" \notin givenUp'
    BY <1>8 DEF BeginReceive, peerVars
  <2> QED
    BY <2>1, <2>2, <2>3, <2>4, <2>5 DEF UnderWay, Sending, Receiving
<1>9. CASE SendMore
  <2>1. PICK sent \in Nat \ {0}, done2 \in Nat :
             /\ call.done + sent <= outbox.write
             /\ \/ call' = Idle
                \/ call' = [call EXCEPT !.done = call.done + sent] /\ outbox' = outbox
                   /\ call.op = "SendAll" /\ call.done + sent < outbox.write
    BY <1>1, <1>9, SendMoreDoes
  <2>2. IsConnected /\ "sending" \notin givenUp'
    BY <1>1, <1>9 DEF SendMore, UnderWay, peerVars
  <2>3. ASSUME call' = [call EXCEPT !.done = call.done + sent], outbox' = outbox,
               call.op = "SendAll",
               call.done + sent < outbox.write
        PROVE  UnderWay'
    <3>1. call'.op = "SendAll" /\ call'.done = call.done + sent
      BY <1>1, <2>3, TypesAre
    <3> QED
      BY <1>3, <2>2, <2>3, <3>1 DEF UnderWay, Sending, Receiving
  <2> QED
    BY <1>4, <2>1, <2>2, <2>3
<1>10. CASE ReceiveMore
  <2>1. PICK room \in Nat : \E got \in Deliveries(room) :
             /\ Len(fresh'.bytes) = Len(fresh.bytes)
             /\ \/ call' = Idle
                \/ /\ call.op = "ReceiveAll"
                      /\ call' = [call EXCEPT !.done = call.done + Len(got.bytes)]
                   /\ fresh'.write = fresh.write
                      /\ call.done + Len(got.bytes) < Len(fresh.bytes)
    BY <1>1, <1>10, ReceiveMoreDoes
  <2>2. IsConnected /\ Receiving /\ givenUp' = givenUp
    BY <1>10 DEF ReceiveMore, peerVars
  <2>3. ASSUME NEW k, call.op = "ReceiveAll", call' = [call EXCEPT !.done = k],
               fresh'.write = fresh.write, k < Len(fresh.bytes)
        PROVE  UnderWay'
    <3>1. call'.op = "ReceiveAll" /\ call'.done = k
      BY <1>1, <2>3, TypesAre
    <3>2. Len(fresh'.bytes) >= 1
      BY <1>1, <1>2, <2>1, <2>2 DEF UnderWay
    <3>3. fresh' # nullptr
      BY <3>2, NotNull
    <3> QED
      BY <1>1, <1>3, <2>1, <2>2, <2>3, <3>1, <3>3 DEF UnderWay, Sending, Receiving
  <2> QED
    BY <1>4, <2>1, <2>2, <2>3
<1>11. ReceiveUnconnected \/ ReceiveNothing => call' = Idle /\ (fresh'.write = 0
       \/ IsConnected)
  <2>1. SUFFICES ASSUME ReceiveUnconnected PROVE call' = Idle /\ fresh'.write = 0
    BY DEF ReceiveNothing, Return
  <2>2. call' = Idle /\ fresh' = byte_buffer_set_write_offset(fresh, 0)
        /\ 0 \in 0 .. Capacity
    BY <2>1, ConstantsAre DEF ReceiveUnconnected, HandOver, Return
  <2> QED
    BY <1>1, <2>2, TypesAre, WriteOffsetSet
<1>12. SendNothing => call' = Idle /\ IsConnected
  BY <1>1 DEF SendNothing, Return, UnderWay
<1>13. WriteField \/ Collect => call = Idle /\ call' = Idle /\ (fresh'.write = 0
       \/ fresh' = fresh)
  BY NullIs DEF WriteField, Collect, Release, Ready, receiveVars
<1>14. CASE \/ \E type \in Types : Open(type)
            \/ \E flag \in BOOLEAN : SetBlocking(flag)
            \/ Listen \/ Connect \/ ReadField \/ PeerSends \/ Lose
  <2>1. UNCHANGED <<call, fresh, outbox, givenUp>>
    BY <1>14 DEF Open, SetBlocking, Listen, Connect, ReadField, PeerSends, Lose,
       receiveVars, outVars, peerVars
  <2> QED
    BY <1>5, <2>1
<1> QED
  BY <1>4, <1>6, <1>7, <1>8, <1>9, <1>10, <1>11, <1>12, <1>13, <1>14, NextCases

(* What only TCP uses stays unused without it.                             *)
LEMMA UnusedStep ==
    ASSUME SocketProofInv, Next, ~Close PROVE Unused'
<1>1. TypeOK /\ SocketType /\ Sizes /\ UnderWay /\ Unused
  BY TypesAll DEF SocketProofInv, SocketInv
<1>2. socket' # NoSocket /\ (socket # NoSocket => socket'.type = socket.type)
  BY SocketKept
<1>3. SUFFICES ASSUME Is("UDP")'
               PROVE  UNCHANGED <<inbox, values, wire, arrived>>
  BY <1>1, <1>2 DEF Unused, Is
<1>4. (\E type \in Types : Open(type)) => UNCHANGED <<inbox, values, wire, arrived>>
  BY DEF Open, receiveVars, inVars, outVars
<1>5. ASSUME socket # NoSocket PROVE Is("UDP") /\ ~Is("TCP")
  BY <1>2, <1>3, <1>5 DEF Is
<1>6. CASE SendMore
  <2>1. socket # NoSocket
    BY <1>1, <1>6, OpsDiffer DEF SendMore, Unused
  <2> QED
    BY <1>5, <1>6, <2>1 DEF SendMore, receiveVars, inVars
<1>7. CASE ReceiveMore
  <2>1. socket # NoSocket
    BY <1>7 DEF ReceiveMore, IsConnected
  <2>2. PICK room \in Nat : \E got \in Deliveries(room) : room >= 1 /\ wire' = got.wire
    BY <1>1, <1>7, ReceiveMoreDoes
  <2>3. wire' = wire
    BY <1>1, <1>5, <2>1, <2>2, GotIs
  <2> QED
    BY <1>7, <2>3 DEF ReceiveMore, inVars, outVars
<1>8. Collect => UNCHANGED <<inbox, values, wire, arrived>>
  BY <1>5 DEF Collect, outVars, Ready
<1>9. ~ReadField
  BY <1>5, OnlyTCPReads DEF ReadField, Ready
<1>10. PeerSends => UNCHANGED <<inbox, values, wire, arrived>>
  BY <1>5 DEF PeerSends, inVars, outVars, IsConnected
<1>11. ~Lose
  BY <1>5 DEF Lose, IsConnected
<1>12. CASE \/ \E flag \in BOOLEAN : SetBlocking(flag)
            \/ Listen \/ Connect \/ SendNothing
               \/ ReceiveUnconnected \/ WriteField
            \/ \E op \in {"Send", "SendAll"} : BeginSend(op)
            \/ \E op \in {"Receive", "ReceiveAll"},
               capacity \in 1 .. Capacity : BeginReceive(op, capacity)
  BY <1>12 DEF SetBlocking, Listen, Connect, SendNothing,
     ReceiveUnconnected, WriteField,
     BeginSend, BeginReceive, receiveVars, inVars, outVars
<1>13. ReceiveNothing => UNCHANGED <<inbox, values, wire, arrived>>
  BY <1>1, <1>5 DEF ReceiveNothing, IsConnected, Unused, inVars, outVars
<1> QED
  BY <1>4, <1>6, <1>7, <1>8, <1>9, <1>10, <1>11, <1>12, <1>13, NextCases

-----------------------------------------------------------------------------
(* The bytes, on both ways.                                                *)

(* The lengths are numbers.                                                *)
LEMMA NaturalsAre ==
    ASSUME TypeOK, Sizes, UnderWay
    PROVE  /\ Got \in Nat /\ Gone \in Nat /\ Waiting \in Nat /\ Taken \in Nat
           /\ Len(wire) \in Nat /\ Len(arrived) \in Nat /\ Len(values) \in Nat
           /\ Length(produced) \in Nat /\ Length(written) \in Nat
           /\ outbox.write \in Nat /\ Gone <= outbox.write /\ outbox.write - Gone \in Nat
<1>1. call.done \in Nat /\ fresh.write \in Nat /\ inbox.read \in Nat
      /\ inbox.write \in Nat /\ outbox.write \in Nat
  BY TypesAre, BufferIs, ConstantsAre
<1>2. wire \in Seq(Bytes) /\ arrived \in Seq(Bytes) /\ values \in Seq(0 .. MaxFields)
      /\ produced \in Nat /\ written \in Nat
  BY TypesAre
<1>3. inbox.read <= inbox.write /\ (Sending => call.done < outbox.write)
  BY DEF Sizes, UnderWay
<1>4. Len(wire) \in Nat /\ Len(arrived) \in Nat /\ Len(values) \in Nat
  BY <1>2
<1>5. \A n \in Nat : Length(n) \in Nat
  BY DEF Length
<1>6. Gone \in Nat /\ Gone <= outbox.write
  BY <1>1, <1>3 DEF Gone
<1>7. Waiting \in Nat
  BY <1>1, <1>3 DEF Waiting
<1>8. Got \in Nat
  BY <1>1 DEF Got
<1>9. outbox.write - Gone \in Nat
  BY <1>1, <1>6
<1>10. Taken \in Nat /\ Length(produced) \in Nat /\ Length(written) \in Nat
  BY <1>2, <1>4, <1>5 DEF Taken
<1> QED
  BY <1>1, <1>4, <1>6, <1>7, <1>8, <1>9, <1>10

(* How many bytes there are between the two sides, and at most how many.   *)
InLength  == Taken + Waiting + Got + Len(wire)
OutLength == Len(arrived) + (outbox.write - Gone)

(* The two halves of StreamsInv, by the sums of the lengths.               *)
LEMMA InStreamIs ==
    InStream <=>
    /\ \A i \in 1 .. Len(values) : values[i] = i
    /\ Holds(inbox.bytes, inbox.read, Waiting, Taken)
    /\ Holds(fresh.bytes, 0, Got, Taken + Waiting)
    /\ Holds(wire, 0, Len(wire), Taken + Waiting + Got)
    /\ IF OverIn THEN InLength <= Length(produced) ELSE InLength = Length(produced)
  BY DEF InStream, InLength

LEMMA OutStreamIs ==
    OutStream <=>
    /\ Holds(arrived, 0, Len(arrived), 0)
    /\ Len(arrived) <= Length(written)
    /\ ~OverOut => OutLength = Length(written)
       /\ Holds(outbox.bytes, Gone, outbox.write - Gone, Len(arrived))
  BY DEF OutStream, OutLength

LEMMA InStreamIsAfter ==
    ( /\ \A i \in 1 .. Len(values) : values[i] = i
      /\ Holds(inbox.bytes, inbox.read, Waiting, Taken)
      /\ Holds(fresh.bytes, 0, Got, Taken + Waiting)
      /\ Holds(wire, 0, Len(wire), Taken + Waiting + Got)
      /\ IF OverIn THEN InLength <= Length(produced) ELSE InLength = Length(produced) )'
    => InStream'
  BY InStreamIs, PTL

LEMMA OutStreamIsAfter ==
    ( /\ Holds(arrived, 0, Len(arrived), 0)
      /\ Len(arrived) <= Length(written)
      /\ ~OverOut => OutLength = Length(written)
         /\ Holds(outbox.bytes, Gone, outbox.write - Gone, Len(arrived)) )'
    => OutStream'
  BY OutStreamIs, PTL

(* A step that leaves the bytes on their way to the script where they are. *)
LEMMA InStreamSame ==
    ASSUME InStream, UNCHANGED <<inVars, wire, produced, OverIn>>, Got' = Got,
           fresh' = fresh \/ Got = 0
    PROVE  InStream'
<1>1. Waiting' = Waiting /\ Taken' = Taken /\ InLength' = InLength
  BY DEF Waiting, Taken, InLength, inVars
<1>2. Holds(fresh'.bytes, 0, Got, Taken + Waiting)
  BY NoneHeld, InStreamIs
<1> QED
  BY <1>1, <1>2, InStreamIs, InStreamIsAfter DEF inVars

LEMMA OutStreamSame ==
    ASSUME OutStream, UNCHANGED <<outVars, OverOut>>, Gone' = Gone
    PROVE  OutStream'
<1>1. OutLength' = OutLength
  BY DEF OutLength, outVars
<1> QED
  BY <1>1, OutStreamIs, OutStreamIsAfter DEF outVars

(* What is received goes from the wire to the buffer.                      *)
LEMMA ReceiveMoreStream ==
    ASSUME TypeOK, Sizes, UnderWay, InStream, Is("TCP"), ReceiveMore
    PROVE  InStream'
<1>1. PICK room \in Nat : \E got \in Deliveries(room) :
             /\ room >= 1 /\ wire' = got.wire
             /\ \A i \in 1 .. call.done : fresh'.bytes[i] = fresh.bytes[i]
             /\ \A i \in 1 .. Len(got.bytes) : fresh'.bytes[call.done + i] = got.bytes[i]
             /\ \/ call' = Idle /\ fresh'.write = call.done + Len(got.bytes)
                \/ call.op = "ReceiveAll"
                   /\ call' = [call EXCEPT !.done = call.done + Len(got.bytes)]
  BY ReceiveMoreDoes
<1>2. PICK got \in Deliveries(room) :
             /\ wire' = got.wire
             /\ \A i \in 1 .. call.done : fresh'.bytes[i] = fresh.bytes[i]
             /\ \A i \in 1 .. Len(got.bytes) : fresh'.bytes[call.done + i] = got.bytes[i]
             /\ \/ call' = Idle /\ fresh'.write = call.done + Len(got.bytes)
                \/ call.op = "ReceiveAll"
                   /\ call' = [call EXCEPT !.done = call.done + Len(got.bytes)]
  BY <1>1
<1>3. Len(got.bytes) \in 1 .. room
  BY <1>1, GotIs
<1>4. got.wire \in Seq(Bytes) /\ Len(wire) = Len(got.bytes) + Len(got.wire)
  BY <1>1, GotIs
<1>5. \A i \in 1 .. Len(got.bytes) : got.bytes[i] = wire[i]
  BY <1>1, GotIs
<1>6. \A i \in 1 .. Len(got.wire) : got.wire[i] = wire[Len(got.bytes) + i]
  BY <1>1, GotIs
<1>7. Receiving /\ Got = call.done
  BY DEF ReceiveMore, Got
<1>8. UNCHANGED <<inVars, produced, OverIn>>
  BY DEF ReceiveMore, peerVars, OverIn
<1> DEFINE n == Len(got.bytes)
           g == Got
           m == Len(wire)
           p == Taken + Waiting
           z == 0
<1>9. n \in Nat /\ g \in Nat /\ m \in Nat /\ p \in Nat /\ n <= m /\ Len(wire') = m - n
      /\ m - n \in Nat
  <2>1. n \in Nat /\ Len(got.wire) \in Nat /\ g \in Nat /\ p \in Nat
    BY <1>3, <1>4, NaturalsAre
  <2>2. wire' = got.wire
    BY <1>2
  <2> DEFINE l == Len(wire')
  <2>3. m = n + l /\ l \in Nat
    BY <1>4, <2>1, <2>2
  <2> HIDE DEF n, g, m, p, l
  <2>4. n <= m /\ l = m - n /\ m - n \in Nat /\ m \in Nat
    BY <2>1, <2>3
  <2> QED
    BY <2>1, <2>4 DEF l
<1>10. Got' = g + n
  <2>1. CASE call' = Idle
    <3>1. ~Receiving' /\ fresh'.write = call.done + n
      BY <1>2, <2>1, TypesAre DEF Receiving, Idle
    <3> QED
      BY <1>7, <3>1 DEF Got
  <2>2. CASE call' # Idle
    <3>1. call.op = "ReceiveAll" /\ call' = [call EXCEPT !.done = call.done + n]
      BY <1>2, <2>2
    <3>2. call'.op = "ReceiveAll" /\ call'.done = call.done + n
      BY <3>1, TypesAre
    <3>3. Receiving'
      BY <3>2 DEF Receiving
    <3> QED
      BY <1>7, <3>2, <3>3 DEF Got
  <2> QED
    BY <2>1, <2>2
<1>11. Waiting' = Waiting /\ Taken' = Taken
  BY <1>8 DEF Waiting, Taken, inVars
<1>12. z = 0 /\ z \in Nat /\ \A i \in Nat : z + i = i
  OBVIOUS
<1>13. Holds(fresh.bytes, z, g, p) /\ Holds(wire, z, m, p + g)
  BY InStreamIs
<1>14. /\ Copied(fresh'.bytes, z, fresh.bytes, z, g)
       /\ Copied(fresh'.bytes, g, wire, z, n)
       /\ Copied(wire', z, wire, n, m - n)
  <2>1. ASSUME NEW i \in 1 .. g PROVE fresh'.bytes[z + i] = fresh.bytes[z + i]
    BY <1>2, <1>7
  <2>2. ASSUME NEW i \in 1 .. n PROVE fresh'.bytes[g + i] = wire[z + i]
    <3>1. g + i = call.done + i /\ z + i = i
      BY <1>7, <1>9
    <3>2. fresh'.bytes[call.done + i] = got.bytes[i]
      BY <1>2
    <3>3. got.bytes[i] = wire[i]
      BY <1>5
    <3> QED
      BY <3>1, <3>2, <3>3
  <2>3. ASSUME NEW i \in 1 .. m - n PROVE wire'[z + i] = wire[n + i]
    <3>1. z + i = i
      BY <1>9
    <3>2. i \in 1 .. Len(got.wire)
      BY <1>2, <1>9
    <3>3. got.wire[i] = wire[n + i]
      BY <1>6, <3>2
    <3> QED
      BY <1>2, <3>1, <3>3
  <2> QED
    BY <2>1, <2>2, <2>3 DEF Copied
<1> DEFINE q == p + g
           k == g + n
           r == m - n
           t == p + (g + n)
<1> HIDE DEF n, g, m, p, z
<1>15. Holds(fresh'.bytes, z, k, p) /\ Holds(wire', z, r, t)
  <2>1. q \in Nat /\ g = z + g /\ n = z + n /\ t = q + n
    BY <1>9, <1>12
  <2>2. Holds(fresh.bytes, z, g, p) /\ Holds(wire, z, m, q)
    BY <1>13
  <2>3. Copied(wire', z, wire, n, r) /\ r = m - n /\ q = p + g /\ k = g + n
    BY <1>14
  <2> HIDE DEF q, k, r, t
  <2>4. Holds(fresh'.bytes, z, g, p)
    BY <1>14, <2>2, CopiedHold
  <2>5. Holds(wire, z, n, q)
    BY <1>9, <2>2, FrontHolds
  <2>6. Holds(fresh'.bytes, g, n, q)
    BY <1>14, <2>5, CopiedHold
  <2>7. Holds(fresh'.bytes, z, k, p)
    BY <1>9, <1>12, <2>1, <2>3, <2>4, <2>6, JoinedHold
  <2>8. Holds(wire, n, r, t)
    BY <1>9, <1>12, <2>1, <2>2, <2>3, RestHolds
  <2>9. Holds(wire', z, r, t)
    BY <2>3, <2>8, CopiedHold
  <2> QED
    BY <2>7, <2>9
<1>16. Holds(fresh'.bytes, 0, Got', Taken' + Waiting')
  BY <1>10, <1>11, <1>12, <1>15 DEF p
<1>17. Holds(wire', 0, Len(wire'), Taken' + Waiting' + Got')
  BY <1>9, <1>10, <1>11, <1>12, <1>15 DEF p
<1>18. InLength' = InLength
  <2>1. InLength = p + g + m /\ InLength' = p + (g + n) + (m - n)
    BY <1>9, <1>10, <1>11 DEF InLength, p, g, m
  <2> QED
    BY <1>9, <2>1
<1> QED
  BY <1>8, <1>11, <1>16, <1>17, <1>18, InStreamIs, InStreamIsAfter DEF inVars

(* What was received goes from the buffer to the inbox.                    *)
LEMMA CollectStream ==
    ASSUME TypeOK, Sizes, UnderWay, InStream, Is("TCP"), Collect
    PROVE  InStream'
<1>1. PICK from \in Nat :
             /\ inbox'.read = from /\ inbox'.write = from + (Waiting + fresh.write)
             /\ \A i \in 1 .. Waiting : inbox'.bytes[from + i] = inbox.bytes[inbox.read + i]
             /\ \A i \in 1 .. fresh.write : inbox'.bytes[from + (Waiting + i)] = fresh.bytes[i]
  BY CollectDoes
<1>2. call = Idle /\ call' = Idle /\ fresh' = nullptr
      /\ UNCHANGED <<values, wire, produced, OverIn>>
  BY DEF Collect, Release, Ready, peerVars, OverIn
<1>3. Got = fresh.write /\ Got' = 0
  <2>1. ~Receiving /\ ~Receiving'
    BY <1>2 DEF Receiving, Idle
  <2> QED
    BY <1>2, <2>1, NullIs DEF Got
<1> DEFINE g == Waiting
           n == Got
           m == Got
           p == Taken
           z == 0
           at == inbox.read
<1>4. g \in Nat /\ n \in Nat /\ m \in Nat /\ p \in Nat /\ n <= m /\ m - n = 0
      /\ at \in Nat /\ Len(wire) \in Nat
  BY NaturalsAre, TypesAre, BufferIs
<1>5. z = 0 /\ z \in Nat
  OBVIOUS
<1>6. Holds(inbox.bytes, at, g, p) /\ Holds(fresh.bytes, z, m, p + g)
  BY InStreamIs
<1> DEFINE end == from + g
<1>7. Copied(inbox'.bytes, from, inbox.bytes, at, g)
      /\ Copied(inbox'.bytes, end, fresh.bytes, z, n)
  <2>1. ASSUME NEW i \in 1 .. n PROVE inbox'.bytes[end + i] = fresh.bytes[z + i]
    <3>1. z + i = i /\ end + i = from + (g + i)
      BY <1>4
    <3> QED
      BY <1>1, <1>3, <3>1
  <2> QED
    BY <1>1, <2>1 DEF Copied
<1>8. Waiting' = g + n /\ Taken' = p
  <2>1. Waiting' = inbox'.write - inbox'.read /\ inbox'.read = from
        /\ inbox'.write = from + (g + n)
    BY <1>1, <1>3 DEF Waiting
  <2>2. Waiting' = g + n
    BY <1>4, <2>1
  <2> QED
    BY <1>2, <2>2 DEF Taken
<1> HIDE DEF n, g, m, p, z, at
<1> DEFINE q == p + g
           k == g + n
<1>9. Holds(inbox'.bytes, from, k, p)
  <2>1. q \in Nat /\ q = p + g /\ k = g + n /\ end = from + g /\ m = n
    BY <1>4 DEF m, n
  <2>2. Holds(fresh.bytes, z, n, q)
    BY <1>6, <2>1
  <2> HIDE DEF q, k, end
  <2>3. Holds(inbox'.bytes, from, g, p)
    BY <1>6, <1>7, CopiedHold
  <2>4. Holds(inbox'.bytes, end, n, q)
    BY <1>7, <2>2, CopiedHold
  <2> QED
    BY <1>4, <2>1, <2>3, <2>4, JoinedHold
<1>10. Holds(inbox'.bytes, inbox'.read, Waiting', Taken')
  BY <1>1, <1>8, <1>9
<1>11. Holds(fresh'.bytes, 0, Got', Taken' + Waiting')
  BY <1>3, NoneHeld
<1>12. Taken' + Waiting' + Got' = Taken + Waiting + Got
  <2>1. Taken' + Waiting' + Got' = p + (g + n) + 0 /\ Taken + Waiting + Got = p + g + n
    BY <1>3, <1>8 DEF p, g, n
  <2> QED
    BY <1>4, <2>1
<1>13. InLength' = InLength
  BY <1>2, <1>12 DEF InLength
<1> QED
  BY <1>2, <1>10, <1>11, <1>12, <1>13, InStreamIs, InStreamIsAfter

(* A field of the inbox goes to the script's values.                       *)
LEMMA ReadFieldStream ==
    ASSUME TypeOK, Sizes, UnderWay, InStream, ReadField
    PROVE  InStream'
<1> DEFINE n == Len(values)
           w == Width(n + 1)
           at == inbox.read
           g == Waiting
           p == Taken
<1>1. /\ inbox'.bytes = inbox.bytes /\ inbox'.write = inbox.write
      /\ inbox'.read = at + w /\ at + w <= inbox.write
      /\ values' = Append(values, n + 1)
  BY ReadFieldDoes
<1>2. UNCHANGED <<call, fresh, wire, produced, OverIn>>
  BY DEF ReadField, receiveVars, peerVars, OverIn
<1>3. values \in Seq(0 .. MaxFields)
  BY TypesAre
<1>4. n \in Nat /\ g \in Nat /\ p \in Nat /\ at \in Nat /\ inbox.write \in Nat
  BY NaturalsAre, TypesAre, BufferIs
<1>5. w \in Nat
  BY DEF Width
<1>6. Len(values') = n + 1 /\ \A i \in 1 .. n + 1 : values'[i] = i
  <2>1. Len(values') = n + 1 /\ DOMAIN values' = 1 .. n + 1
        /\ \A i \in 1 .. n + 1 : values'[i] = IF i = n + 1 THEN n + 1 ELSE values[i]
    BY <1>1, <1>3
  <2>2. \A i \in 1 .. n : values[i] = i
    BY InStreamIs
  <2> QED
    BY <1>4, <2>1, <2>2
<1> DEFINE p2 == p + w
           at2 == at + w
           g2 == g - w
<1>7. Taken' = p2
  BY <1>4, <1>6, LengthGrows DEF Taken
<1>8. Waiting' = g2 /\ w <= g
  BY <1>1, <1>4, <1>5 DEF Waiting
<1>9. Got' = Got
  BY <1>2 DEF Got, Receiving
<1>10. Holds(inbox.bytes, at, g, p)
  BY InStreamIs
<1>11. p2 = p + w /\ at2 = at + w /\ g2 = g - w
  OBVIOUS
<1> HIDE DEF p2, at2, g2, w, n, at, g, p
<1>12. Holds(inbox.bytes, at2, g2, p2)
  BY <1>4, <1>5, <1>8, <1>10, <1>11, RestHolds
<1>13. Holds(inbox'.bytes, inbox'.read, Waiting', Taken')
  BY <1>1, <1>7, <1>8, <1>11, <1>12
<1>14. Taken' + Waiting' = Taken + Waiting
  <2>1. p2 + g2 = p + g
    BY <1>4, <1>5, <1>8, <1>11
  <2> QED
    BY <1>7, <1>8, <2>1 DEF p, g
<1>15. InLength' = InLength
  BY <1>2, <1>9, <1>14 DEF InLength
<1>16. \A i \in 1 .. Len(values') : values'[i] = i
  BY <1>6
<1> QED
  BY <1>2, <1>9, <1>13, <1>14, <1>15, <1>16, InStreamIs, InStreamIsAfter

(* The peer's next field goes on the wire.                                 *)
LEMMA PeerSendsStream ==
    ASSUME TypeOK, Sizes, UnderWay, InStream, Is("TCP"), PeerSends, "receiving" \notin givenUp
    PROVE  InStream'
<1> DEFINE n == produced
           w == Width(n + 1)
           m == Len(wire)
           p == Taken + Waiting + Got
           f == Encode(n + 1, w, PeerEndian)
<1>1. Len(wire') = m + w /\ produced' = n + 1
  BY PeerSendsDoes
<1>2. \A i \in 1 .. m : wire'[i] = wire[i]
  BY PeerSendsDoes
<1>3. \A i \in 1 .. w : wire'[m + i] = f[i]
  BY PeerSendsDoes
<1>4. UNCHANGED <<call, fresh, inVars, OverIn>> /\ ~OverIn
  BY DEF PeerSends, OverIn
<1>5. Got' = Got /\ Waiting' = Waiting /\ Taken' = Taken
  BY <1>4 DEF Got, Receiving, Waiting, Taken, inVars
<1>6. n \in Nat /\ m \in Nat /\ p \in Nat
  BY NaturalsAre, TypesAre
<1>7. w \in Nat
  BY DEF Width
<1>8. Holds(wire, 0, m, p)
  BY InStreamIs
<1>9. p + m = Length(n)
  BY <1>4, InStreamIs DEF InLength
<1>10. Length(n + 1) = Length(n) + w
  BY <1>6, LengthGrows
<1>11. Holds(wire', m, w, Length(n))
  BY <1>3, <1>6, FieldHolds
<1> DEFINE z == 0
           l == Length(n)
           k == m + w
<1>12. z = 0 /\ z \in Nat /\ l = p + m /\ m = z + m /\ k = m + w
  BY <1>6, <1>9
<1>13. Holds(wire', z, m, p)
  BY <1>2, <1>6, <1>8 DEF Holds
<1>14. Holds(wire', m, w, l)
  BY <1>11
<1> HIDE DEF z, l, k, m, w, n, p
<1>15. Holds(wire', z, k, p)
  BY <1>6, <1>7, <1>12, <1>13, <1>14, JoinedHold
<1>16. Holds(wire', 0, Len(wire'), Taken' + Waiting' + Got')
  BY <1>1, <1>5, <1>12, <1>15 DEF p
<1>17. InLength' = Length(produced')
  <2>1. InLength' = p + (m + w)
    BY <1>1, <1>5 DEF InLength, p
  <2>2. Length(produced') = l + w
    BY <1>1, <1>10 DEF l
  <2> QED
    BY <1>6, <1>7, <1>12, <2>1, <2>2
<1> QED
  BY <1>4, <1>5, <1>16, <1>17, InStreamIs, InStreamIsAfter DEF inVars

(* After a call has failed to receive it is for nobody.                    *)
LEMMA PeerSendsUnheard ==
    ASSUME TypeOK, Sizes, UnderWay, InStream, Is("TCP"), PeerSends, "receiving" \in givenUp
    PROVE  InStream'
<1>1. UNCHANGED <<call, fresh, inVars, wire>> /\ OverIn /\ OverIn'
      /\ produced' = produced + 1
  BY DEF PeerSends, OverIn
<1>2. UNCHANGED <<Got, Waiting, Taken, InLength>>
  BY <1>1 DEF Got, Receiving, Waiting, Taken, InLength, inVars
<1>3. InLength' <= Length(produced')
  <2> DEFINE all == Length(produced)
             w == Width(produced + 1)
             l == InLength
  <2>1. all \in Nat /\ l \in Nat /\ produced \in Nat /\ w \in Nat
    BY NaturalsAre, TypesAre DEF InLength, Width
  <2>2. Length(produced') = all + w /\ InLength' = l
    BY <1>1, <1>2, <2>1, LengthGrows
  <2>3. l <= all
    BY <1>1, InStreamIs
  <2> HIDE DEF all, w, l
  <2> QED
    BY <2>1, <2>2, <2>3
<1> QED
  BY <1>1, <1>2, <1>3, InStreamIs, InStreamIsAfter DEF inVars

(* The connection is lost, with what is on the wire or without.            *)
LEMMA LoseStreams ==
    ASSUME TypeOK, Sizes, UnderWay, InStream, OutStream, Lose
    PROVE  InStream' /\ OutStream'
<1>1. wire' \in {wire, <<>>} /\ OverIn' /\ OverOut'
      /\ UNCHANGED <<call, fresh, inVars, outVars, produced>>
  BY DEF Lose, OverIn, OverOut
<1>2. Got' = Got /\ Waiting' = Waiting /\ Taken' = Taken
  BY <1>1 DEF Got, Receiving, Waiting, Taken, inVars
<1>3. Got \in Nat /\ Waiting \in Nat /\ Taken \in Nat /\ Len(wire) \in Nat
      /\ Length(produced) \in Nat
  BY NaturalsAre
<1> DEFINE m == Len(wire')
           p == Taken + Waiting + Got
<1>4. m \in {0, Len(wire)} /\ p \in Nat
  BY <1>1, <1>3
<1>5. Holds(wire', 0, m, p)
  BY <1>1, <1>4, NoneHeld, InStreamIs
<1>6. InLength' <= Length(produced')
  <2> DEFINE all == Length(produced)
             l == Len(wire)
  <2>1. p + l <= all
    BY <1>3, InStreamIs DEF InLength
  <2>2. InLength' = p + m /\ Length(produced') = all
    BY <1>1, <1>2 DEF InLength
  <2>3. m \in {0, l} /\ p \in Nat /\ l \in Nat /\ all \in Nat
    BY <1>3, <1>4
  <2> HIDE DEF p, m, all, l
  <2> QED
    BY <2>1, <2>2, <2>3
<1>7. InStream'
  BY <1>1, <1>2, <1>5, <1>6, InStreamIs, InStreamIsAfter DEF inVars
<1>8. OutStream'
  BY <1>1, OutStreamIs, OutStreamIsAfter DEF outVars
<1> QED
  BY <1>7, <1>8

(* What is sent goes from the outbox to the peer.                          *)
LEMMA SendMoreStream ==
    ASSUME TypeOK, Sizes, UnderWay, OutStream, Is("TCP"), SendMore
    PROVE  OutStream'
<1>1. UNCHANGED <<written, OverOut>> /\ (OverOut <=> lost)
  BY DEF SendMore, peerVars, UnderWay, OverOut
<1>2. CASE lost
  <2>1. arrived' = arrived
    BY <1>2, SendMoreArrives
  <2> QED
    BY <1>1, <1>2, <2>1, OutStreamIs, OutStreamIsAfter
<1>3. CASE ~lost
  <2>1. PICK sent \in Nat \ {0}, done2 \in Nat :
             /\ call.done + sent <= outbox.write
             /\ \/ call' = Idle /\ done2 = 0
                \/ call.op = "SendAll"
                   /\ call' = [call EXCEPT !.done = call.done + sent]
                   /\ done2 = call.done + sent
             /\ outbox'.write = done2 + (outbox.write - (call.done + sent))
             /\ \A i \in 1 .. outbox.write - (call.done + sent) :
                   outbox'.bytes[done2 + i] = outbox.bytes[call.done + (sent + i)]
             /\ Len(arrived') = Len(arrived) + sent
             /\ \A i \in 1 .. Len(arrived) : arrived'[i] = arrived[i]
             /\ \A i \in 1 .. sent : arrived'[Len(arrived) + i] = outbox.bytes[call.done + i]
    BY <1>3, SendMoreArrives
  <2>2. Sending /\ Gone = call.done
    BY DEF SendMore, Gone
  <2>3. Gone' = done2
    <3>1. CASE call' = Idle
      BY <2>1, <3>1, TypesAre DEF Gone, Sending, Idle
    <3>2. CASE call' # Idle
      <4>1. call'.op = "SendAll" /\ call'.done = done2
        BY <2>1, <3>2, TypesAre
      <4> QED
        BY <4>1 DEF Gone, Sending
    <3> QED
      BY <3>1, <3>2
  <2> DEFINE l == Len(arrived)
             all == outbox.write
             n == sent
             z == 0
             at == call.done
             at2 == at + n
             m == all - at
             r == all - at2
             k == l + n
  <2>4. l \in Nat /\ all \in Nat /\ n \in Nat /\ at \in Nat /\ m \in Nat
    BY <2>2, NaturalsAre, TypesAre, ConstantsAre
  <2>5. z = 0 /\ z \in Nat /\ n <= m /\ r = m - n /\ r \in Nat /\ l = z + l
        /\ at2 \in Nat /\ k = l + n /\ at2 = at + n
        /\ k \in Nat
    BY <2>1, <2>4
  <2>6. Holds(arrived, z, l, z) /\ Holds(outbox.bytes, at, m, l)
        /\ l + m = Length(written)
    BY <1>1, <1>3, <2>2, OutStreamIs DEF OutLength
  <2>7. Copied(arrived', z, arrived, z, l) /\ Copied(arrived', l, outbox.bytes, at, n)
        /\ Copied(outbox'.bytes, done2, outbox.bytes, at2, r)
    <3>1. ASSUME NEW i \in 1 .. l PROVE arrived'[z + i] = arrived[z + i]
      BY <2>1
    <3>2. ASSUME NEW i \in 1 .. n PROVE arrived'[l + i] = outbox.bytes[at + i]
      BY <2>1
    <3>3. ASSUME NEW i \in 1 .. r PROVE outbox'.bytes[done2 + i] = outbox.bytes[at2 + i]
      <4>1. at2 + i = call.done + (sent + i)
            /\ i \in 1 .. outbox.write - (call.done + sent)
        BY <2>4
      <4> QED
        BY <2>1, <4>1
    <3> QED
      BY <3>1, <3>2, <3>3 DEF Copied
  <2>8. outbox'.write = done2 + r /\ Len(arrived') = k
    BY <2>1
  <2> HIDE DEF l, all, n, z, at, at2, m, r, k
  <2>9. Holds(arrived', z, l, z)
    BY <2>6, <2>7, CopiedHold
  <2>10. Holds(outbox.bytes, at, n, l)
    BY <2>4, <2>5, <2>6, FrontHolds
  <2>11. Holds(arrived', l, n, l)
    BY <2>7, <2>10, CopiedHold
  <2>12. Holds(arrived', z, k, z)
    BY <2>4, <2>5, <2>9, <2>11, JoinedHold
  <2>13. Holds(outbox.bytes, at2, r, k)
    BY <2>4, <2>5, <2>6, RestHolds
  <2>14. Holds(outbox'.bytes, done2, r, k)
    BY <2>7, <2>13, CopiedHold
  <2>15. outbox'.write - Gone' = r
    BY <2>3, <2>5, <2>8
  <2>16. OutLength' = Length(written') /\ k <= Length(written')
    <3>1. OutLength' = k + r
      BY <2>8, <2>15 DEF OutLength
    <3>2. Length(written') = l + m
      BY <1>1, <2>6
    <3> QED
      BY <2>4, <2>5, <3>1, <3>2
  <2>17. Holds(arrived', 0, Len(arrived'), 0)
    BY <2>5, <2>8, <2>12
  <2>18. Holds(outbox'.bytes, Gone', outbox'.write - Gone', Len(arrived'))
    BY <2>3, <2>8, <2>14, <2>15
  <2>19. Len(arrived') <= Length(written')
    BY <2>8, <2>16
  <2> QED
    BY <2>16, <2>17, <2>18, <2>19, OutStreamIsAfter
<1> QED
  BY <1>2, <1>3

(* The script's next field goes to the outbox.                             *)
LEMMA WriteFieldStream ==
    ASSUME TypeOK, Sizes, UnderWay, OutStream, WriteField
    PROVE  OutStream'
<1> DEFINE n == written
           w == Width(n + 1)
           m == outbox.write
           p == Len(arrived)
           f == Encode(n + 1, w, PeerEndian)
<1>1. outbox'.write = m + w
  BY WriteFieldDoes
<1>2. \A i \in 1 .. m : outbox'.bytes[i] = outbox.bytes[i]
  BY WriteFieldDoes
<1>3. \A i \in 1 .. w : outbox'.bytes[m + i] = f[i]
  <2> HIDE DEF n, m, p
  <2>1. \A i \in 1 .. Width(written + 1) :
          outbox'.bytes[outbox.write + i] = Encode(written + 1, Width(written + 1), PeerEndian)[i]
    BY WriteFieldDoes, Zenon
  <2> QED
    BY <2>1 DEF n, m
<1>4. written' = n + 1 /\ UNCHANGED <<call, arrived, OverOut>> /\ call = Idle
  BY DEF WriteField, peerVars, Ready, OverOut
<1>5. Gone = 0 /\ Gone' = 0
  BY <1>4 DEF Gone, Sending, Idle
<1>6. n \in Nat /\ m \in Nat /\ p \in Nat /\ Length(n) \in Nat
  BY NaturalsAre, TypesAre
<1>7. w \in Nat
  BY DEF Width
<1>8. Length(n + 1) = Length(n) + w
  BY <1>6, LengthGrows
<1>9. p <= Length(written') /\ Holds(arrived', 0, Len(arrived'), 0) /\ Len(arrived') = p
  <2>1. p <= Length(n)
    BY OutStreamIs
  <2>2. Length(written') = Length(n) + w
    BY <1>4, <1>8
  <2>3. p <= Length(written')
    BY <1>6, <1>7, <2>1, <2>2
  <2> QED
    BY <1>4, <2>3, OutStreamIs
<1>10. CASE ~OverOut
  <2>1. m - Gone = m
    BY <1>5, <1>6
  <2>2. Holds(outbox.bytes, 0, m, p) /\ p + m = Length(n)
    BY <1>5, <1>10, <2>1, OutStreamIs DEF OutLength
  <2>3. Holds(outbox'.bytes, m, w, Length(n))
    BY <1>3, <1>6, FieldHolds
  <2> DEFINE z == 0
             l == Length(n)
             k == m + w
  <2>4. z = 0 /\ z \in Nat /\ l = p + m /\ m = z + m /\ k = m + w /\ k \in Nat
    BY <1>6, <1>7, <2>2
  <2>5. Holds(outbox'.bytes, z, m, p)
    BY <1>2, <1>6, <2>2 DEF Holds
  <2>6. Holds(outbox'.bytes, m, w, l) /\ outbox'.write = k
    BY <1>1, <2>3
  <2>7. Length(written') = l + w
    BY <1>4, <1>8
  <2> HIDE DEF z, l, k, m, w, n, p
  <2>8. Holds(outbox'.bytes, z, k, p)
    BY <1>6, <1>7, <2>4, <2>5, <2>6, JoinedHold
  <2>9. outbox'.write - Gone' = k
    BY <1>5, <2>4, <2>6
  <2>10. OutLength' = Length(written')
    <3>1. OutLength' = p + k
      BY <1>9, <2>9 DEF OutLength
    <3> QED
      BY <1>6, <1>7, <2>4, <2>7, <3>1
  <2>11. Holds(outbox'.bytes, Gone', outbox'.write - Gone', Len(arrived'))
    BY <1>5, <1>9, <2>4, <2>8, <2>9
  <2> QED
    BY <1>9, <2>10, <2>11, OutStreamIsAfter
<1>11. CASE OverOut
  BY <1>4, <1>9, <1>11, OutStreamIsAfter
<1> QED
  BY <1>10, <1>11

-----------------------------------------------------------------------------
(* Every step, and the theorems.                                           *)

(* A step of a call to receive leaves what is sent alone, and the reverse. *)
LEMMA CallKinds ==
    /\ ~Receiving => Got = fresh.write
    /\ Receiving => Got = call.done /\ Gone = 0
    /\ ~Sending => Gone = 0
    /\ Sending => Gone = call.done /\ Got = fresh.write
  BY OpsDiffer DEF Got, Gone

LEMMA CallKindsAfter ==
    ( /\ ~Receiving => Got = fresh.write
      /\ Receiving => Got = call.done /\ Gone = 0
      /\ ~Sending => Gone = 0
      /\ Sending => Gone = call.done /\ Got = fresh.write )'
  BY CallKinds, PTL

(* A call that ends leaves nothing half done.                              *)
LEMMA IdleNext == call' = Idle => ~Receiving' /\ ~Sending' /\ Got' = fresh'.write
  /\ Gone' = 0
<1>1. call' = Idle => ~Receiving' /\ ~Sending'
  BY DEF Receiving, Sending, Idle
<1> QED
  BY <1>1, CallKindsAfter

(* The bytes to the script stay in order, whatever step is taken.          *)
LEMMA InStreamStep ==
    ASSUME SocketProofInv, Next, ~Close, Is("TCP"), InStream
    PROVE  InStream'
<1>1. TypeOK /\ Sizes /\ UnderWay
  BY DEF SocketProofInv, SocketInv
<1>2. ASSUME UNCHANGED <<inVars, wire, produced, OverIn, fresh>>, ~Receiving,
             ~Receiving' PROVE InStream'
  <2>1. Got' = Got
    BY <1>2, CallKinds, CallKindsAfter
  <2> QED
    BY <1>2, <2>1, InStreamSame
<1>3. ASSUME UNCHANGED <<inVars, wire, produced, OverIn, fresh, call>> PROVE InStream'
  <2>1. Got' = Got
    BY <1>3 DEF Got, Receiving
  <2> QED
    BY <1>3, <2>1, InStreamSame
<1>4. ASSUME NEW op \in {"Send", "SendAll"}, BeginSend(op) PROVE InStream'
  <2>1. ~Receiving /\ ~Receiving'
    BY <1>4 DEF BeginSend, Receiving, Ready, Idle
  <2> QED
    BY <1>2, <1>4, <2>1 DEF BeginSend, receiveVars, peerVars, OverIn
<1>5. CASE SendMore
  <2>1. ~Receiving
    BY <1>5, OpsDiffer DEF SendMore
  <2>2. PICK k : call' = Idle \/ call' = [call EXCEPT !.done = k]
    BY <1>5 DEF SendMore, Return
  <2>3. ~Receiving'
    <3>1. CASE call' = Idle
      BY <3>1, IdleNext
    <3>2. CASE call' = [call EXCEPT !.done = k]
      <4>1. call'.op = call.op
        BY <1>1, <3>2, TypesAre
      <4> QED
        BY <2>1, <4>1 DEF Receiving
    <3> QED
      BY <2>2, <3>1, <3>2
  <2> QED
    BY <1>2, <1>5, <2>1, <2>3 DEF SendMore, receiveVars, peerVars, OverIn
<1>6. CASE SendNothing
  <2>1. ~Receiving /\ ~Receiving'
    BY <1>6, OpsDiffer, IdleNext DEF SendNothing, Return
  <2> QED
    BY <1>2, <1>6, <2>1 DEF SendNothing, SaidClosed, receiveVars, OverIn
<1>7. ASSUME NEW op \in {"Receive", "ReceiveAll"}, NEW capacity \in 1 .. Capacity,
             BeginReceive(op, capacity)
      PROVE  InStream'
  <2>1. call = Idle /\ fresh = nullptr /\ call' = [op |-> op, done |-> 0]
        /\ UNCHANGED <<inVars, wire, produced, OverIn>>
    BY <1>7 DEF BeginReceive, Ready, peerVars, OverIn
  <2>2. Got = 0
    BY <2>1, NullIs, OpsDiffer, CallKinds
  <2>3. Got' = 0
    BY <2>1 DEF Got, Receiving
  <2> QED
    BY <2>1, <2>2, <2>3, InStreamSame
<1>8. CASE ReceiveNothing
  <2>1. /\ Receiving /\ call' = Idle /\ fresh' = nullptr /\ UNCHANGED <<inVars, produced>>
        /\ \/ call.op = "Receive" /\ UNCHANGED <<wire, OverIn>>
           \/ wire' = <<>> /\ OverIn'
    BY <1>8 DEF ReceiveNothing, Return, Release, SaidClosed, OverIn
  <2>2. Got' = 0 /\ Got = call.done
    BY <2>1, NullIs, IdleNext, CallKinds
  <2>3. CASE call.op = "Receive" /\ UNCHANGED <<wire, OverIn>>
    BY <1>1, <2>1, <2>2, <2>3, InStreamSame DEF UnderWay
  <2>4. CASE wire' = <<>> /\ OverIn'
    <3>1. Waiting' = Waiting /\ Taken' = Taken
      BY <2>1 DEF Waiting, Taken, inVars
    <3> DEFINE all == Length(produced)
               p == Taken + Waiting
               l == Len(wire)
    <3>2. Got \in Nat /\ p \in Nat /\ l \in Nat /\ all \in Nat
      BY <1>1, NaturalsAre
    <3>3. InLength' = p
      BY <2>2, <2>4, <3>1, <3>2 DEF InLength
    <3>4. p + Got + l <= all
      BY <3>2, InStreamIs DEF InLength
    <3> HIDE DEF p, all, l
    <3>5. InLength' <= all
      BY <3>2, <3>3, <3>4
    <3>6. Holds(fresh'.bytes, 0, Got', Taken' + Waiting')
          /\ Holds(wire', 0, Len(wire'), Taken' + Waiting' + Got')
      BY <2>2, <2>4, NoneHeld
    <3> QED
      BY <2>1, <2>4, <3>1, <3>5, <3>6, InStreamIs, InStreamIsAfter DEF inVars, all
  <2> QED
    BY <2>1, <2>3, <2>4
<1>9. CASE ReceiveUnconnected
  <2>1. /\ Receiving /\ ~IsConnected /\ call' = Idle
           /\ fresh' = byte_buffer_set_write_offset(fresh, 0)
        /\ UNCHANGED <<inVars, wire, produced, OverIn>>
    BY <1>9 DEF ReceiveUnconnected, HandOver, Return, peerVars, OverIn
  <2>2. Got = 0
    BY <1>1, <2>1, CallKinds DEF UnderWay
  <2>3. 0 \in 0 .. Capacity
    BY ConstantsAre
  <2>4. fresh'.write = 0
    BY <1>1, <2>1, <2>3, TypesAre, WriteOffsetSet
  <2>5. Got' = 0
    BY <2>1, <2>4, IdleNext
  <2> QED
    BY <2>1, <2>2, <2>5, InStreamSame
<1>10. CASE WriteField
  BY <1>3, <1>10 DEF WriteField, receiveVars, peerVars, OverIn
<1>11. CASE (\E type \in Types : Open(type))
            \/ (\E flag \in BOOLEAN : SetBlocking(flag)) \/ Listen \/ Connect
  BY <1>3, <1>11 DEF Open, SetBlocking, Listen, Connect, receiveVars, peerVars, OverIn
<1>12. Lose => InStream'
  <2> SUFFICES ASSUME Lose PROVE InStream'
    OBVIOUS
  <2>1. OutStream
    BY DEF SocketProofInv, StreamsInv
  <2> QED
    BY <1>1, <2>1, LoseStreams
<1> QED
  BY <1>1, <1>4, <1>5, <1>6, <1>7, <1>8, <1>9, <1>10, <1>11, <1>12, NextCases,
     ReceiveMoreStream,
     CollectStream, ReadFieldStream, PeerSendsStream, PeerSendsUnheard

(* And so do the bytes from it.                                            *)
LEMMA OutStreamStep ==
    ASSUME SocketProofInv, Next, ~Close, Is("TCP"), OutStream
    PROVE  OutStream'
<1>1. TypeOK /\ Sizes /\ UnderWay
  BY DEF SocketProofInv, SocketInv
<1>2. ASSUME UNCHANGED <<outVars, OverOut>>, ~Sending, ~Sending' PROVE OutStream'
  <2>1. Gone' = Gone
    BY <1>2, CallKinds, CallKindsAfter
  <2> QED
    BY <1>2, <2>1, OutStreamSame
<1>3. ASSUME UNCHANGED <<outVars, OverOut, call>> PROVE OutStream'
  <2>1. Gone' = Gone
    BY <1>3 DEF Gone, Sending
  <2> QED
    BY <1>3, <2>1, OutStreamSame
<1>4. ASSUME NEW op \in {"Send", "SendAll"}, BeginSend(op) PROVE OutStream'
  <2>1. call = Idle /\ call' = [op |-> op, done |-> 0] /\ UNCHANGED <<outVars, OverOut>>
    BY <1>4 DEF BeginSend, Ready, peerVars, OverOut
  <2>2. Gone = 0
    BY <2>1, OpsDiffer, CallKinds
  <2>3. Gone' = 0
    BY <2>1 DEF Gone, Sending
  <2> QED
    BY <2>1, <2>2, <2>3, OutStreamSame
<1>5. ASSUME NEW op \in {"Receive", "ReceiveAll"}, NEW capacity \in 1 .. Capacity,
             BeginReceive(op, capacity)
      PROVE  OutStream'
  <2>1. call = Idle /\ call' = [op |-> op, done |-> 0] /\ UNCHANGED <<outVars, OverOut>>
    BY <1>5 DEF BeginReceive, Ready, peerVars, OverOut
  <2>2. ~Sending /\ ~Sending'
    BY <2>1 DEF Sending, Idle
  <2> QED
    BY <1>2, <2>1, <2>2
<1>6. CASE SendNothing
  <2>1. /\ Sending /\ call' = Idle /\ UNCHANGED outVars
        /\ (call.op = "Send" /\ UNCHANGED OverOut) \/ OverOut'
    BY <1>6 DEF SendNothing, Return, SaidClosed, OverOut
  <2>2. Gone' = 0 /\ Gone = call.done
    BY <2>1, IdleNext, CallKinds
  <2>3. CASE call.op = "Send" /\ UNCHANGED OverOut
    BY <1>1, <2>1, <2>2, <2>3, OutStreamSame DEF UnderWay
  <2>4. CASE OverOut'
    BY <2>1, <2>4, OutStreamIs, OutStreamIsAfter DEF outVars
  <2> QED
    BY <2>1, <2>3, <2>4
<1>7. CASE ReceiveMore
  <2>1. ~Sending
    BY <1>7, OpsDiffer DEF ReceiveMore
  <2>2. PICK k : call' = Idle \/ call' = [call EXCEPT !.done = k]
    BY <1>7 DEF ReceiveMore, HandOver, Return
  <2>3. ~Sending'
    <3>1. CASE call' = Idle
      BY <3>1, IdleNext
    <3>2. CASE call' = [call EXCEPT !.done = k]
      <4>1. call'.op = call.op
        BY <1>1, <3>2, TypesAre
      <4> QED
        BY <2>1, <4>1 DEF Sending
    <3> QED
      BY <2>2, <3>1, <3>2
  <2> QED
    BY <1>2, <1>7, <2>1, <2>3 DEF ReceiveMore, peerVars, OverOut
<1>8. CASE ReceiveNothing \/ ReceiveUnconnected
  <2>1. ~Sending /\ ~Sending'
    BY <1>8, OpsDiffer, IdleNext DEF ReceiveNothing, ReceiveUnconnected, HandOver, Return
  <2> QED
    BY <1>2, <1>8, <2>1 DEF ReceiveNothing, ReceiveUnconnected, SaidClosed, peerVars, OverOut
<1>9. CASE \/ (\E type \in Types : Open(type))
              \/ (\E flag \in BOOLEAN : SetBlocking(flag)) \/ Listen \/ Connect
           \/ Collect \/ ReadField \/ PeerSends
  BY <1>3, <1>9 DEF Open, SetBlocking, Listen, Connect, Collect, ReadField, PeerSends,
     peerVars, OverOut
<1>10. Lose => OutStream'
  <2> SUFFICES ASSUME Lose PROVE OutStream'
    OBVIOUS
  <2>1. InStream
    BY DEF SocketProofInv, StreamsInv
  <2> QED
    BY <1>1, <2>1, LoseStreams
<1> QED
  BY <1>1, <1>4, <1>5, <1>6, <1>7, <1>8, <1>9, <1>10, NextCases, SendMoreStream,
     WriteFieldStream

(* Both together.                                                          *)
LEMMA StreamsStep ==
    ASSUME SocketProofInv, Next, ~Close PROVE StreamsInv'
<1>1. TypeOK /\ Unused /\ StreamsInv
  BY DEF SocketProofInv, SocketInv
<1>2. CASE socket = NoSocket
  <2>1. PICK type \in Types : Open(type)
    BY <1>1, <1>2, NextCases, OpsDiffer DEF Unused, SetBlocking, Listen, Connect,
       BeginSend, BeginReceive, SendMore,
       SendNothing, ReceiveMore, ReceiveNothing, ReceiveUnconnected, WriteField, Collect,
         ReadField, PeerSends,
       Lose, Ready, IsConnected
  <2>2. fresh.write = 0 /\ call.done = 0
    BY <1>1, <1>2, NullIs, OpsDiffer DEF Unused
  <2>3. inbox.read \in Nat
    BY <1>1, TypesAre, BufferIs
  <2>4. NothingSent'
    BY <1>1, <1>2, <2>1, <2>2, <2>3 DEF Open, Unused, NothingSent, receiveVars, inVars,
       outVars, peerVars
  <2> QED
    BY <2>4, NothingSentAfter
<1>3. CASE socket # NoSocket
  <2>1. Is("TCP")' => Is("TCP")
    BY <1>3, SocketKept DEF Is
  <2> QED
    BY <1>1, <2>1, InStreamStep, OutStreamStep DEF StreamsInv
<1> QED
  BY <1>2, <1>3

(* A step that changes nothing.                                            *)
LEMMA SocketSame ==
    ASSUME SocketProofInv, UNCHANGED vars PROVE SocketProofInv'
<1> USE DEF SocketProofInv, SocketInv, vars, socketVars, receiveVars, inVars, outVars,
        peerVars
<1>1. TypeOK' /\ FlagsTrue' /\ NoBufferLeaks' /\ AnswersReachSender'
  BY DEF TypeOK, FlagsTrue, NoBufferLeaks, AnswersReachSender, IsConnected, Is
<1>2. Sizes' /\ UnderWay' /\ Unused'
  BY DEF Sizes, UnderWay, Unused, IsConnected, Is, Sending, Receiving
<1>3. Got' = Got /\ Gone' = Gone /\ Waiting' = Waiting /\ Taken' = Taken
  BY DEF Got, Gone, Waiting, Taken, Sending, Receiving
<1>4. StreamsInv'
  BY <1>3 DEF StreamsInv, InStream, OutStream, Is, OverIn, OverOut
<1> QED
  BY <1>1, <1>2, <1>4

(* Every step keeps the invariant.                                         *)
LEMMA SocketStep == SocketProofInv /\ [Next]_vars => SocketProofInv'
<1> SUFFICES ASSUME SocketProofInv, [Next]_vars PROVE SocketProofInv'
  OBVIOUS
<1>1. CASE Next /\ ~Close
  BY <1>1, SocketTypesStep, FlagsStep, FreshTypeStep, AnswersStep, SizesStep, CallsStep,
     UnusedStep, StreamsStep
     DEF SocketProofInv, SocketInv
<1>2. CASE Close
  BY <1>2, CloseDoes
<1>3. CASE UNCHANGED vars
  BY <1>3, SocketSame
<1> QED
  BY <1>1, <1>2, <1>3

(* The invariant holds.                                                    *)
LEMMA SocketProofInvHolds == Spec => []SocketProofInv
<1>1. SocketProofInv /\ [Next]_vars => SocketProofInv'
  BY SocketStep
<1> QED
  BY <1>1, InitInv, PTL DEF Spec

(* The types; the flags of the extension are those of the socket below it; *)
(* a buffer that was allocated is handed out or released, however the call *)
(* ends; and a datagram answered goes where the last one came from, for    *)
(* every capacity and any number of fields (main.cpp:82-136, 588,          *)
(* Socket.lua:55-84).                                                      *)
THEOREM SocketInvHolds == Spec => []SocketInv
<1>1. SocketProofInv => SocketInv
  BY DEF SocketProofInv
<1> QED
  BY <1>1, SocketProofInvHolds, PTL

-----------------------------------------------------------------------------
(* From positions to sequences.                                            *)

Things == Bytes \cup {StreamByte(k) : k \in Nat}

(* s is the stretch of the stream behind the first p bytes.                *)
Stretch(s, p) == s \in Seq(Things) /\ Holds(s, 0, Len(s), p)

LEMMA WiderIs ==
    ASSUME NEW s \in Seq(Bytes) PROVE s \in Seq(Things)
<1> DEFINE n == Len(s)
<1>1. n \in Nat /\ s \in [1 .. n -> Bytes]
  OBVIOUS
<1>2. Bytes \subseteq Things
  BY DEF Things
<1> HIDE DEF n
<1>3. s \in [1 .. n -> Things]
  BY <1>1, <1>2
<1> QED
  BY <1>1, <1>3

(* Its bytes, one by one.                                                  *)
LEMMA StretchAt ==
    ASSUME NEW s, NEW p \in Nat, s \in Seq(Things)
    PROVE  Stretch(s, p) <=> \A i \in 1 .. Len(s) : s[i] = StreamByte(p + i)
<1>1. Len(s) \in Nat
  OBVIOUS
<1>2. \A i \in 1 .. Len(s) : 0 + i = i
  BY <1>1
<1> QED
  BY <1>2 DEF Stretch, Holds

(* The stream is one.                                                      *)
LEMMA StreamIs ==
    ASSUME NEW n \in Nat
    PROVE  Stretch(Stream(n), 0) /\ Len(Stream(n)) = Length(n)
<1> DEFINE l == Length(n)
           s == [k \in 1 .. l |-> StreamByte(k)]
<1>1. l \in Nat
  BY DEF Length
<1> HIDE DEF l
<1>2. \A k \in 1 .. l : StreamByte(k) \in Things
  BY DEF Things
<1>3. s \in [1 .. l -> Things]
  BY <1>2
<1>4. s \in Seq(Things) /\ Len(s) = l
  BY <1>1, <1>3
<1>5. \A i \in 1 .. Len(s) : s[i] = StreamByte(0 + i)
  <2>1. \A i \in 1 .. l : 0 + i = i
    BY <1>1
  <2> QED
    BY <1>4, <2>1
<1> HIDE DEF s
<1>6. Stretch(s, 0)
  BY <1>4, <1>5, StretchAt
<1> QED
  BY <1>4, <1>6 DEF Stream, s, l

(* Two stretches next to each other are one.                               *)
LEMMA StretchesJoin ==
    ASSUME NEW s, NEW t, NEW p \in Nat, Stretch(s, p), NEW q, q = p + Len(s),
           Stretch(t, q), NEW u, u = s \o t
    PROVE  Stretch(u, p) /\ Len(u) = Len(s) + Len(t)
<1>1. s \in Seq(Things) /\ t \in Seq(Things)
  BY DEF Stretch
<1>2. u \in Seq(Things) /\ Len(u) = Len(s) + Len(t)
  BY <1>1, ConcatProperties
<1>3. \A i \in 1 .. Len(s) + Len(t) : u[i] = IF i <= Len(s) THEN s[i] ELSE t[i - Len(s)]
  BY <1>1, ConcatProperties
<1> DEFINE g == Len(s)
           n == Len(t)
<1>4. g \in Nat /\ n \in Nat
  BY <1>1
<1>5. q \in Nat /\ q = p + g
  BY <1>4
<1>6. \A i \in 1 .. g : s[i] = StreamByte(p + i)
  BY <1>1, StretchAt
<1>7. \A i \in 1 .. n : t[i] = StreamByte(q + i)
  BY <1>1, <1>5, StretchAt
<1>11. Len(u) = g + n /\ \A i \in 1 .. g + n : u[i] = IF i <= g THEN s[i] ELSE t[i - g]
  BY <1>2, <1>3
<1> HIDE DEF g, n
<1>8. ASSUME NEW i \in 1 .. g + n PROVE u[i] = StreamByte(p + i)
  <2>1. CASE i <= g
    <3>1. i \in 1 .. g
      BY <2>1
    <3> QED
      BY <1>6, <1>11, <2>1, <3>1
  <2>2. CASE ~(i <= g)
    <3> DEFINE j == i - g
    <3>1. j \in 1 .. n /\ q + j = p + i
      BY <1>4, <1>5, <2>2
    <3>2. u[i] = t[j]
      BY <1>11, <2>2
    <3> HIDE DEF j
    <3> QED
      BY <1>7, <3>1, <3>2
  <2> QED
    BY <2>1, <2>2
<1>9. \A i \in 1 .. Len(u) : u[i] = StreamByte(p + i)
  BY <1>8, <1>11
<1>10. Stretch(u, p)
  BY <1>2, <1>9, StretchAt
<1> QED
  BY <1>2, <1>10

(* A stretch from the start of the stream is a part from its start.        *)
LEMMA StretchIsPrefix ==
    ASSUME NEW s, NEW n \in Nat, Stretch(s, 0)
    PROVE  /\ Len(s) <= Length(n) => IsPrefix(s, Stream(n))
           /\ Len(s) = Length(n) => s = Stream(n)
<1> DEFINE t == Stream(n)
           k == Len(s)
           l == Length(n)
<1>1. Stretch(t, 0) /\ Len(t) = l
  BY StreamIs
<1>2. s \in Seq(Things) /\ t \in Seq(Things)
  BY <1>1 DEF Stretch
<1>3. k \in Nat /\ l \in Nat
  BY <1>1, <1>2
<1>4. \A i \in 1 .. k : s[i] = StreamByte(0 + i)
  BY <1>2, StretchAt
<1>5. \A i \in 1 .. l : t[i] = StreamByte(0 + i)
  BY <1>1, <1>2, StretchAt
<1> HIDE DEF t, l
<1>6. ASSUME k = l PROVE s = t
  <2>1. \A i \in 1 .. Len(s) : s[i] = t[i]
    BY <1>4, <1>5, <1>6
  <2> QED
    BY <1>1, <1>2, <1>6, <2>1, SeqEqual
<1>7. ASSUME k <= l PROVE IsPrefix(s, t)
  <2> DEFINE a == SubSeq(s, 1, k)
             b == SubSeq(t, 1, k)
  <2>1. \A i \in 1 .. k : s[i] \in Things /\ t[i] \in Things
    BY <1>1, <1>2, <1>3, <1>7
  <2>2. a \in Seq(Things) /\ Len(a) = k /\ \A i \in 1 .. k : a[i] = s[i]
    BY <1>2, <1>3
  <2>3. b \in Seq(Things) /\ Len(b) = k /\ \A i \in 1 .. k : b[i] = t[i]
    BY <1>1, <1>2, <1>3, <1>7
  <2>4. \A i \in 1 .. k : s[i] = t[i]
    BY <1>3, <1>4, <1>5, <1>7
  <2> HIDE DEF a, b
  <2>5. a = b
    <3>1. \A i \in 1 .. Len(a) : a[i] = b[i]
      BY <2>2, <2>3, <2>4
    <3> QED
      BY <2>2, <2>3, <3>1, SeqEqual
  <2> QED
    BY <1>1, <1>7, <2>5 DEF IsPrefix, a, b
<1> QED
  BY <1>6, <1>7 DEF t, l

(* What a buffer holds, as a sequence.                                     *)
Cut(u, s, from, n) ==
    from \in Nat /\ n \in Nat /\ from + n <= Len(s) /\ u = SubSeq(s, from + 1, from + n)

LEMMA PartStretch ==
    ASSUME NEW s \in Seq(Bytes), NEW from, NEW n, NEW p \in Nat, NEW u,
           Holds(s, from, n, p), Cut(u, s, from, n)
    PROVE  Stretch(u, p) /\ Len(u) = n
<1>1. from \in Nat /\ n \in Nat /\ from + n <= Len(s) /\ u = SubSeq(s, from + 1, from + n)
  BY DEF Cut
<1>2. u \in Seq(Bytes) /\ Len(u) = n
  BY <1>1, PartIs
<1>3. \A i \in 1 .. n : u[i] = s[from + i]
  BY <1>1, PartIs
<1>4. \A i \in 1 .. Len(u) : u[i] = StreamByte(p + i)
  BY <1>2, <1>3 DEF Holds
<1>5. u \in Seq(Things)
  BY <1>2, WiderIs
<1> QED
  BY <1>2, <1>4, <1>5, StretchAt

(* What is on the wire, or arrived, as a sequence.                         *)
LEMMA WireStretch ==
    ASSUME NEW s \in Seq(Bytes), NEW p \in Nat, Holds(s, 0, Len(s), p)
    PROVE  Stretch(s, p)
  BY WiderIs DEF Stretch

(* What the invariant says of the bytes to the script, as sequences.       *)
LEMMA InNotLost ==
    ASSUME TypeOK, Sizes, UnderWay, InStream
    PROVE  LET taken == Stream(Len(values)) \o Unread(inbox) \o Filled
           IN  /\ values = [i \in DOMAIN values |-> i]
               /\ IF OverIn THEN IsPrefix(taken, Stream(produced)) ELSE taken \o wire = Stream(produced)
<1> DEFINE first == Stream(Len(values))
           second == Unread(inbox)
           third == Filled
           z == 0
           p1 == Taken
           p2 == Taken + Waiting
           p3 == Taken + Waiting + Got
           both == first \o second
           taken == both \o third
           all == taken \o wire
<1>1. Taken \in Nat /\ Waiting \in Nat /\ Got \in Nat /\ Len(wire) \in Nat
      /\ Len(values) \in Nat
  BY NaturalsAre
<1>2. p1 \in Nat /\ p2 \in Nat /\ p3 \in Nat /\ z = 0 /\ z \in Nat /\ p1 = z + p1
      /\ p2 = p1 + Waiting /\ p3 = p2 + Got
  BY <1>1
<1>3. inbox.bytes \in Seq(Bytes) /\ fresh.bytes \in Seq(Bytes) /\ wire \in Seq(Bytes)
  BY TypesAre, BufferIs
<1>4. inbox.read \in Nat /\ inbox.write \in Nat /\ inbox.write <= Capacity
      /\ inbox.read <= inbox.write
      /\ fresh.write <= Len(fresh.bytes) /\ Len(inbox.bytes) = Capacity
  BY TypesAre, BufferIs DEF Sizes
<1>5. Stretch(first, z) /\ Len(first) = p1
  <2>1. Stretch(Stream(Len(values)), 0) /\ Len(Stream(Len(values))) = Length(Len(values))
    BY <1>1, StreamIs
  <2> QED
    BY <2>1 DEF Taken
<1>6. Stretch(second, p1) /\ Len(second) = Waiting
  <2> DEFINE n == Waiting
             at == inbox.read
             s == inbox.bytes
  <2>1. at + n = inbox.write /\ at + n <= Len(s)
    BY <1>1, <1>4 DEF Waiting
  <2>2. Holds(s, at, n, p1) /\ s \in Seq(Bytes)
    BY <1>3, InStreamIs
  <2>3. Cut(second, s, at, n)
    BY <1>1, <1>4, <2>1 DEF Cut, Unread
  <2> HIDE DEF n, at, s, second, p1
  <2>4. Stretch(second, p1) /\ Len(second) = n
    BY <1>2, <2>2, <2>3, PartStretch
  <2> QED
    BY <2>4 DEF n
<1>7. Stretch(third, p2) /\ Len(third) = Got
  <2> DEFINE n == Got
             s == fresh.bytes
  <2>1. z + n = n /\ n <= Len(s) /\ z + 1 = 1
    <3>1. Receiving => call.done < Len(fresh.bytes)
      BY DEF UnderWay
    <3>2. Len(fresh.bytes) \in Nat
      BY <1>3
    <3> QED
      BY <1>1, <1>4, <3>1, <3>2 DEF Got
  <2>2. Holds(s, z, n, p2) /\ s \in Seq(Bytes)
    BY <1>3, InStreamIs
  <2>3. third = SubSeq(s, 1, n)
    BY DEF Filled, Got
  <2>5. Cut(third, s, z, n)
    BY <1>1, <1>2, <2>1, <2>3 DEF Cut
  <2> HIDE DEF n, s, third, p2, z
  <2>4. Stretch(third, p2) /\ Len(third) = n
    BY <1>2, <2>2, <2>5, PartStretch
  <2> QED
    BY <2>4 DEF n
<1>8. Stretch(wire, p3)
  <2>1. Holds(wire, 0, Len(wire), p3)
    BY InStreamIs
  <2> HIDE DEF p3
  <2> QED
    BY <1>2, <1>3, <2>1, WireStretch
<1> HIDE DEF first, second, third, p1, p2, p3, z
<1>9. Stretch(both, z) /\ Len(both) = p2
  <2>1. p1 = z + Len(first)
    BY <1>2, <1>5
  <2>2. Stretch(both, z)
    BY <1>2, <1>5, <1>6, <2>1, StretchesJoin
  <2>3. Len(both) = Len(first) + Len(second)
    BY <1>2, <1>5, <1>6, <2>1, StretchesJoin
  <2> QED
    BY <1>2, <1>5, <1>6, <2>2, <2>3
<1> HIDE DEF both
<1>10. Stretch(taken, z) /\ Len(taken) = p3
  <2>1. p2 = z + Len(both)
    BY <1>2, <1>9
  <2>2. Stretch(taken, z)
    BY <1>2, <1>7, <1>9, <2>1, StretchesJoin
  <2>3. Len(taken) = Len(both) + Len(third)
    BY <1>2, <1>7, <1>9, <2>1, StretchesJoin
  <2> QED
    BY <1>2, <1>7, <1>9, <2>2, <2>3
<1> HIDE DEF taken
<1>11. Stretch(all, z) /\ Len(all) = p3 + Len(wire)
  <2>1. p3 = z + Len(taken)
    BY <1>2, <1>10
  <2>2. Stretch(all, z)
    BY <1>2, <1>8, <1>10, <2>1, StretchesJoin
  <2>3. Len(all) = Len(taken) + Len(wire)
    BY <1>2, <1>8, <1>10, <2>1, StretchesJoin
  <2> QED
    BY <1>10, <2>2, <2>3
<1> HIDE DEF all
<1>12. InLength = p3 + Len(wire)
  BY DEF InLength, p3
<1>13. produced \in Nat /\ Length(produced) \in Nat
  BY TypesAre, NaturalsAre
<1>14. IF OverIn THEN IsPrefix(taken, Stream(produced)) ELSE all = Stream(produced)
  <2>1. CASE OverIn
    <3>1. InLength <= Length(produced)
      BY <2>1, InStreamIs
    <3>2. Len(taken) <= Length(produced)
      BY <1>1, <1>2, <1>10, <1>12, <1>13, <3>1
    <3>3. Stretch(taken, 0)
      BY <1>2, <1>10
    <3> QED
      BY <1>13, <2>1, <3>2, <3>3, StretchIsPrefix
  <2>2. CASE ~OverIn
    <3>1. Len(all) = Length(produced)
      BY <1>11, <1>12, <2>2, InStreamIs
    <3>2. Stretch(all, 0)
      BY <1>2, <1>11
    <3> QED
      BY <1>13, <2>2, <3>1, <3>2, StretchIsPrefix
  <2> QED
    BY <2>1, <2>2
<1>15. values = [i \in DOMAIN values |-> i]
  <2>1. values \in Seq(0 .. MaxFields)
    BY TypesAre
  <2>2. DOMAIN values = 1 .. Len(values) /\ values = [i \in DOMAIN values |-> values[i]]
    BY <2>1
  <2>3. \A i \in 1 .. Len(values) : values[i] = i
    BY InStreamIs
  <2> QED
    BY <2>2, <2>3
<1> QED
  BY <1>14, <1>15 DEF first, second, third, both, taken, all

(* The same for the bytes from it.                                         *)
LEMMA OutNotLost ==
    ASSUME TypeOK, Sizes, UnderWay, OutStream
    PROVE  IF OverOut THEN IsPrefix(arrived, Stream(written)) ELSE arrived \o Unsent = Stream(written)
<1>1. arrived \in Seq(Bytes) /\ outbox.bytes \in Seq(Bytes) /\ written \in Nat
      /\ Len(arrived) \in Nat
      /\ Len(outbox.bytes) = Capacity /\ outbox.write <= Capacity /\ outbox.write \in Nat
  BY TypesAre, BufferIs, NaturalsAre DEF Sizes
<1>2. Stretch(arrived, 0)
  BY <1>1, OutStreamIs, WireStretch
<1>3. CASE OverOut
  BY <1>1, <1>2, <1>3, OutStreamIs, StretchIsPrefix
<1>4. CASE ~OverOut
  <2> DEFINE n == outbox.write - Gone
             at == Gone
             s == outbox.bytes
             p == Len(arrived)
             u == Unsent
             z == 0
             all == arrived \o u
  <2>1. n \in Nat /\ at \in Nat /\ at + n = outbox.write /\ at + n <= Len(s) /\ p \in Nat
        /\ z = 0 /\ z \in Nat /\ p = z + p
    BY <1>1, NaturalsAre
  <2>2. Holds(s, at, n, p) /\ p + n = Length(written) /\ s \in Seq(Bytes)
    BY <1>1, <1>4, OutStreamIs DEF OutLength
  <2>3. Cut(u, s, at, n)
    <3>1. Gone + 1 = IF Sending THEN call.done + 1 ELSE 1
      BY DEF Gone
    <3>2. u = SubSeq(s, at + 1, at + n)
      BY <2>1, <3>1 DEF Unsent
    <3> QED
      BY <2>1, <3>2 DEF Cut
  <2> HIDE DEF n, at, s, u
  <2>4. Stretch(u, p) /\ Len(u) = n
    BY <2>1, <2>2, <2>3, PartStretch
  <2>5. Stretch(arrived, z)
    BY <1>2
  <2>6. p = z + Len(arrived)
    BY <2>1
  <2> HIDE DEF p, z
  <2>7. Stretch(all, z)
    BY <2>1, <2>4, <2>5, <2>6, StretchesJoin
  <2>8. Len(all) = Len(arrived) + Len(u)
    BY <2>1, <2>4, <2>5, <2>6, StretchesJoin
  <2>9. Len(all) = Length(written)
    BY <2>2, <2>4, <2>8 DEF p
  <2>10. Stretch(all, 0)
    BY <2>1, <2>7
  <2> HIDE DEF all
  <2>11. all = Stream(written)
    BY <1>1, <2>9, <2>10, StretchIsPrefix
  <2> QED
    BY <1>4, <2>11 DEF all, u
<1> QED
  BY <1>3, <1>4

(* A TCP connection loses, repeats and reorders nothing between the values *)
(* of the two sides, for buffers of any capacity, any number of fields and *)
(* every sequence of partial transfers and failing calls; what came through*)
(* when it is lost, or a call said so, is a part from the start            *)
(* (Socket.lua:45, 55-84).                                                 *)
THEOREM NothingLostThm == Spec => []NothingLost
<1>1. SocketProofInv => NothingLost
  <2> SUFFICES ASSUME SocketProofInv, Is("TCP") PROVE NothingLost
    BY DEF NothingLost
  <2>1. TypeOK /\ Sizes /\ UnderWay /\ InStream /\ OutStream
    BY DEF SocketProofInv, SocketInv, StreamsInv
  <2> QED
    BY <2>1, InNotLost, OutNotLost DEF NothingLost
<1> QED
  BY <1>1, SocketProofInvHolds, PTL
=============================================================================
