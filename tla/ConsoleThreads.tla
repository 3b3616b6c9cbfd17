--------------------------- MODULE ConsoleThreads ---------------------------
(***************************************************************************)
(* Threads that share the console: Console.ReadLine and Console.WriteLine  *)
(* (Extensions/Console/Console.lua) hold the default mutex of the Mutex    *)
(* extension from the first piece of output to the last piece of input;    *)
(* the main thread starts and joins the others (Extensions/Thread), and    *)
(* reports of failures there go to the console without the mutex.          *)
(***************************************************************************)
EXTENDS Integers, Sequences, FiniteSets

CONSTANTS
    Threads,   \* all threads of the program
    Main,      \* the one that runs the script
    Raises,    \* arguments may be wrong: a call may raise a Lua error
    MaxCalls,  \* bound: console calls of a thread
    MaxPieces, \* bound: pieces of a prompt, three in the code
    MaxReports \* bound: exceptions in thread_start and thread_join

ASSUME ConsoleAssumption ==
    /\ Main \in Threads
    /\ Raises \in BOOLEAN
    /\ MaxCalls \in Nat
    /\ MaxPieces \in Nat
    /\ MaxReports \in Nat

Nobody == "nobody"
ASSUME NobodyAssumption == Nobody \notin Threads

VARIABLES
    thread_pc,  \* where a thread is
    object,     \* the thread object behind the handle Thread.Start returned
    joining,    \* the thread Main waits for in thread_join
    owner,      \* the thread that holds the default mutex
    number,     \* number of the thread's current or last call
    pieces,     \* pieces of the prompt it has yet to write
    last_line,  \* console_last_line: the call whose input it holds
    value,      \* the call whose input the thread's last ReadLine returned
    screen,     \* history: the calls the pieces on the screen belong to
    raised,     \* history: threads in whose console call an error was raised
    reports     \* history: number of exceptions reported

consoleVars == <<owner, number, pieces, last_line, value, screen>>
errorVars   == <<raised, reports>>
threadVars  == <<object, joining, errorVars>>
systemVars  == <<thread_pc, consoleVars, threadVars>>

CallId == Threads \X (0 .. MaxCalls)
NoCall == <<Nobody, 0>>
Report == NoCall   \* what an exception report leaves on the screen

ConsoleTypeOK ==
    /\ thread_pc \in [Threads -> {"new", "work", "write wait", "read wait", "write", "prompt",
                                  "input", "copy", "unlock", "ended"}]
    /\ object \in [Threads -> {"none", "live", "freed"}]
    /\ joining \in Threads \cup {Nobody}
    /\ owner \in Threads \cup {Nobody}
    /\ number \in [Threads -> 0 .. MaxCalls]
    /\ pieces \in [Threads -> 0 .. MaxPieces]
    /\ last_line \in CallId \cup {NoCall}
    /\ value \in [Threads -> CallId \cup {NoCall}]
    /\ screen \in Seq(CallId \cup {Report})
    /\ raised \subseteq Threads
    /\ reports \in 0 .. MaxReports

ConsoleInit ==
    /\ thread_pc = [t \in Threads |-> IF t = Main THEN "work" ELSE "new"]
    /\ object = [t \in Threads |-> "none"]
    /\ joining = Nobody
    /\ owner = Nobody
    /\ number = [t \in Threads |-> 0]
    /\ pieces = [t \in Threads |-> 0]
    /\ last_line = NoCall
    /\ value = [t \in Threads |-> NoCall]
    /\ screen = <<>>
    /\ raised = {}
    /\ reports = 0

Moves(t, from, to) ==
    /\ thread_pc[t] = from
    /\ thread_pc' = [thread_pc EXCEPT ![t] = to]

Free(t) == thread_pc[t] = "work" /\ (t = Main => joining = Nobody)
ThisCall(t) == <<t, number[t]>>

-----------------------------------------------------------------------------
(* The console.                                                            *)

Calls(t, waiting) ==
    /\ Free(t)
    /\ number[t] < MaxCalls
    /\ thread_pc' = [thread_pc EXCEPT ![t] = waiting]
    /\ number' = [number EXCEPT ![t] = @ + 1]
    /\ UNCHANGED <<owner, pieces, last_line, value, screen, threadVars>>

WriteLine(t) == Calls(t, "write wait")
ReadLine(t)  == Calls(t, "read wait")

(* Mutant: the mutex lets everyone in.                                     *)
mutex_lock_shared(t) ==
    /\ owner' = t
    /\ \/ /\ Moves(t, "write wait", "write")
          /\ UNCHANGED pieces
       \/ /\ Moves(t, "read wait", "prompt")
          /\ pieces' \in {[pieces EXCEPT ![t] = k] : k \in 0 .. MaxPieces}
    /\ UNCHANGED <<number, last_line, value, screen, threadVars>>

mutex_lock(t) ==
    /\ owner = Nobody
    /\ owner' = t
    /\ \/ /\ Moves(t, "write wait", "write")
          /\ UNCHANGED pieces
       \/ /\ Moves(t, "read wait", "prompt")
          /\ pieces' \in {[pieces EXCEPT ![t] = k] : k \in 0 .. MaxPieces}
    /\ UNCHANGED <<number, last_line, value, screen, threadVars>>

Shows(t) == screen' = Append(screen, ThisCall(t))

console_write_line(t) ==
    /\ Moves(t, "write", "unlock")
    /\ Shows(t)
    /\ UNCHANGED <<owner, number, pieces, last_line, value, threadVars>>

(* Date, module and prefix, as many of them as the call asks for.          *)
console_write(t) ==
    /\ thread_pc[t] = "prompt"
    /\ pieces[t] > 0
    /\ pieces' = [pieces EXCEPT ![t] = @ - 1]
    /\ Shows(t)
    /\ UNCHANGED <<thread_pc, owner, number, last_line, value, threadVars>>

(* The user's line goes to a global string and from there to Lua.          *)
console_read_line(t) ==
    /\ pieces[t] = 0
    /\ Moves(t, "prompt", "input")
    /\ UNCHANGED <<consoleVars, threadVars>>

(* Mutant: the mutex is released before the line is copied.                *)
UserTypesUnlocked(t) ==
    /\ Moves(t, "input", "copy")
    /\ last_line' = ThisCall(t)
    /\ owner' = Nobody
    /\ Shows(t)
    /\ UNCHANGED <<number, pieces, value, threadVars>>

UserTypes(t) ==
    /\ Moves(t, "input", "copy")
    /\ last_line' = ThisCall(t)
    /\ Shows(t)
    /\ UNCHANGED <<owner, number, pieces, value, threadVars>>

ReadLineReturns(t) ==
    /\ Moves(t, "copy", "unlock")
    /\ value' = [value EXCEPT ![t] = last_line]
    /\ UNCHANGED <<owner, number, pieces, last_line, screen, threadVars>>

(* Mutant: the call returns early and leaves the mutex locked.             *)
ReadFailsLocked(t) ==
    /\ Moves(t, "input", "work")
    /\ value' = [value EXCEPT ![t] = NoCall]
    /\ UNCHANGED <<owner, number, pieces, last_line, screen, threadVars>>

(* Reading may fail: the call returns nil.                                 *)
ReadLineFails(t) ==
    /\ Moves(t, "input", "unlock")
    /\ value' = [value EXCEPT ![t] = NoCall]
    /\ UNCHANGED <<owner, number, pieces, last_line, screen, threadVars>>

mutex_unlock(t) ==
    /\ Moves(t, "unlock", "work")
    /\ owner' = Nobody
    /\ UNCHANGED <<number, pieces, last_line, value, screen, threadVars>>

(* A module or value that does not concatenate raises an error, which      *)
(* leaves the mutex locked; the function of the thread catches it and goes *)
(* on, or ends.                                                            *)
Raise(t) ==
    /\ Raises
    /\ thread_pc[t] = "write" \/ (thread_pc[t] = "prompt" /\ pieces[t] > 0)
    /\ thread_pc' \in {[thread_pc EXCEPT ![t] = to] : to \in {"work", "ended"}}
    /\ raised' = raised \cup {t}
    /\ UNCHANGED <<consoleVars, object, joining, reports>>

-----------------------------------------------------------------------------
(* Threads.                                                                *)

(* A failure of a thread function is written to the console, whoever holds *)
(* the mutex.                                                              *)
WriteException ==
    /\ reports < MaxReports
    /\ reports' = reports + 1
    /\ screen' = Append(screen, Report)
    /\ UNCHANGED <<owner, number, pieces, last_line, value, raised>>

(* The thread may run before thread_start returns.                         *)
thread_start(t) ==
    /\ Free(Main)
    /\ t # Main
    /\ Moves(t, "new", "work")
    /\ object' = [object EXCEPT ![t] = "live"]
    /\ UNCHANGED <<joining, consoleVars, errorVars>>

(* It could not be started: thread_start returns nil.                      *)
thread_start_fails(t) ==
    /\ Free(Main)
    /\ t # Main
    /\ thread_pc[t] = "new"
    /\ WriteException
    /\ UNCHANGED <<thread_pc, object, joining>>

Ends(t) ==
    /\ t # Main
    /\ Moves(t, "work", "ended")
    /\ UNCHANGED <<consoleVars, threadVars>>

(* A thread that is still running is waited for.                           *)
thread_join(t) ==
    /\ Free(Main)
    /\ object[t] = "live"
    /\ thread_pc[t] # "ended"
    /\ joining' = t
    /\ UNCHANGED <<thread_pc, object, consoleVars, errorVars>>

(* It has ended: the object is deleted and thread_join returns true.       *)
Joined ==
    /\ joining # Nobody
    /\ thread_pc[joining] = "ended"
    /\ object' = [object EXCEPT ![joining] = "freed"]
    /\ joining' = Nobody
    /\ UNCHANGED <<thread_pc, consoleVars, errorVars>>

JoinTimesOut ==
    /\ joining # Nobody
    /\ joining' = Nobody
    /\ UNCHANGED <<thread_pc, object, consoleVars, errorVars>>

(* Waiting fails: thread_join returns false as after a time out.           *)
JoinFails ==
    /\ joining # Nobody
    /\ joining' = Nobody
    /\ WriteException
    /\ UNCHANGED <<thread_pc, object>>

-----------------------------------------------------------------------------

Inside(t) ==
    \/ mutex_lock(t) \/ mutex_unlock(t)
    \/ console_write_line(t) \/ console_write(t) \/ console_read_line(t)
    \/ UserTypes(t) \/ ReadLineReturns(t) \/ ReadLineFails(t)

ThreadStep(t) ==
    \/ WriteLine(t) \/ ReadLine(t)
    \/ Inside(t)
    \/ Raise(t)
    \/ thread_start(t) \/ thread_start_fails(t) \/ Ends(t) \/ thread_join(t)

ConsoleNext == Joined \/ JoinTimesOut \/ JoinFails \/ \E t \in Threads : ThreadStep(t)

ConsoleSpec == ConsoleInit /\ [][ConsoleNext]_systemVars

(* Threads run on, the user answers a prompt, and a mutex that is released *)
(* again and again is obtained at last.                                    *)
ConsoleFairSpec ==
    ConsoleSpec /\ \A t \in Threads : WF_systemVars(Inside(t)) /\ SF_systemVars(mutex_lock(t))

-----------------------------------------------------------------------------

(* What a call writes, and what the user types for it, stand together on   *)
(* the screen: no line of another call cuts a prompt into pieces, not even *)
(* while the prompt waits for input (Console.lua:18-34).  Only a report of *)
(* a failing thread function can stand between them: it is written without *)
(* the mutex (Thread/main.cpp:45-49, 73-79).                               *)
CallsStayWhole ==
    \A i, j, k \in DOMAIN screen :
        i < j /\ j < k /\ screen[i] = screen[k] /\ screen[i] # Report =>
            screen[j] \in {screen[i], Report}

(* A ReadLine returns the line typed for it, although all threads read     *)
(* into one global string (Console/main.cpp:11, 26-29).                    *)
ReadsItsOwnLine ==
    \A t \in Threads : thread_pc[t] = "unlock" => value[t][1] \in {t, Nobody}

(* A thread object is deleted only after its thread has ended              *)
(* (Thread/main.cpp:63-84).                                                *)
FreedAfterEnd == \A t \in Threads : object[t] = "freed" => thread_pc[t] = "ended"

(* An error inside a console call has left the default mutex locked, for   *)
(* good: the thread does not come back to unlock it.                       *)
Orphaned == owner \in raised

(* Every console call returns, unless an error in another call has left    *)
(* the mutex locked (Console.lua:44-58).                                   *)
CallsReturn ==
    \A t \in Threads :
        (thread_pc[t] \notin {"new", "work", "ended"}) ~> (thread_pc[t] \in {"work", "ended"} \/ Orphaned)

(* The types, and what threads share and none may take from another: the   *)
(* global string with the input, and thread objects that are in use.       *)
ConsoleInv == ConsoleTypeOK /\ ReadsItsOwnLine /\ FreedAfterEnd
=============================================================================
