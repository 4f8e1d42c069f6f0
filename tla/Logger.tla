------------------------------- MODULE Logger -------------------------------
(***************************************************************************)
(* The log of the server (src/core/util/advanced_log.cpp) over many starts *)
(* of the process: log_mutex_, which all threads take with every line they *)
(* log, the rotation of the files at the start and at a size limit, the    *)
(* signal handler of main.cpp, which logs too, and processes that are      *)
(* killed at any point.                                                    *)
(*                                                                         *)
(* A line is the number it has in the order of time stamps.  File 0 is     *)
(* get_full_log_path(), file n its backup ".n".  As on Linux, the signal   *)
(* handler runs in main()'s thread, which stands still meanwhile, and a    *)
(* thread that locks a std::mutex it has locked already waits for ever.    *)
(***************************************************************************)
EXTENDS Naturals, Sequences, FiniteSets

CONSTANTS
    Threads,    \* threads that log
    Main,       \* main()'s
    Handler,    \* the signal handler, as a thread of its own
    Nobody,
    Settings,   \* values of max_log_files in the configuration file
    SizeLimit,  \* lines at which a file has max_file_size
    MaxLines,   \* bound: lines logged
    MaxStarts   \* bound: starts of the process

ASSUME LoggerAssumption ==
    /\ Main \in Threads
    /\ Handler \notin Threads
    /\ Nobody \notin Threads \cup {Handler}
    /\ Settings \subseteq Nat
    /\ SizeLimit \in Nat \ {0}
    /\ MaxLines \in Nat
    /\ MaxStarts \in Nat

VARIABLES
    (* on disk *)
    files,          \* the files there are, and their lines
    (* in the process *)
    process,        \* down, in initialize(): rotating, renaming, opening; up, exiting
    max_log_files,
    i,              \* of the loop in rotate_logs_unsafe()
    log_file_,      \* is it open?
    log_mutex_,     \* its owner
    pc,             \* out, lock, check, rotate, write
    stamp,          \* the line a thread is about to write
    (* for the bounds and the properties *)
    lines,          \* lines that got a time stamp
    starts,
    interruptions,  \* starts that did not end with a new file
    dropped         \* files that this start's rotation has overwritten

memoryVars == <<max_log_files, i, log_file_>>
callVars   == <<log_mutex_, pc, stamp>>
countVars  == <<lines, starts, interruptions, dropped>>
vars == <<files, process, memoryVars, callVars, countVars>>

Callers == Threads \cup {Handler}

TypeOK ==
    /\ DOMAIN files \subseteq Nat
    /\ \A n \in DOMAIN files : files[n] \in Seq(1 .. lines)
    /\ process \in {"down", "rotating", "renaming", "opening", "up", "exiting"}
    /\ max_log_files \in Nat
    /\ i \in Nat
    /\ log_file_ \in BOOLEAN
    /\ log_mutex_ \in Callers \cup {Nobody}
    /\ pc \in [Callers -> {"out", "lock", "check", "rotate", "write"}]
    /\ stamp \in [Callers -> 0 .. lines]
    /\ lines \in Nat
    /\ starts \in 0 .. MaxStarts
    /\ interruptions \in 0 .. starts
    /\ dropped \in Nat

NoCalls ==
    /\ log_mutex_' = Nobody
    /\ pc' = [t \in Callers |-> "out"]
    /\ stamp' = [t \in Callers |-> 0]

Init ==
    /\ files = [n \in {} |-> <<>>]
    /\ process = "down"
    /\ max_log_files = 0
    /\ i = 0
    /\ log_file_ = FALSE
    /\ log_mutex_ = Nobody
    /\ pc = [t \in Callers |-> "out"]
    /\ stamp = [t \in Callers |-> 0]
    /\ lines = 0
    /\ starts = 0
    /\ interruptions = 0
    /\ dropped = 0

-----------------------------------------------------------------------------
(* initialize().                                                           *)

Process(from, to) ==
    /\ process = from
    /\ process' = to

(* load_config(), and the beginning of rotate_logs_unsafe().               *)
Start ==
    /\ Process("down", "rotating")
    /\ starts < MaxStarts
    /\ starts' = starts + 1
    /\ max_log_files' \in Settings
    /\ i' = IF max_log_files' = 0 THEN 0 ELSE max_log_files' - 1
    /\ log_mutex_' = Main
    /\ dropped' = 0
    /\ UNCHANGED <<files, log_file_, pc, stamp, lines, interruptions>>

(* std::filesystem::rename() replaces a file of the new name.              *)
Rename(from, to) ==
    IF from \in DOMAIN files
    THEN /\ files' = [n \in (DOMAIN files \ {from}) \cup {to} |->
                         IF n = to THEN files[from] ELSE files[n]]
         /\ dropped' = dropped + (IF to \in DOMAIN files THEN 1 ELSE 0)
    ELSE UNCHANGED <<files, dropped>>

(* Mutant: the loop does not end before the current file.                  *)
RotateBackupFromZero ==
    /\ process = "rotating"
    /\ IF i >= 0
       THEN /\ Rename(i, i + 1)
            /\ i' = i - 1
            /\ UNCHANGED process
       ELSE /\ process' = "renaming"
            /\ UNCHANGED <<files, i, dropped>>
    /\ UNCHANGED <<max_log_files, log_file_, callVars, lines, starts, interruptions>>

(* Mutant: from the newest backup to the oldest.                           *)
RotateBackupUpwards ==
    /\ process = "rotating"
    /\ IF i > 0
       THEN /\ Rename(max_log_files - i, max_log_files - i + 1)
            /\ i' = i - 1
            /\ UNCHANGED process
       ELSE /\ process' = "renaming"
            /\ UNCHANGED <<files, i, dropped>>
    /\ UNCHANGED <<max_log_files, log_file_, callVars, lines, starts, interruptions>>

(* From the oldest backup to the newest.                                   *)
RotateBackup ==
    /\ process = "rotating"
    /\ IF i > 0
       THEN /\ Rename(i, i + 1)
            /\ i' = i - 1
            /\ UNCHANGED process
       ELSE /\ process' = "renaming"
            /\ UNCHANGED <<files, i, dropped>>
    /\ UNCHANGED <<max_log_files, log_file_, callVars, lines, starts, interruptions>>

RotateCurrent ==
    /\ Process("renaming", "opening")
    /\ Rename(0, 1)
    /\ UNCHANGED <<memoryVars, callVars, lines, starts, interruptions>>

(* Opened for appending, if it can be opened.  initialize() returns.       *)
OpenLogFile ==
    /\ Process("opening", "up")
    /\ \/ /\ log_file_' = TRUE
          /\ files' = [n \in DOMAIN files \cup {0} |-> IF n \in DOMAIN files THEN files[n] ELSE <<>>]
          /\ UNCHANGED interruptions
       \/ /\ log_file_' = FALSE
          /\ interruptions' = interruptions + 1
          /\ UNCHANGED files
    /\ log_mutex_' = Nobody
    /\ UNCHANGED <<max_log_files, i, pc, stamp, lines, starts, dropped>>

-----------------------------------------------------------------------------
(* log_internal().                                                         *)

Interrupted == pc[Handler] # "out"

(* A thread that can run: main() stands still while the handler runs.      *)
Runs(t) ==
    /\ process \in {"up", "exiting"}
    /\ t = Main => ~Interrupted

At(t, from, to) ==
    /\ Runs(t)
    /\ pc[t] = from
    /\ pc' = [pc EXCEPT ![t] = to]

Calling == {t \in Callers : pc[t] \in {"lock", "check", "rotate"}}

(* A line that should_log() lets pass.                                     *)
Call(t) ==
    /\ process = "up"
    /\ At(t, "out", "lock")
    /\ lines + Cardinality(Calling) < MaxLines
    /\ UNCHANGED <<files, process, memoryVars, log_mutex_, stamp, countVars>>

(* The handler, called by a signal, logs before it stops the server.       *)
Signal == Call(Handler)

(* Mutant: log_mutex_ is not taken.                                        *)
LockNothing(t) ==
    /\ At(t, "lock", "check")
    /\ UNCHANGED <<files, process, memoryVars, log_mutex_, stamp, countVars>>

Lock(t) ==
    /\ At(t, "lock", "check")
    /\ log_mutex_ = Nobody
    /\ log_mutex_' = t
    /\ UNCHANGED <<files, process, memoryVars, stamp, countVars>>

LogFileSize == IF 0 \in DOMAIN files THEN Len(files[0]) ELSE 0

SizeExceeded == LogFileSize >= SizeLimit

(* rotate_if_size_exceeded() calls rotate_logs(), which locks log_mutex_   *)
(* once more: nothing leads on from "rotate".  Otherwise the line gets its *)
(* time stamp.                                                             *)
Check(t) ==
    \/ /\ SizeExceeded
       /\ At(t, "check", "rotate")
       /\ UNCHANGED <<files, process, memoryVars, log_mutex_, stamp, countVars>>
    \/ /\ ~SizeExceeded
       /\ At(t, "check", "write")
       /\ lines' = lines + 1
       /\ stamp' = [stamp EXCEPT ![t] = lines + 1]
       /\ UNCHANGED <<files, process, memoryVars, log_mutex_, starts, interruptions, dropped>>

(* Mutant: log_mutex_ stays locked if the file could not be opened.        *)
WriteLocked(t) ==
    /\ At(t, "write", "out")
    /\ files' = IF log_file_ THEN [files EXCEPT ![0] = Append(@, stamp[t])] ELSE files
    /\ log_mutex_' = IF log_file_ THEN Nobody ELSE log_mutex_
    /\ UNCHANGED <<process, memoryVars, stamp, countVars>>

(* std::endl: what is written is on disk.                                  *)
Write(t) ==
    /\ At(t, "write", "out")
    /\ files' = IF log_file_ THEN [files EXCEPT ![0] = Append(@, stamp[t])] ELSE files
    /\ log_mutex_' = Nobody
    /\ UNCHANGED <<process, memoryVars, stamp, countVars>>

LogStep(t) == Lock(t) \/ Check(t) \/ Write(t)

-----------------------------------------------------------------------------
(* The end of the process.                                                 *)

(* main() returns; the logger is destroyed, other threads still run.       *)
Exit ==
    /\ pc[Main] = "out"
    /\ ~Interrupted
    /\ Process("up", "exiting")
    /\ UNCHANGED <<files, memoryVars, callVars, countVars>>

(* ~Logger() and the end of what runs still.                               *)
Shutdown ==
    /\ Process("exiting", "down")
    /\ log_mutex_ = Nobody
    /\ log_file_' = FALSE
    /\ NoCalls
    /\ UNCHANGED <<files, max_log_files, i, countVars>>

(* The process is killed, or ends by an exception that nobody catches, as  *)
(* of a rename() that fails.                                               *)
Crash ==
    /\ process # "down"
    /\ process' = "down"
    /\ log_file_' = FALSE
    /\ interruptions' = interruptions +
           (IF process \in {"rotating", "renaming", "opening"} THEN 1 ELSE 0)
    /\ NoCalls
    /\ UNCHANGED <<files, max_log_files, i, lines, starts, dropped>>

(* All starts are used up.                                                 *)
Ended ==
    /\ process = "down"
    /\ starts = MaxStarts
    /\ UNCHANGED vars

Initialize == Start \/ RotateBackup \/ RotateCurrent \/ OpenLogFile

Next ==
    \/ Initialize
    \/ \E t \in Threads : Call(t)
    \/ Signal
    \/ \E t \in Callers : LogStep(t)
    \/ Exit \/ Shutdown \/ Crash
    \/ Ended

Spec == Init /\ [][Next]_vars

(* Threads run; who waits for log_mutex_ gets it in the end.               *)
FairSpec ==
    /\ Spec
    /\ \A t \in Callers : SF_vars(Lock(t)) /\ WF_vars(Check(t) \/ Write(t))
=============================================================================
