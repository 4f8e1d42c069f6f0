-------------------------- MODULE LoggerProperties --------------------------
(* What is claimed of the log.                                             *)
EXTENDS Logger

(* Each file has its lines in the order of their time stamps, and each     *)
(* backup only lines that are older than those of the files before it,     *)
(* whatever threads log, wherever a rotation was interrupted, and however  *)
(* the configuration was changed in between (advanced_log.cpp:168, 274).   *)
LogIsInOrder ==
    /\ \A n \in DOMAIN files : \A k, l \in DOMAIN files[n] :
           k < l => files[n][k] < files[n][l]
    /\ \A n, m \in DOMAIN files : n < m =>
           \A k \in DOMAIN files[n], l \in DOMAIN files[m] : files[m][l] < files[n][k]

(* A start overwrites one backup at most, and only if it then has as many  *)
(* as are configured, less one for each start that was interrupted or      *)
(* could not open its file (advanced_log.cpp:168, README.md:211 "retaining *)
(* the configured number of backups").                                     *)
BackupsAreRetained ==
    /\ dropped <= 1
    /\ process = "up" /\ dropped = 1 =>
           Cardinality(1 .. max_log_files \ DOMAIN files) <= interruptions

(* A thread that waits for a mutex it has locked itself: the size limit is *)
(* reached, or a signal came while main() was logging.                     *)
Stuck ==
    \/ \E t \in Callers : pc[t] = "rotate"
    \/ pc[Handler] = "lock" /\ log_mutex_ = Main

(* Whoever logs a line comes back, unless one of these two has happened    *)
(* (advanced_log.cpp:274).                                                 *)
LogCallsReturn ==
    \A t \in Callers : pc[t] # "out" ~> pc[t] = "out" \/ Stuck

-----------------------------------------------------------------------------
(* Statements of the documents that do not hold of the code.               *)

(* README.md:211, "Logs rotate on startup or whenever the configured size  *)
(* limit is exceeded": a thread that finds the limit exceeded gets the     *)
(* file rotated, if the process goes on.                                   *)
LogsRotateAtTheLimit ==
    \A t \in Callers : pc[t] = "rotate" ~> ~SizeExceeded \/ process = "down"

(* main.cpp:34, "Received shutdown signal, stopping server...": the        *)
(* handler gets that far.                                                  *)
SignalsAreLogged ==
    pc[Handler] = "lock" ~> pc[Handler] = "out" \/ SizeExceeded
=============================================================================
