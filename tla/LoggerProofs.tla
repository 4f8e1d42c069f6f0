---------------------------- MODULE LoggerProofs ----------------------------
(* Proofs about Logger, for every number of threads, lines and starts.     *)
EXTENDS LoggerProperties, FiniteSetTheorems, TLAPS

(* Threads are in log_internal() only while the logger is initialized, and *)
(* past its lock_guard only one of them is.                                *)
MutexInv ==
    \A t \in Callers :
        /\ pc[t] # "out" => process \in {"up", "exiting"}
        /\ pc[t] \in {"check", "rotate", "write"} => log_mutex_ = t

(* The line that is about to be written is the newest, and not yet on disk.*)
StampInv ==
    \A t \in Callers : pc[t] = "write" =>
        /\ stamp[t] = lines /\ lines > 0
        /\ \A n \in DOMAIN files : \A k \in DOMAIN files[n] : files[n][k] < lines

(* A start that has not opened its file is not yet counted as interrupted. *)
StartsInv ==
    process \in {"rotating", "renaming", "opening"} => interruptions < starts

LogInv == MutexInv /\ StampInv /\ StartsInv /\ LogIsInOrder

-----------------------------------------------------------------------------
(* What a rotation does to the files.                                      *)

(* rename() to the next number moves files without passing one another, so *)
(* that what was in order stays in order.                                  *)
LEMMA RenameKeepsOrder ==
    ASSUME TypeOK, LogIsInOrder, NEW from \in Nat, Rename(from, from + 1),
           UNCHANGED lines
    PROVE  /\ DOMAIN files' \subseteq Nat
           /\ \A n \in DOMAIN files' : files'[n] \in Seq(1 .. lines)
           /\ dropped' \in Nat
           /\ LogIsInOrder'
           /\ \A n \in DOMAIN files' : \E m \in DOMAIN files : files'[n] = files[m]
  <1> DEFINE Before(n) == IF n = from + 1 THEN from ELSE n
  <1>1. CASE from \in DOMAIN files
    <2>1. /\ DOMAIN files' = (DOMAIN files \ {from}) \cup {from + 1}
          /\ \A n \in DOMAIN files' :
                files'[n] = IF n = from + 1 THEN files[from] ELSE files[n]
      BY <1>1 DEF Rename
    <2>2. \A n \in DOMAIN files' : Before(n) \in DOMAIN files /\ files'[n] = files[Before(n)]
      BY <1>1, <2>1
    <2>3. \A n, m \in DOMAIN files' : n < m => Before(n) < Before(m)
      <3>1. ASSUME NEW n \in DOMAIN files', NEW m \in DOMAIN files', n < m
            PROVE  Before(n) < Before(m)
        <4>1. n \in Nat /\ m \in Nat /\ n # from /\ m # from
          BY <2>1 DEF TypeOK
        <4>2. from \in Nat
          OBVIOUS
        <4>3. CASE m = from + 1
          BY <3>1, <4>1, <4>2, <4>3
        <4>4. CASE n = from + 1 /\ m # from + 1
          BY <3>1, <4>1, <4>2, <4>4
        <4>5. QED  BY <3>1, <4>3, <4>4
      <3>2. QED  BY <3>1
    <2>4. dropped' \in Nat
      BY <1>1 DEF Rename, TypeOK
    <2>5. LogIsInOrder'
      <3> HIDE DEF Before
      <3>1. ASSUME NEW n \in DOMAIN files', NEW k \in DOMAIN files'[n],
                   NEW l \in DOMAIN files'[n], k < l
            PROVE  files'[n][k] < files'[n][l]
        BY <3>1, <2>2 DEF LogIsInOrder
      <3>2. ASSUME NEW n \in DOMAIN files', NEW m \in DOMAIN files', n < m,
                   NEW k \in DOMAIN files'[n], NEW l \in DOMAIN files'[m]
            PROVE  files'[m][l] < files'[n][k]
        BY <3>2, <2>2, <2>3 DEF LogIsInOrder
      <3>3. QED  BY <3>1, <3>2 DEF LogIsInOrder
    <2>6. DOMAIN files' \subseteq Nat
      BY <2>1 DEF TypeOK
    <2>7. QED  BY <2>2, <2>4, <2>5, <2>6 DEF TypeOK
  <1>2. CASE from \notin DOMAIN files
    BY <1>2 DEF Rename, TypeOK, LogIsInOrder
  <1>3. QED  BY <1>1, <1>2

-----------------------------------------------------------------------------
LEMMA InitEstablishesInvariant == Init => TypeOK /\ LogInv
  <1> SUFFICES ASSUME Init PROVE TypeOK /\ LogInv
    OBVIOUS
  <1>1. DOMAIN files = {}
    BY DEF Init
  <1>2. /\ pc \in [Callers -> {"out", "lock", "check", "rotate", "write"}]
        /\ stamp \in [Callers -> 0 .. lines]
        /\ \A t \in Callers : pc[t] = "out"
    BY DEF Init
  <1>3. TypeOK
    <2>1. starts \in 0 .. MaxStarts /\ interruptions \in 0 .. starts
      BY LoggerAssumption DEF Init
    <2>2. QED  BY <1>1, <1>2, <2>1 DEF Init, TypeOK
  <1>4. LogInv
    BY <1>1, <1>2 DEF Init, LogInv, MutexInv, StampInv, StartsInv, LogIsInOrder
  <1>5. QED  BY <1>3, <1>4

(* The renames of a start.                                                 *)
LEMMA RotationKeepsInvariant ==
    ASSUME TypeOK, LogInv, RotateBackup \/ RotateCurrent
    PROVE  (TypeOK /\ LogInv)'
  <1>1. CASE RotateBackup
    <2>1. CASE i > 0
      <3>1. i \in Nat /\ Rename(i, i + 1) /\ UNCHANGED lines
        BY <1>1, <2>1 DEF RotateBackup, TypeOK
      <3>2. /\ DOMAIN files' \subseteq Nat
            /\ \A n \in DOMAIN files' : files'[n] \in Seq(1 .. lines)
            /\ dropped' \in Nat
            /\ LogIsInOrder'
        BY <3>1, RenameKeepsOrder DEF LogInv
      <3>3. TypeOK'
        BY <1>1, <2>1, <3>2 DEF RotateBackup, callVars, TypeOK
      <3>4. (MutexInv /\ StampInv /\ StartsInv)'
        BY <1>1, <2>1 DEF RotateBackup, callVars, LogInv, MutexInv, StampInv, StartsInv
      <3>5. QED  BY <3>2, <3>3, <3>4 DEF LogInv
    <2>2. CASE ~(i > 0)
      BY <1>1, <2>2
      DEF RotateBackup, callVars, TypeOK, LogInv, MutexInv, StampInv, StartsInv, LogIsInOrder
    <2>3. QED  BY <2>1, <2>2
  <1>2. CASE RotateCurrent
    <2>1. Rename(0, 1) /\ UNCHANGED lines
      BY <1>2 DEF RotateCurrent
    <2>2. /\ DOMAIN files' \subseteq Nat
          /\ \A n \in DOMAIN files' : files'[n] \in Seq(1 .. lines)
          /\ dropped' \in Nat
          /\ LogIsInOrder'
      <3>1. 0 \in Nat /\ 0 + 1 = 1
        OBVIOUS
      <3>2. Rename(0, 0 + 1)
        BY <2>1, <3>1
      <3>3. QED  BY <2>1, <3>1, <3>2, RenameKeepsOrder DEF LogInv
    <2>3. TypeOK'
      BY <1>2, <2>2 DEF RotateCurrent, Process, memoryVars, callVars, TypeOK
    <2>4. (MutexInv /\ StampInv /\ StartsInv)'
      BY <1>2 DEF RotateCurrent, Process, memoryVars, callVars, LogInv, MutexInv, StampInv, StartsInv
    <2>5. QED  BY <2>2, <2>3, <2>4 DEF LogInv
  <1>3. QED  BY <1>1, <1>2

(* A line is appended to the current file.                                 *)
LEMMA WriteKeepsInvariant ==
    ASSUME TypeOK, LogInv, NEW t \in Callers, Write(t)
    PROVE  (TypeOK /\ LogInv)'
  <1> USE DEF LogInv
  <1>1. /\ pc[t] = "write" /\ pc' = [pc EXCEPT ![t] = "out"]
        /\ UNCHANGED <<process, max_log_files, i, log_file_, stamp, lines, starts, interruptions, dropped>>
        /\ log_mutex_' = Nobody
    BY DEF Write, At, memoryVars, countVars
  <1>2. /\ stamp[t] = lines /\ log_mutex_ = t /\ lines \in Nat
        /\ \A n \in DOMAIN files : \A k \in DOMAIN files[n] : files[n][k] < lines
        /\ lines \in 1 .. lines
    BY <1>1 DEF MutexInv, StampInv, TypeOK
  <1>3. MutexInv' /\ StampInv' /\ StartsInv'
    BY <1>1, <1>2 DEF TypeOK, MutexInv, StampInv, StartsInv
  <1>4. DOMAIN files' = DOMAIN files
    BY DEF Write
  <1>5. \A n \in DOMAIN files' : /\ files'[n] \in Seq(1 .. lines)
                                 /\ \/ files'[n] = files[n]
                                    \/ n = 0 /\ files'[n] = Append(files[n], lines)
    <2>1. CASE log_file_
      <3>1. \A n \in DOMAIN files :
                files'[n] = IF n = 0 THEN Append(files[n], lines) ELSE files[n]
        BY <1>2, <2>1 DEF Write
      <3>2. \A n \in DOMAIN files : files[n] \in Seq(1 .. lines)
        BY DEF TypeOK
      <3>3. \A n \in DOMAIN files : Append(files[n], lines) \in Seq(1 .. lines)
        BY <1>2, <3>2
      <3>4. QED  BY <1>4, <3>1, <3>2, <3>3
    <2>2. CASE ~log_file_
      BY <1>4, <2>2 DEF Write, TypeOK
    <2>3. QED  BY <2>1, <2>2
  <1>6. TypeOK'
    BY <1>1, <1>4, <1>5 DEF TypeOK
  <1>7. LogIsInOrder'
    <2>1. ASSUME NEW n \in DOMAIN files', NEW k \in DOMAIN files'[n],
                 NEW l \in DOMAIN files'[n], k < l
          PROVE  files'[n][k] < files'[n][l]
      <3>1. CASE files'[n] = files[n]
        BY <1>4, <2>1, <3>1 DEF LogIsInOrder
      <3>2. CASE files'[n] = Append(files[n], lines)
        <4>1. files[n] \in Seq(1 .. lines)
          BY <1>4 DEF TypeOK
        <4>2. /\ k \in DOMAIN files[n] /\ files'[n][k] = files[n][k]
              /\ \/ l \in DOMAIN files[n] /\ files'[n][l] = files[n][l]
                 \/ files'[n][l] = lines
          BY <2>1, <3>2, <4>1
        <4>3. QED  BY <1>2, <1>4, <2>1, <4>2 DEF LogIsInOrder
      <3>3. QED  BY <1>5, <3>1, <3>2
    <2>2. ASSUME NEW n \in DOMAIN files', NEW m \in DOMAIN files', n < m,
                 NEW k \in DOMAIN files'[n], NEW l \in DOMAIN files'[m]
          PROVE  files'[m][l] < files'[n][k]
      <3>1. n \in Nat /\ m \in Nat /\ files'[m] = files[m]
        BY <1>4, <1>5, <2>2 DEF TypeOK
      <3>2. files[n] \in Seq(1 .. lines)
        BY <1>4 DEF TypeOK
      <3>3. \/ k \in DOMAIN files[n] /\ files'[n][k] = files[n][k]
            \/ files'[n][k] = lines
        <4>1. CASE files'[n] = files[n]
          BY <2>2, <4>1
        <4>2. CASE files'[n] = Append(files[n], lines)
          BY <2>2, <3>2, <4>2
        <4>3. QED  BY <1>5, <4>1, <4>2
      <3>4. QED  BY <1>2, <1>4, <2>2, <3>1, <3>3 DEF LogIsInOrder
    <2>3. QED  BY <2>1, <2>2 DEF LogIsInOrder
  <1>8. QED  BY <1>3, <1>6, <1>7

(* A line gets its time stamp.                                             *)
LEMMA CheckKeepsInvariant ==
    ASSUME TypeOK, LogInv, NEW t \in Callers, Check(t)
    PROVE  (TypeOK /\ LogInv)'
  <1> USE DEF LogInv
  <1>1. CASE SizeExceeded
    BY <1>1 DEF Check, At, memoryVars, countVars, TypeOK, MutexInv, StampInv, StartsInv, LogIsInOrder
  <1>2. CASE ~SizeExceeded
    <2>1. /\ pc[t] = "check" /\ pc' = [pc EXCEPT ![t] = "write"]
          /\ lines' = lines + 1 /\ stamp' = [stamp EXCEPT ![t] = lines + 1]
          /\ UNCHANGED <<files, process, max_log_files, i, log_file_, log_mutex_,
                         starts, interruptions, dropped>>
      BY <1>2 DEF Check, At, memoryVars
    <2>2. \A u \in Callers : pc'[u] = "write" => u = t
      BY <2>1 DEF MutexInv, TypeOK
    <2>3. \A n \in DOMAIN files : \A k \in DOMAIN files[n] : files[n][k] \in 1 .. lines
      BY DEF TypeOK
    <2>4. TypeOK'
      <3>1. \A n \in DOMAIN files : files[n] \in Seq(1 .. lines + 1)
        BY DEF TypeOK
      <3>2. stamp' \in [Callers -> 0 .. lines + 1]
        BY <2>1 DEF TypeOK
      <3>3. QED  BY <2>1, <3>1, <3>2 DEF TypeOK
    <2>5. StampInv'
      BY <2>1, <2>2, <2>3 DEF TypeOK, StampInv
    <2>6. MutexInv' /\ StartsInv' /\ LogIsInOrder'
      BY <2>1 DEF TypeOK, MutexInv, StartsInv, LogIsInOrder
    <2>7. QED  BY <2>4, <2>5, <2>6
  <1>3. QED  BY <1>1, <1>2

(* Every step.                                                             *)
LEMMA StepKeepsInvariant ==
    ASSUME TypeOK, LogInv, [Next]_vars
    PROVE  (TypeOK /\ LogInv)'
  <1> USE LoggerAssumption DEF LogInv, Callers
  <1>1. CASE Start
    <2>1. /\ max_log_files' \in Nat /\ i' \in Nat
          /\ process = "down" /\ process' = "rotating" /\ starts < MaxStarts
          /\ starts' = starts + 1 /\ log_mutex_' = Main /\ dropped' = 0
          /\ UNCHANGED <<files, log_file_, pc, stamp, lines, interruptions>>
      <3>1. max_log_files' \in Nat
        BY <1>1 DEF Start
      <3>2. i' = IF max_log_files' = 0 THEN 0 ELSE max_log_files' - 1
        BY <1>1 DEF Start
      <3>3. i' \in Nat
        <4>1. CASE max_log_files' = 0
          BY <3>2, <4>1
        <4>2. CASE max_log_files' # 0
          <5>1. \A m \in Nat : m # 0 => m - 1 \in Nat
            OBVIOUS
          <5>2. QED  BY <3>1, <3>2, <4>2, <5>1
        <4>3. QED  BY <4>1, <4>2
      <3>4. QED  BY <1>1, <3>1, <3>3 DEF Start, Process
    <2>2. \A t \in Callers : pc[t] = "out"
      BY <2>1 DEF MutexInv
    <2>3. TypeOK'
      BY <2>1 DEF TypeOK
    <2>4. (MutexInv /\ StampInv /\ StartsInv)'
      BY <2>1, <2>2 DEF TypeOK, MutexInv, StampInv, StartsInv
    <2>5. LogIsInOrder'
      BY <2>1 DEF LogIsInOrder
    <2>6. QED  BY <2>3, <2>4, <2>5
  <1>2. CASE RotateBackup \/ RotateCurrent
    BY <1>2, RotationKeepsInvariant
  <1>3. CASE OpenLogFile
    <2>1. /\ process = "opening" /\ process' = "up" /\ log_mutex_' = Nobody
          /\ log_file_' \in BOOLEAN
          /\ interruptions' \in {interruptions, interruptions + 1}
          /\ UNCHANGED <<max_log_files, i, pc, stamp, lines, starts, dropped>>
      BY <1>3 DEF OpenLogFile, Process
    <2>2. /\ DOMAIN files' \subseteq DOMAIN files \cup {0}
          /\ \A n \in DOMAIN files' :
                files'[n] = IF n \in DOMAIN files THEN files[n] ELSE <<>>
      BY <1>3 DEF OpenLogFile
    <2>3. \A t \in Callers : pc[t] = "out"
      BY <2>1 DEF MutexInv
    <2>4. TypeOK'
      <3>1. ASSUME NEW n \in DOMAIN files'
            PROVE  n \in Nat /\ files'[n] \in Seq(1 .. lines)
        <4>1. <<>> \in Seq(1 .. lines)
          OBVIOUS
        <4>2. CASE n \in DOMAIN files
          <5>1. files'[n] = files[n]
            BY <2>2, <4>2
          <5>2. QED  BY <4>2, <5>1 DEF TypeOK
        <4>3. CASE n \notin DOMAIN files
          <5>1. files'[n] = <<>> /\ n = 0
            BY <2>2, <4>3
          <5>2. QED  BY <4>1, <5>1
        <4>4. QED  BY <4>2, <4>3
      <3>2. QED  BY <2>1, <3>1 DEF TypeOK, StartsInv
    <2>5. (MutexInv /\ StampInv /\ StartsInv)'
      BY <2>1, <2>3 DEF MutexInv, StampInv, StartsInv
    <2>6. LogIsInOrder'
      BY <2>2 DEF LogIsInOrder
    <2>7. QED  BY <2>4, <2>5, <2>6
  <1>4. ASSUME NEW t \in Callers, Call(t)
        PROVE  (TypeOK /\ LogInv)'
    BY <1>4 DEF Call, At, memoryVars, countVars, TypeOK, MutexInv, StampInv, StartsInv, LogIsInOrder
  <1>5. ASSUME NEW t \in Callers, Lock(t)
        PROVE  (TypeOK /\ LogInv)'
    BY <1>5 DEF Lock, At, Runs, memoryVars, countVars, TypeOK, MutexInv, StampInv, StartsInv, LogIsInOrder
  <1>6. ASSUME NEW t \in Callers, Check(t)
        PROVE  (TypeOK /\ LogInv)'
    BY <1>6, CheckKeepsInvariant
  <1>7. ASSUME NEW t \in Callers, Write(t)
        PROVE  (TypeOK /\ LogInv)'
    BY <1>7, WriteKeepsInvariant
  <1>8. CASE Exit
    BY <1>8 DEF Exit, Process, memoryVars, callVars, countVars, TypeOK, MutexInv, StampInv, StartsInv, LogIsInOrder
  <1>9. CASE Shutdown \/ Crash
    <2>1. /\ process' = "down" /\ log_file_' = FALSE /\ log_mutex_' = Nobody
          /\ pc' = [t \in Callers |-> "out"] /\ stamp' = [t \in Callers |-> 0]
          /\ UNCHANGED <<files, max_log_files, i, lines, starts, dropped>>
          /\ \/ UNCHANGED interruptions
             \/ /\ process \in {"rotating", "renaming", "opening"}
                /\ interruptions' = interruptions + 1
      BY <1>9 DEF Shutdown, Crash, Process, NoCalls, countVars, TypeOK
    <2>2. interruptions' \in 0 .. starts
      BY <2>1 DEF TypeOK, StartsInv
    <2>3. /\ pc' \in [Callers -> {"out", "lock", "check", "rotate", "write"}]
          /\ stamp' \in [Callers -> 0 .. lines]
          /\ \A t \in Callers : pc'[t] = "out"
      BY <2>1 DEF TypeOK
    <2>4. TypeOK'
      BY <2>1, <2>2, <2>3 DEF TypeOK
    <2>5. (MutexInv /\ StampInv /\ StartsInv)'
      BY <2>1, <2>3 DEF MutexInv, StampInv, StartsInv
    <2>6. LogIsInOrder'
      BY <2>1 DEF LogIsInOrder
    <2>7. QED  BY <2>4, <2>5, <2>6
  <1>10. CASE UNCHANGED vars
    BY <1>10 DEF vars, memoryVars, callVars, countVars, TypeOK, MutexInv, StampInv, StartsInv, LogIsInOrder
  <1>11. QED
    BY <1>1, <1>2, <1>3, <1>4, <1>5, <1>6, <1>7, <1>8, <1>9, <1>10
    DEF Next, Initialize, Signal, LogStep, Ended

-----------------------------------------------------------------------------
(* How many backups are lost.                                              *)

(* Numbers below n that no file has.                                       *)
Gaps(numbers, n) == Cardinality((0 .. n - 1) \ numbers)

AtMost(numbers, bound) == \A n \in numbers : Gaps(numbers, n) <= bound

(* Where a rotation begins: the number that its first rename() may         *)
(* overwrite.                                                              *)
Oldest == IF max_log_files = 0 THEN 1 ELSE max_log_files

(* Before the oldest file there are no more gaps than starts that were     *)
(* interrupted.  A rotation has one more, just behind the file it moves    *)
(* next, or has not moved any.                                             *)
GapsInv ==
    /\ AtMost(DOMAIN files, interruptions + 1)
    /\ process \in {"down", "up", "exiting"} => AtMost(DOMAIN files, interruptions)
    /\ process \in {"rotating", "renaming"} =>
          /\ i < Oldest
          /\ process = "renaming" => i = 0
          /\ \A n \in DOMAIN files : n <= i => Gaps(DOMAIN files, n) <= interruptions
          /\ i + 1 \in DOMAIN files =>
                i + 1 = Oldest /\ dropped = 0 /\ AtMost(DOMAIN files, interruptions)
    /\ process = "opening" => 0 \notin DOMAIN files

(* Only the first rename() of a rotation overwrites a file, the oldest.    *)
DroppedInv ==
    /\ dropped <= 1
    /\ dropped = 1 /\ process # "down" =>
          /\ Oldest \in DOMAIN files
          /\ process \in {"rotating", "renaming"} => i + 1 < Oldest

RetentionInv == GapsInv /\ DroppedInv

LEMMA GapsAreNumbers ==
    ASSUME NEW numbers, NEW n \in Nat
    PROVE  /\ IsFiniteSet((0 .. n - 1) \ numbers)
           /\ Gaps(numbers, n) \in Nat
  <1>1. IsFiniteSet(0 .. n - 1)
    BY FS_Interval
  <1>2. IsFiniteSet((0 .. n - 1) \ numbers)
    BY <1>1, FS_Difference
  <1>3. QED  BY <1>2, FS_CardinalityType DEF Gaps

(* A file moves on by one: the gap it leaves counts for those behind it,   *)
(* the one it fills no longer does.                                        *)
LEMMA GapsAfterMove ==
    ASSUME NEW old \in SUBSET Nat, NEW from \in old, NEW new,
           new = (old \ {from}) \cup {from + 1}, NEW n \in new
    PROVE  Gaps(new, n) =
               IF n < from THEN Gaps(old, n)
               ELSE IF n = from + 1 THEN Gaps(old, from) + 1
               ELSE IF from + 1 \in old THEN Gaps(old, n) + 1
               ELSE Gaps(old, n)
  <1>1. n \in Nat /\ from \in Nat /\ n # from
    OBVIOUS
  <1>2. CASE n < from
    <2>1. (0 .. n - 1) \ new = (0 .. n - 1) \ old
      BY <1>1, <1>2
    <2>2. QED  BY <1>2, <2>1 DEF Gaps
  <1>3. CASE n = from + 1
    <2>1. PICK gaps : gaps = (0 .. from - 1) \ old
      OBVIOUS
    <2>2. (0 .. n - 1) \ new = gaps \cup {from} /\ from \notin gaps
      BY <1>1, <1>3, <2>1
    <2>3. IsFiniteSet(gaps)
      BY <1>1, <2>1, GapsAreNumbers
    <2>4. Cardinality(gaps \cup {from}) = Cardinality(gaps) + 1
      BY <2>2, <2>3, FS_AddElement
    <2>5. QED  BY <1>1, <1>3, <2>1, <2>2, <2>4 DEF Gaps
  <1>4. CASE n > from + 1 /\ from + 1 \in old
    <2>1. PICK gaps : gaps = (0 .. n - 1) \ old
      OBVIOUS
    <2>2. (0 .. n - 1) \ new = gaps \cup {from} /\ from \notin gaps
      BY <1>1, <1>4, <2>1
    <2>3. IsFiniteSet(gaps)
      BY <1>1, <2>1, GapsAreNumbers
    <2>4. Cardinality(gaps \cup {from}) = Cardinality(gaps) + 1
      BY <2>2, <2>3, FS_AddElement
    <2>5. QED  BY <1>1, <1>4, <2>1, <2>2, <2>4 DEF Gaps
  <1>5. CASE n > from + 1 /\ from + 1 \notin old
    <2>1. PICK gaps : gaps = (0 .. n - 1) \ old
      OBVIOUS
    <2>2. (0 .. n - 1) \ new = (gaps \ {from + 1}) \cup {from}
      BY <1>1, <1>5, <2>1
    <2>3. IsFiniteSet(gaps) /\ Cardinality(gaps) \in Nat
      BY <1>1, <2>1, GapsAreNumbers DEF Gaps
    <2>4. from + 1 \in gaps /\ from \notin gaps \ {from + 1}
      BY <1>1, <1>5, <2>1
    <2>5. IsFiniteSet(gaps \ {from + 1}) /\ Cardinality(gaps \ {from + 1}) = Cardinality(gaps) - 1
      BY <2>3, <2>4, FS_RemoveElement
    <2>6. Cardinality((gaps \ {from + 1}) \cup {from}) = Cardinality(gaps \ {from + 1}) + 1
      BY <2>4, <2>5, FS_AddElement
    <2>7. Cardinality((gaps \ {from + 1}) \cup {from}) = Cardinality(gaps)
      BY <2>3, <2>5, <2>6
    <2>8. QED  BY <1>1, <1>5, <2>1, <2>2, <2>7 DEF Gaps
  <1>6. QED  BY <1>1, <1>2, <1>3, <1>4, <1>5

(* One rename() of a rotation; the next is to come one number lower.       *)
LEMMA RenameKeepsGaps ==
    ASSUME TypeOK, RetentionInv, process \in {"rotating", "renaming"},
           NEW from \in Nat, from = i, Rename(from, from + 1),
           UNCHANGED <<interruptions, max_log_files>>
    PROVE  /\ from \notin DOMAIN files'
           /\ AtMost(DOMAIN files', interruptions + 1)
           /\ \A n \in DOMAIN files' : n < from => Gaps(DOMAIN files', n) <= interruptions
           /\ dropped' <= 1
           /\ dropped' = 1 => Oldest \in DOMAIN files'
  <1>1. /\ AtMost(DOMAIN files, interruptions + 1)
        /\ from < Oldest
        /\ \A n \in DOMAIN files : n <= from => Gaps(DOMAIN files, n) <= interruptions
        /\ from + 1 \in DOMAIN files =>
              from + 1 = Oldest /\ dropped = 0 /\ AtMost(DOMAIN files, interruptions)
        /\ dropped <= 1
        /\ dropped = 1 => Oldest \in DOMAIN files /\ from + 1 < Oldest
    BY DEF RetentionInv, GapsInv, DroppedInv
  <1>2. /\ interruptions \in Nat /\ dropped \in Nat /\ Oldest \in Nat
        /\ \A n \in DOMAIN files : n \in Nat /\ Gaps(DOMAIN files, n) \in Nat
    <2>1. interruptions \in Nat /\ dropped \in Nat /\ Oldest \in Nat /\ DOMAIN files \subseteq Nat
      BY LoggerAssumption DEF TypeOK, Oldest
    <2>2. QED  BY <2>1, GapsAreNumbers
  <1>3. CASE from \notin DOMAIN files
    <2>1. UNCHANGED <<files, dropped>>
      BY <1>3 DEF Rename
    <2>2. QED  BY <1>1, <1>2, <1>3, <2>1
  <1>4. CASE from \in DOMAIN files
    <2>1. PICK old, new : old = DOMAIN files /\ new = DOMAIN files'
      OBVIOUS
    <2>2. /\ new = (old \ {from}) \cup {from + 1}
          /\ dropped' = dropped + (IF from + 1 \in old THEN 1 ELSE 0)
      BY <1>4, <2>1 DEF Rename
    <2>3. old \in SUBSET Nat /\ from \in old
      BY <1>2, <1>4, <2>1
    <2>4. from \notin new
      BY <2>2
    <2>5. ASSUME NEW n \in new
          PROVE  /\ Gaps(new, n) <= interruptions + 1
                 /\ n < from => Gaps(new, n) <= interruptions
      <3>1. Gaps(new, n) =
               IF n < from THEN Gaps(old, n)
               ELSE IF n = from + 1 THEN Gaps(old, from) + 1
               ELSE IF from + 1 \in old THEN Gaps(old, n) + 1
               ELSE Gaps(old, n)
        BY <2>2, <2>3, GapsAfterMove
      <3>2. n \in Nat /\ (n # from + 1 => n \in old)
        BY <2>2, <2>3
      <3>3. CASE n < from
        BY <1>1, <1>2, <2>1, <3>1, <3>2, <3>3
      <3>4. CASE n = from + 1
        BY <1>1, <1>2, <2>1, <2>3, <3>1, <3>4
      <3>5. CASE ~(n < from) /\ n # from + 1 /\ from + 1 \in old
        BY <1>1, <1>2, <2>1, <3>1, <3>2, <3>5 DEF AtMost
      <3>6. CASE ~(n < from) /\ n # from + 1 /\ from + 1 \notin old
        BY <1>1, <1>2, <2>1, <3>1, <3>2, <3>6 DEF AtMost
      <3>7. QED  BY <3>3, <3>4, <3>5, <3>6
    <2>6. dropped' <= 1 /\ (dropped' = 1 => Oldest \in new)
      <3>1. CASE from + 1 \in old
        BY <1>1, <2>1, <2>2, <3>1
      <3>2. CASE from + 1 \notin old
        BY <1>1, <1>2, <2>1, <2>2, <2>3, <3>2
      <3>3. QED  BY <3>1, <3>2
    <2>7. QED  BY <2>1, <2>4, <2>5, <2>6 DEF AtMost
  <1>5. QED  BY <1>3, <1>4

LEMMA StepKeepsRetention ==
    ASSUME TypeOK, LogInv, RetentionInv, [Next]_vars
    PROVE  RetentionInv'
  <1> USE LoggerAssumption
  <1>0. /\ interruptions \in Nat /\ dropped \in Nat /\ max_log_files \in Nat /\ i \in Nat
        /\ DOMAIN files \subseteq Nat
        /\ \A n \in DOMAIN files : Gaps(DOMAIN files, n) \in Nat
    <2>1. interruptions \in Nat /\ dropped \in Nat /\ max_log_files \in Nat /\ i \in Nat
          /\ DOMAIN files \subseteq Nat
      BY DEF TypeOK
    <2>2. QED  BY <2>1, GapsAreNumbers
  <1>1. CASE Start
    <2>1. /\ process = "down" /\ process' = "rotating" /\ dropped' = 0
          /\ UNCHANGED <<files, interruptions>>
          /\ max_log_files' \in Nat
          /\ i' = IF max_log_files' = 0 THEN 0 ELSE max_log_files' - 1
      BY <1>1 DEF Start, Process
    <2>2. i' + 1 = Oldest' /\ i' < Oldest'
      <3>1. PICK m \in Nat : m = max_log_files'
        BY <2>1
      <3>2. CASE m = 0
        BY <2>1, <3>1, <3>2 DEF Oldest
      <3>3. CASE m # 0
        <4>1. i' = m - 1 /\ Oldest' = m
          BY <2>1, <3>1, <3>3 DEF Oldest
        <4>2. QED  BY <4>1
      <3>4. QED  BY <3>2, <3>3
    <2>3. AtMost(DOMAIN files', interruptions') /\ AtMost(DOMAIN files', interruptions' + 1)
      BY <2>1 DEF RetentionInv, GapsInv
    <2>4. QED  BY <2>1, <2>2, <2>3 DEF RetentionInv, GapsInv, DroppedInv, AtMost
  <1>2. CASE RotateBackup /\ i > 0
    <2>1. /\ process = "rotating" /\ Rename(i, i + 1) /\ i' = i - 1
          /\ UNCHANGED <<process, interruptions, max_log_files>>
      BY <1>2 DEF RotateBackup
    <2>2. PICK from \in Nat : from = i
      BY <1>0
    <2>3. /\ from \notin DOMAIN files'
          /\ AtMost(DOMAIN files', interruptions + 1)
          /\ \A n \in DOMAIN files' : n < from => Gaps(DOMAIN files', n) <= interruptions
          /\ dropped' <= 1
          /\ dropped' = 1 => Oldest \in DOMAIN files'
      BY <2>1, <2>2, RenameKeepsGaps
    <2>4. i' + 1 = from /\ i' < from /\ from < Oldest /\ Oldest \in Nat
      BY <1>0, <2>1, <2>2 DEF RetentionInv, GapsInv, Oldest
    <2>5. Oldest' = Oldest
      BY <2>1 DEF Oldest
    <2>6. DOMAIN files' \subseteq Nat
      BY <1>0, <2>1, <2>2 DEF Rename
    <2>7. i' \in Nat /\ i' < Oldest
      BY <1>0, <1>2, <2>1, <2>4
    <2>8. \A n \in DOMAIN files' : n <= i' => Gaps(DOMAIN files', n) <= interruptions
      BY <2>2, <2>3, <2>4, <2>6, <2>7
    <2>9. GapsInv'
      BY <2>1, <2>3, <2>4, <2>5, <2>7, <2>8 DEF GapsInv
    <2>10. DroppedInv'
      BY <2>1, <2>3, <2>4, <2>5 DEF DroppedInv
    <2>11. QED  BY <2>9, <2>10 DEF RetentionInv
  <1>3. CASE RotateBackup /\ ~(i > 0)
    <2>1. /\ i = 0 /\ process = "rotating" /\ process' = "renaming"
          /\ UNCHANGED <<files, i, dropped, max_log_files, interruptions>>
      BY <1>0, <1>3 DEF RotateBackup
    <2>2. Oldest' = Oldest
      BY <2>1 DEF Oldest
    <2>3. QED  BY <2>1, <2>2 DEF RetentionInv, GapsInv, DroppedInv
  <1>4. CASE RotateCurrent
    <2>1. /\ process = "renaming" /\ process' = "opening" /\ Rename(0, 1) /\ i = 0
          /\ UNCHANGED <<interruptions, max_log_files>>
      BY <1>4 DEF RotateCurrent, Process, memoryVars, RetentionInv, GapsInv
    <2>2. PICK from \in Nat : from = 0
      OBVIOUS
    <2>3. Rename(from, from + 1)
      <3>1. from + 1 = 1
        BY <2>2
      <3>2. QED  BY <2>1, <2>2, <3>1
    <2>4. /\ from \notin DOMAIN files'
          /\ AtMost(DOMAIN files', interruptions + 1)
          /\ dropped' <= 1
          /\ dropped' = 1 => Oldest \in DOMAIN files'
      BY <2>1, <2>2, <2>3, RenameKeepsGaps
    <2>5. Oldest' = Oldest
      BY <2>1 DEF Oldest
    <2>6. QED  BY <2>1, <2>2, <2>4, <2>5 DEF RetentionInv, GapsInv, DroppedInv
  <1>5. CASE OpenLogFile
    <2>1. /\ process = "opening" /\ process' = "up"
          /\ UNCHANGED <<max_log_files, i, dropped>>
          /\ \/ /\ DOMAIN files' = DOMAIN files \cup {0} /\ UNCHANGED interruptions
             \/ UNCHANGED files /\ interruptions' = interruptions + 1
      BY <1>5 DEF OpenLogFile, Process
    <2>2. Oldest' = Oldest
      BY <2>1 DEF Oldest
    <2>3. AtMost(DOMAIN files', interruptions')
      <3>1. CASE UNCHANGED files /\ interruptions' = interruptions + 1
        BY <3>1 DEF RetentionInv, GapsInv
      <3>2. CASE DOMAIN files' = DOMAIN files \cup {0} /\ UNCHANGED interruptions
        <4>1. PICK old, new : old = DOMAIN files /\ new = DOMAIN files'
          OBVIOUS
        <4>2. 0 \notin old /\ old \subseteq Nat /\ new = old \cup {0}
          BY <1>0, <2>1, <3>2, <4>1 DEF RetentionInv, GapsInv
        <4>3. ASSUME NEW n \in new
              PROVE  Gaps(new, n) <= interruptions
          <5>1. CASE n = 0
            <6>1. (0 .. n - 1) \ new = {}
              BY <5>1
            <6>2. QED  BY <1>0, <6>1, FS_EmptySet DEF Gaps
          <5>2. CASE n # 0
            <6>1. n \in old /\ n \in Nat
              BY <4>2, <5>2
            <6>2. PICK gaps : gaps = (0 .. n - 1) \ old
              OBVIOUS
            <6>3. 0 \in gaps /\ (0 .. n - 1) \ new = gaps \ {0}
              BY <4>2, <5>2, <6>1, <6>2
            <6>4. IsFiniteSet(gaps) /\ Cardinality(gaps) \in Nat
              BY <6>1, <6>2, GapsAreNumbers DEF Gaps
            <6>5. Cardinality(gaps \ {0}) = Cardinality(gaps) - 1
              BY <6>3, <6>4, FS_RemoveElement
            <6>6. Cardinality(gaps) <= interruptions + 1
              BY <4>1, <6>1, <6>2 DEF RetentionInv, GapsInv, AtMost, Gaps
            <6>7. QED  BY <1>0, <6>3, <6>4, <6>5, <6>6 DEF Gaps
          <5>3. QED  BY <5>1, <5>2
        <4>4. QED  BY <3>2, <4>1, <4>3 DEF AtMost
      <3>3. QED  BY <2>1, <3>1, <3>2
    <2>4. AtMost(DOMAIN files', interruptions' + 1)
      <3>1. \A n \in DOMAIN files' : Gaps(DOMAIN files', n) \in Nat
        <4>1. DOMAIN files' \subseteq Nat
          BY <1>0, <2>1
        <4>2. QED  BY <4>1, GapsAreNumbers
      <3>2. interruptions' \in Nat
        BY <1>0, <2>1
      <3>3. QED  BY <2>3, <3>1, <3>2 DEF AtMost
    <2>5. DroppedInv'
      BY <2>1, <2>2 DEF RetentionInv, DroppedInv
    <2>6. QED  BY <2>1, <2>3, <2>4, <2>5 DEF RetentionInv, GapsInv
  <1>6. CASE Exit \/ Shutdown \/ Crash
    <2>1. /\ process' \in {"exiting", "down"}
          /\ UNCHANGED <<files, max_log_files, i, dropped>>
          /\ process' = "exiting" => process = "up"
          /\ \/ process \in {"up", "exiting"} /\ UNCHANGED interruptions
             \/ /\ process \in {"rotating", "renaming", "opening"}
                /\ interruptions' = interruptions + 1
      BY <1>6 DEF Exit, Shutdown, Crash, Process, memoryVars, countVars, TypeOK
    <2>2. Oldest' = Oldest
      BY <2>1 DEF Oldest
    <2>3. AtMost(DOMAIN files', interruptions') /\ AtMost(DOMAIN files', interruptions' + 1)
      BY <1>0, <2>1 DEF RetentionInv, GapsInv, AtMost
    <2>4. QED  BY <2>1, <2>2, <2>3 DEF RetentionInv, GapsInv, DroppedInv
  <1>7. CASE UNCHANGED vars
    <2>1. UNCHANGED <<files, process, max_log_files, i, interruptions, dropped>>
      BY <1>7 DEF vars, memoryVars, countVars
    <2>2. QED  BY <2>1 DEF RetentionInv, GapsInv, DroppedInv, AtMost, Gaps, Oldest
  <1>8. ASSUME NEW t \in Callers, Call(t) \/ LogStep(t)
        PROVE  RetentionInv'
    <2>1. /\ UNCHANGED <<process, max_log_files, i, interruptions, dropped>>
          /\ DOMAIN files' = DOMAIN files
      BY <1>8 DEF Call, LogStep, Lock, Check, Write, memoryVars, countVars
    <2>2. QED  BY <2>1 DEF RetentionInv, GapsInv, DroppedInv, AtMost, Gaps, Oldest
  <1>9. QED
    BY <1>1, <1>2, <1>3, <1>4, <1>5, <1>6, <1>7, <1>8
    DEF Next, Initialize, Signal, Callers, Ended

-----------------------------------------------------------------------------
(* Every variable of log, process and threads keeps its type; no start is  *)
(* counted as interrupted twice (advanced_log.cpp:28).                     *)
THEOREM TypesAreCorrect == Spec => []TypeOK
  <1>1. Init => TypeOK /\ LogInv
    BY InitEstablishesInvariant
  <1>2. TypeOK /\ LogInv /\ [Next]_vars => (TypeOK /\ LogInv)'
    BY StepKeepsInvariant
  <1>3. QED  BY <1>1, <1>2, PTL DEF Spec

(* The inductive invariant: log_mutex_ keeps all but one thread out of     *)
(* log_internal_unsafe(), whose line is the newest, and the files are in   *)
(* order (advanced_log.cpp:168, 274).                                      *)
THEOREM LogInvariant == Spec => []LogInv
  <1>1. Init => TypeOK /\ LogInv
    BY InitEstablishesInvariant
  <1>2. TypeOK /\ LogInv /\ [Next]_vars => (TypeOK /\ LogInv)'
    BY StepKeepsInvariant
  <1>3. QED  BY <1>1, <1>2, PTL DEF Spec

(* For any number of threads and starts, settings of max_log_files that    *)
(* change between them, and crashes anywhere: the lines on disk are in the *)
(* order of their time stamps (advanced_log.cpp:168).                      *)
THEOREM LogStaysInOrder == Spec => []LogIsInOrder
  <1>1. LogInv => LogIsInOrder
    BY DEF LogInv
  <1>2. QED  BY <1>1, LogInvariant, PTL

(* For any settings that change from start to start, and crashes anywhere: *)
(* a start overwrites one backup at most, and only if as many as it is set *)
(* to keep are there, less one for each start that was interrupted or      *)
(* could not open its file (advanced_log.cpp:168).                         *)
THEOREM BackupsStay == Spec => []BackupsAreRetained
  <1> DEFINE Inv == TypeOK /\ LogInv /\ RetentionInv
  <1>1. Init => Inv
    <2> SUFFICES ASSUME Init PROVE RetentionInv
      BY InitEstablishesInvariant
    <2>1. DOMAIN files = {} /\ process = "down" /\ dropped = 0
      BY DEF Init
    <2>2. QED  BY <2>1 DEF RetentionInv, GapsInv, DroppedInv, AtMost
  <1>2. Inv /\ [Next]_vars => Inv'
    BY StepKeepsInvariant, StepKeepsRetention
  <1>3. Inv => BackupsAreRetained
    <2> SUFFICES ASSUME Inv, process = "up", dropped = 1
                 PROVE  Cardinality(1 .. max_log_files \ DOMAIN files) <= interruptions
      BY DEF BackupsAreRetained, RetentionInv, DroppedInv
    <2>1. PICK n \in Nat : n = max_log_files
      BY DEF TypeOK
    <2>2. PICK numbers : numbers = DOMAIN files
      OBVIOUS
    <2>3. interruptions \in Nat
      BY LoggerAssumption DEF TypeOK
    <2>4. CASE n = 0
      <3>1. 1 .. n \ numbers = {}
        BY <2>4
      <3>2. QED  BY <2>1, <2>2, <2>3, <3>1, FS_EmptySet
    <2>5. CASE n # 0
      <3>1. n \in numbers /\ Gaps(numbers, n) <= interruptions
        BY <2>1, <2>2, <2>5 DEF RetentionInv, GapsInv, DroppedInv, Oldest, AtMost
      <3>2. PICK gaps : gaps = (0 .. n - 1) \ numbers
        OBVIOUS
      <3>3. PICK missing : missing = 1 .. n \ numbers
        OBVIOUS
      <3>4. missing \subseteq gaps
        BY <2>1, <3>1, <3>2, <3>3
      <3>5. IsFiniteSet(gaps) /\ Cardinality(gaps) \in Nat /\ Cardinality(gaps) <= interruptions
        BY <2>1, <3>1, <3>2, GapsAreNumbers DEF Gaps
      <3>6. IsFiniteSet(missing) /\ Cardinality(missing) <= Cardinality(gaps)
        BY <3>4, <3>5, FS_Subset
      <3>7. Cardinality(missing) \in Nat
        BY <3>6, FS_CardinalityType
      <3>8. QED  BY <2>1, <2>2, <2>3, <3>3, <3>5, <3>6, <3>7
    <2>6. QED  BY <2>4, <2>5
  <1>4. QED  BY <1>1, <1>2, <1>3, PTL DEF Spec
=============================================================================
