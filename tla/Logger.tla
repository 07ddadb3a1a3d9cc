------------------------------- MODULE Logger -------------------------------
(***************************************************************************)
(* The audit Logger of core/logging.go: NewLogger opens the file for      *)
(* appending, LogMessage formats a line stamped with time.Now and writes  *)
(* it with one WriteString, Close closes the file.  Several goroutines    *)
(* may share one Logger: os.File serialises each WriteString, so a line   *)
(* is appended whole unless the write fails part way, but nothing orders  *)
(* the stamp and the write of one call against those of another.  A line *)
(* is [ts, id, whole]: the caller's message id stands for the ID, Type   *)
(* and Details fields; the clock is an integer of seconds.  No property   *)
(* is checked: nothing in src calls the Logger, and neither the spec nor  *)
(* the code promises an order or completeness of lines.                   *)
(***************************************************************************)
EXTENDS Integers, Sequences

CONSTANTS
    LogCallers, \* goroutines calling LogMessage, each with its own message id
    MaxClock    \* the last second the clock reaches

VARIABLES
    logFile,    \* "nil" (no Logger), "open", "closed", or "failed" (OpenFile erred)
    lines,      \* the file's contents: a sequence of [ts, id, whole]
    clock,      \* time.Now, in seconds
    lpc,        \* lpc[c]: "idle", "write" (line formatted), "done"
    lstamp,     \* lstamp[c]: the timestamp c formatted
    lret        \* lret[c]: the error LogMessage returned to c, or "nil"

lvars == <<logFile, lines, clock, lpc, lstamp, lret>>

LInit ==
    /\ logFile = "nil"
    /\ lines = <<>>
    /\ clock = 0
    /\ lpc = [c \in LogCallers |-> "idle"]
    /\ lstamp = [c \in LogCallers |-> 0]
    /\ lret = [c \in LogCallers |-> "nil"]

\* The wall clock advances.
Tick ==
    /\ clock < MaxClock
    /\ clock' = clock + 1
    /\ UNCHANGED <<logFile, lines, lpc, lstamp, lret>>

\* NewLogger: OpenFile with O_APPEND|O_CREATE|O_WRONLY succeeds, or fails
\* and no Logger is returned.
NewLogger ==
    /\ logFile = "nil"
    /\ logFile' \in {"open", "failed"}
    /\ UNCHANGED <<lines, clock, lpc, lstamp, lret>>

\* LogMessage, first half: time.Now().Format and Sprintf of the line.
LogMessageStamp(c) ==
    /\ logFile \in {"open", "closed"}
    /\ lpc[c] = "idle"
    /\ lpc' = [lpc EXCEPT ![c] = "write"]
    /\ lstamp' = [lstamp EXCEPT ![c] = clock]
    /\ UNCHANGED <<logFile, lines, clock, lret>>

\* LogMessage, second half: l.logFile.WriteString(logEntry).  On an open
\* file it appends the line, or fails (a full disk) having written none or
\* only part of it; on a closed one it fails with os.ErrClosed.  The error
\* is wrapped and returned.
LogMessageWrite(c) ==
    /\ lpc[c] = "write"
    /\ lpc' = [lpc EXCEPT ![c] = "done"]
    /\ \/ /\ logFile = "open"
          /\ lines' = Append(lines, [ts |-> lstamp[c], id |-> c, whole |-> TRUE])
          /\ UNCHANGED lret
       \/ /\ logFile = "open"
          /\ lret' = [lret EXCEPT ![c] = "write failed"]
          /\ lines' \in {lines, Append(lines, [ts |-> lstamp[c], id |-> c, whole |-> FALSE])}
       \/ /\ logFile = "closed"
          /\ lret' = [lret EXCEPT ![c] = "write failed"]
          /\ UNCHANGED lines
    /\ UNCHANGED <<logFile, clock, lstamp>>

\* Close: l.logFile.Close(); a second Close returns os.ErrClosed.
Close ==
    /\ logFile \in {"open", "closed"}
    /\ logFile' = "closed"
    /\ UNCHANGED <<lines, clock, lpc, lstamp, lret>>

\* Every caller has returned and the clock has stopped: nothing is left.
LoggerIdle ==
    /\ \A c \in LogCallers : lpc[c] \in {"idle", "done"}
    /\ clock = MaxClock
    /\ UNCHANGED lvars

LNext ==
    \/ Tick \/ NewLogger \/ Close \/ LoggerIdle
    \/ \E c \in LogCallers : LogMessageStamp(c) \/ LogMessageWrite(c)

====
