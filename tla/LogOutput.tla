----------------------------- MODULE LogOutput -----------------------------
(***************************************************************************)
(* The process-wide log redirection of utils/log.go: init() and the        *)
(* SetLogOutput(pkg) / ResetLogOutput() calls that switch logrus, and the *)
(* process's stdout and stderr, to logs/<pkg>.log and                      *)
(* logs/<pkg>_stdout.log and back.  Each call is one step (its callers run *)
(* them one at a time).  An open of a log file may fail (disk, rights);   *)
(* without the logs directory that init() makes, every open fails.        *)
(*                                                                         *)
(* A writer (logrus's output, os.Stdout, os.Stderr) is the process's own   *)
(* stdout or stderr, or a handle: the index of an opened file in          *)
(* 'handles', which records every file opened and whether it is still     *)
(* open.  LogFile and StdoutFile are handles, 0 for nil.                   *)
(***************************************************************************)
EXTENDS Integers, Sequences

CONSTANTS
  Pkgs,      \* package names given to SetLogOutput
  MaxOpens   \* bound on the files opened in a behaviour

OsStdout == -1   \* the process's stdout, saved as osStdout
OsStderr == -2   \* the process's stderr, saved as osStderr

VARIABLES
  logsDir,     \* init() made the logs directory
  handles,     \* <<[file, open]>>: every file opened, in order
  LogFile,     \* handle of the current log file, 0 for nil
  StdoutFile,  \* handle of the current stdout log file, 0 for nil
  out,         \* logrus's output
  stdout,      \* os.Stdout
  stderr       \* os.Stderr

vars == <<logsDir, handles, LogFile, StdoutFile, out, stdout, stderr>>

Kinds == {"log", "stdout"}
Writers == {OsStdout, OsStderr} \cup 1 .. MaxOpens

\* Stat, then OpenFile (append) or Create: whether opening logs/<file>
\* can succeed.
CanOpen == IF logsDir THEN {TRUE, FALSE} ELSE {FALSE}

\* The handle a successful open adds.
Opened(p, kind) == [file |-> <<p, kind>>, open |-> TRUE]

\* Mutant: the old file is dropped without Close().
ClosedNot(hs, h) == hs

\* 'if X != nil { X.Close() }': 'handles' with handle h (0: nil) closed.
Closed(hs, h) == IF h = 0 THEN hs ELSE [hs EXCEPT ![h].open = FALSE]

-----------------------------------------------------------------------------
\* init(): MkdirAll("logs"); on success logrus writes to os.Stdout, else it
\* keeps its default output, stderr.
Init ==
  /\ logsDir \in BOOLEAN
  /\ handles = <<>>
  /\ LogFile = 0 /\ StdoutFile = 0
  /\ out = IF logsDir THEN OsStdout ELSE OsStderr
  /\ stdout = OsStdout /\ stderr = OsStderr

\* Mutant: os.Stdout and os.Stderr are not restored.
ResetLogOutputKeepStreams ==
  /\ out' = OsStdout
  /\ handles' = Closed(Closed(handles, LogFile), StdoutFile)
  /\ LogFile' = 0 /\ StdoutFile' = 0
  /\ UNCHANGED <<logsDir, stdout, stderr>>

\* Mutant: logrus is given LogFile after LogFile is set to nil.
ResetLogOutputToNil ==
  /\ out' = 0
  /\ handles' = Closed(Closed(handles, LogFile), StdoutFile)
  /\ LogFile' = 0 /\ StdoutFile' = 0
  /\ stdout' = OsStdout /\ stderr' = OsStderr
  /\ UNCHANGED logsDir

\* ResetLogOutput: logrus back to osStdout, both log files closed, and
\* os.Stdout and os.Stderr restored.
ResetLogOutput ==
  /\ out' = OsStdout
  /\ handles' = Closed(Closed(handles, LogFile), StdoutFile)
  /\ LogFile' = 0 /\ StdoutFile' = 0
  /\ stdout' = OsStdout /\ stderr' = OsStderr
  /\ UNCHANGED logsDir

\* SetLogOutput(pkg): open logs/<pkg>.log, make it logrus's output and
\* LogFile (closing the old one); then open logs/<pkg>_stdout.log and make
\* it StdoutFile, os.Stdout and os.Stderr (closing the old one).  A failed
\* open returns at once, leaving what is set so far.
SetLogOutput(p) ==
  /\ Len(handles) + 2 <= MaxOpens
  /\ \E logOk \in CanOpen, stdoutOk \in CanOpen :
       IF ~logOk THEN UNCHANGED vars
       ELSE LET h1 == Len(handles) + 1
                hs1 == Closed(Append(handles, Opened(p, "log")), LogFile)
            IN /\ out' = h1
               /\ LogFile' = h1
               /\ IF ~stdoutOk
                    THEN /\ handles' = hs1
                         /\ UNCHANGED <<StdoutFile, stdout, stderr>>
                    ELSE LET h2 == h1 + 1 IN
                         /\ handles' = Closed(Append(hs1, Opened(p, "stdout")),
                                              StdoutFile)
                         /\ StdoutFile' = h2
                         /\ stdout' = h2 /\ stderr' = h2
               /\ UNCHANGED logsDir

Next == ResetLogOutput \/ \E p \in Pkgs : SetLogOutput(p)

Spec == Init /\ [][Next]_vars

-----------------------------------------------------------------------------
(* Properties                                                              *)

TypeOK ==
  /\ logsDir \in BOOLEAN
  /\ handles \in Seq([file : Pkgs \X Kinds, open : BOOLEAN])
  /\ Len(handles) <= MaxOpens
  /\ LogFile \in 0 .. Len(handles) /\ StdoutFile \in 0 .. Len(handles)
  /\ {out, stdout, stderr} \subseteq Writers

\* No file is left open behind the log redirection: every handle that
\* SetLogOutput opened and is still open is the current LogFile or
\* StdoutFile, over any sequence of Set and Reset calls, failed opens
\* included.
NoLeakedHandle ==
  \A h \in 1 .. Len(handles) : handles[h].open => h \in {LogFile, StdoutFile}

\* Nothing writes to a closed file: logrus's output, os.Stdout and
\* os.Stderr are each the process's own stream or a handle still open,
\* after any sequence of Set and Reset calls.
WritersOpen ==
  \A w \in {out, stdout, stderr} : w > 0 => handles[w].open
=============================================================================
