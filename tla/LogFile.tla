------------------------------ MODULE LogFile ------------------------------
(***************************************************************************)
(* The log file (Logger in logger.cpp), whose name is kept twice: in the   *)
(* configuration, which the settings dialog changes, and in the Logger.    *)
(* The file is opened when the program starts, changed by reset_logfile()  *)
(* when settings are accepted, flushed by a timer and closed at the end.   *)
(* "wide" is a name that cannot be converted to the codeset of file names. *)
(* A file of the model is the sequence of what was written to it: text, a  *)
(* mark, or the lines that say that a log begins and ends.                 *)
(***************************************************************************)
EXTENDS Naturals, Sequences

CONSTANTS
  LogNames,            \* the names that the user may give, "" among them
  LOGFILE_MARK_COUNT,  \* a mark every so many flushes
  MaxLogSteps          \* bound: texts written, flushes and changes of the name

VARIABLES
  logger,        \* is the Logger "unborn", "alive" or "gone"
  configured,    \* prog_config.logfile_name
  logfile_name,  \* Logger::logfile_name
  logfile,       \* the name of the file that the stream has open, or ""
  buffer,        \* what the stream has not written yet
  logfile_count,
  timers,        \* the timeouts that call logfile_timer_impl()
  logs,          \* for each name what the file holds
  logSteps

logVars == <<logger, configured, logfile_name, logfile, buffer, logfile_count, timers, logs,
             logSteps>>

Convertible(name) == name # "wide"

-----------------------------------------------------------------------------
(* Opening and closing, from files and a number of timers.                 *)

\* The file is opened at its end and a timer started.  When it cannot be opened,
\* or its name not be converted, the configuration has no log from then on.
Opened(name, from, running) ==
  \/ /\ name # "" /\ Convertible(name)
     /\ logfile' = name /\ logfile_name' = name /\ configured' = name
     /\ logs' = [from EXCEPT ![name] = Append(@, "begin")]
     /\ timers' = running + 1
  \/ /\ logfile' = "" /\ logfile_name' = "" /\ configured' = ""
     /\ logs' = from /\ timers' = running

Flushed == IF logfile = "" THEN logs ELSE [logs EXCEPT ![logfile] = @ \o buffer]

\* The line that ends the log is written, the timer removed.
Closed == [files |-> [Flushed EXCEPT ![logfile] = Append(@, "end")], timers |-> timers - 1]

-----------------------------------------------------------------------------
\* The constructor.
Logger ==
  /\ logger = "unborn" /\ logger' = "alive"
  /\ Opened(configured, logs, timers)
  /\ UNCHANGED <<buffer, logfile_count, logSteps>>

Step == logger = "alive" /\ logSteps < MaxLogSteps /\ logSteps' = logSteps + 1

\* The settings are accepted: configure_prog(), and then reset_logfile(), which
\* leaves the file open when the name did not change, and also when it cannot be
\* converted; write_to_log() then writes nothing any more.
reset_logfile_Bug(name) ==
  /\ Step
  /\ IF name = logfile_name \/ ~Convertible(name)
     THEN /\ configured' = IF name = logfile_name THEN name ELSE ""
          /\ UNCHANGED <<logfile_name, logfile, buffer, logfile_count, timers, logs>>
     ELSE /\ buffer' = <<>> /\ logfile_count' = 0
          /\ Opened(name, Flushed, timers)
  /\ UNCHANGED logger
reset_logfile(name) ==
  /\ Step
  /\ IF name = logfile_name \/ ~Convertible(name)
     THEN /\ configured' = IF name = logfile_name THEN name ELSE ""
          /\ UNCHANGED <<logfile_name, logfile, buffer, logfile_count, timers, logs>>
     ELSE /\ buffer' = <<>> /\ logfile_count' = 0
          /\ IF logfile_name = "" THEN Opened(name, logs, timers)
             ELSE Opened(name, Closed.files, Closed.timers)
  /\ UNCHANGED logger

write_to_log ==
  /\ Step
  /\ configured # ""
  /\ buffer' = Append(buffer, "text")
  /\ UNCHANGED <<logger, configured, logfile_name, logfile, logfile_count, timers, logs>>

\* The timer, which flushes, and now and then adds a mark.
logfile_timer_impl ==
  /\ Step
  /\ timers > 0
  /\ LET full == logfile_count + 1 >= LOGFILE_MARK_COUNT
     IN /\ logfile_count' = IF full THEN 0 ELSE logfile_count + 1
        /\ logs' = IF full THEN [Flushed EXCEPT ![logfile] = Append(@, "mark")] ELSE Flushed
  /\ buffer' = <<>>
  /\ UNCHANGED <<logger, configured, logfile_name, logfile, timers>>

\* view_log() and log_to_string(), which flush before the file is read.
view_log ==
  /\ logger = "alive" /\ configured # "" /\ buffer # <<>>
  /\ buffer' = <<>> /\ logs' = Flushed
  /\ UNCHANGED <<logger, configured, logfile_name, logfile, logfile_count, timers, logSteps>>

\* The destructor: the log is ended if the configuration has one; the stream is
\* closed in any case.
EndLogger ==
  /\ logger = "alive" /\ logger' = "gone"
  /\ IF configured # "" THEN logs' = Closed.files /\ timers' = Closed.timers
     ELSE logs' = Flushed /\ timers' = timers
  /\ logfile' = "" /\ buffer' = <<>>
  /\ UNCHANGED <<configured, logfile_name, logfile_count, logSteps>>

-----------------------------------------------------------------------------
InitLog ==
  /\ logger = "unborn" /\ configured \in LogNames
  /\ logfile_name = "" /\ logfile = "" /\ buffer = <<>> /\ logfile_count = 0 /\ timers = 0
  /\ logs = [name \in LogNames |-> <<>>] /\ logSteps = 0

NextLog ==
  \/ Logger \/ write_to_log \/ logfile_timer_impl \/ view_log \/ EndLogger
  \/ \E name \in LogNames : reset_logfile(name)

SpecLog == InitLog /\ [][NextLog]_logVars

-----------------------------------------------------------------------------
\* What begins ends, before it begins again, and everything is in between.
Bracketed(log) ==
  /\ log # <<>> => log[1] = "begin"
  /\ \A n \in 1..(Len(log) - 1) : log[n] = "end" <=> log[n + 1] = "begin"

\* No log is open in the file.
Ended(log) == log = <<>> \/ log[Len(log)] = "end"

(* However often the name of the log is changed, to one that cannot be     *)
(* opened or converted as well, there is one timer while a file is open and *)
(* none without (it works on the stream), the file that is written to is   *)
(* the one whose name the Logger knows, and no file is left without the    *)
(* line that ends its log when another is opened.                          *)
LogIsSound ==
  /\ logger = "alive" =>
       /\ timers = IF logfile = "" THEN 0 ELSE 1
       /\ logfile_name = logfile
       /\ configured # "" => configured = logfile
  /\ \A name \in LogNames :
       /\ Bracketed(logs[name])
       /\ name # logfile /\ logger = "alive" => Ended(logs[name])

=============================================================================
