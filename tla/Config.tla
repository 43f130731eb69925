------------------------------- MODULE Config -------------------------------
(***************************************************************************)
(* How the daemon's configuration comes about (src/config.c and the start  *)
(* of main): built-in defaults, the file at the default path, then the     *)
(* command line from left to right, on which -c reads another file in      *)
(* place.  A file is its key lines in order, each in a section; an option  *)
(* is its letter and argument.  The protocol, which nothing reads, and the *)
(* splitting of lines into words are left out.                             *)
(***************************************************************************)
EXTENDS Integers, Sequences

CONSTANTS
  Files,          \* contents a configuration file may have
  Options,        \* options a command line may hold
  NoFile,         \* in place of a file that cannot be opened
  INT_MAX,        \* largest value of an int (2^31 - 1)
  MAX_ARGS        \* bound of the model: options of a command line

ASSUME ConfigAssumption == INT_MAX \in Nat /\ MAX_ARGS \in Nat

\* A file is a sequence of key lines, -c names one.
ASSUME FileAssumption ==
  /\ Files \subseteq Seq([section : STRING, key : STRING, val : STRING])
  /\ NoFile \notin Files
  /\ \A o \in Options :
       /\ o = [opt |-> o.opt, arg |-> o.arg]
       /\ o.opt = "c" => o.arg \in Files \cup {NoFile}

VARIABLES
  ppc,            \* "defaults", "cli", "start" the daemon, "exit"
  file,           \* the file at the default path, or NoFile
  args,           \* the options read so far
  cfg,            \* tether_config_t
  exitCode        \* of the process, -1 while it runs

vars == <<ppc, file, args, cfg, exitCode>>

\* config_init_defaults.
Defaults ==
  [no_route |-> 0, no_dns |-> 0, log_level |-> "info",
   static_ip |-> "", gateway |-> "", netmask |-> "default",
   verbose |-> 0, ui_pid |-> 0, watch_mode |-> 0]

Init ==
  /\ ppc = "defaults" /\ args = <<>> /\ cfg = Defaults /\ exitCode = -1
  /\ file \in Files \cup {NoFile}

-----------------------------------------------------------------------------
(* config_load_file *)

ParseBool(val) == IF val \in {"true", "yes", "1", "on"} THEN 1 ELSE 0

ParseLogLevel(val) ==
  CASE val = "warning" -> "warn"
    [] val \in {"debug", "info", "warn", "error"} -> val
    [] OTHER -> "info"

Flags     == {"no_route", "no_dns"}
Addresses == {"static_ip", "gateway", "netmask"}

\* A key counts only in its section; an empty address is passed over.
ApplyLine(c, l) ==
  CASE l.section = "network" /\ l.key \in Flags -> [c EXCEPT ![l.key] = ParseBool(l.val)]
    [] l.section = "network" /\ l.key \in Addresses /\ l.val # "" ->
         [c EXCEPT ![l.key] = l.val]
    [] l.section = "logging" /\ l.key = "level" ->
         [c EXCEPT !.log_level = ParseLogLevel(l.val)]
    [] OTHER -> c

LoadFile(c, f) ==
  IF f = NoFile THEN c
  ELSE LET upTo[i \in 0 .. Len(f)] ==
             IF i = 0 THEN c ELSE ApplyLine(upTo[i - 1], f[i])
       IN  upTo[Len(f)]

\* config_load_default: a missing file is no error.
LoadDefault ==
  /\ ppc = "defaults"
  /\ cfg' = LoadFile(cfg, file)
  /\ ppc' = "cli"
  /\ UNCHANGED <<file, args, exitCode>>

-----------------------------------------------------------------------------
(* config_apply_cli *)

\* The long that strtol returns, as an int.
ToInt(val) == ((val + INT_MAX + 1) % (2 * (INT_MAX + 1))) - (INT_MAX + 1)

ApplyOption(c, o) ==
  CASE o.opt = "n" -> [c EXCEPT !.no_route = 1]
    [] o.opt = "d" -> [c EXCEPT !.no_dns = 1]
    [] o.opt = "s" -> [c EXCEPT !.static_ip = o.arg]
    [] o.opt = "g" -> [c EXCEPT !.gateway = o.arg]
    [] o.opt = "m" -> [c EXCEPT !.netmask = o.arg]
    [] o.opt = "v" -> [c EXCEPT !.verbose = 1, !.log_level = "debug"]
    [] o.opt = "p" -> [c EXCEPT !.ui_pid = ToInt(o.arg)]
    [] o.opt = "w" -> [c EXCEPT !.watch_mode = 1]
    [] o.opt = "c" -> LoadFile(c, o.arg)
    [] OTHER -> c

Known == {"n", "d", "s", "g", "m", "v", "w", "c", "p", "h", "V"}

\* An unknown option, a bad --ui-pid, a -c file that cannot be read.
Fails(o) ==
  \/ o.opt \notin Known
  \/ o.opt = "p" /\ o.arg <= 0
  \/ o.opt = "c" /\ o.arg = NoFile

ReadOption ==
  /\ ppc = "cli" /\ Len(args) < MAX_ARGS
  /\ \E o \in Options :
       /\ args' = Append(args, o)
       /\ IF Fails(o) \/ o.opt \in {"h", "V"}
          THEN /\ ppc' = "exit"
               /\ exitCode' = IF Fails(o) THEN 1 ELSE 0
               /\ UNCHANGED cfg
          ELSE /\ cfg' = ApplyOption(cfg, o)
               /\ UNCHANGED <<ppc, exitCode>>
  /\ UNCHANGED file

\* Mutant: the default file is read after the command line.
EndOptionsReload ==
  /\ ppc = "cli"
  /\ ppc' = "start" /\ cfg' = LoadFile(cfg, file)
  /\ UNCHANGED <<file, args, exitCode>>

\* The command line is read; only root may go on.
EndOptions ==
  /\ ppc = "cli"
  /\ \/ ppc' = "start" /\ UNCHANGED exitCode
     \/ ppc' = "exit" /\ exitCode' = 1
  /\ UNCHANGED <<file, args, cfg>>

Finished == ppc \in {"start", "exit"} /\ UNCHANGED vars

Next == LoadDefault \/ ReadOption \/ EndOptions \/ Finished

Spec == Init /\ [][Next]_vars

-----------------------------------------------------------------------------

(* The reference: the last word on a field *)

LinesOf(f) == IF f = NoFile THEN <<>> ELSE f

WordsOf(o) == IF o.opt = "c" THEN LinesOf(o.arg) ELSE <<o>>

\* Everything that is said, in the order in which it counts: the default file,
\* the command line, with the files of -c at their place in it.
Settings(f, a) ==
  LET cat[i \in 0 .. Len(a)] == IF i = 0 THEN LinesOf(f) ELSE cat[i - 1] \o WordsOf(a[i])
  IN  cat[Len(a)]

Letter ==
  [no_route |-> "n", no_dns |-> "d", log_level |-> "v", static_ip |-> "s", gateway |-> "g",
   netmask |-> "m", verbose |-> "v", ui_pid |-> "p", watch_mode |-> "w"]

IsOption(x) == "opt" \in DOMAIN x

SetByLine(l, field) ==
  \/ l.section = "network" /\ field \in Flags /\ l.key = field
  \/ l.section = "network" /\ field \in Addresses /\ l.key = field /\ l.val # ""
  \/ l.section = "logging" /\ field = "log_level" /\ l.key = "level"

Sets(x, field) == IF IsOption(x) THEN x.opt = Letter[field] ELSE SetByLine(x, field)

Value(x, field) ==
  CASE field \in Addresses -> IF IsOption(x) THEN x.arg ELSE x.val
    [] field \in Flags -> IF IsOption(x) THEN 1 ELSE ParseBool(x.val)
    [] field = "log_level" -> IF IsOption(x) THEN "debug" ELSE ParseLogLevel(x.val)
    [] field = "ui_pid" -> ToInt(x.arg)
    [] OTHER -> 1

\* The places of w that set the field, and what the last of them says.
Said(w, field) == {i \in 1 .. Len(w) : Sets(w[i], field)}

LastWord(w, field) ==
  IF Said(w, field) = {} THEN Defaults[field]
  ELSE Value(w[CHOOSE i \in Said(w, field) : \A j \in Said(w, field) : j <= i], field)

\* The daemon starts with the last word on each field: an option prevails over
\* the default file and over every -c before it, and yields to a -c after it
\* that names the field, which is not what config.h:10-12 and the README say
\* (see OptionsPrevail); a key in another section, an empty address or a -c
\* file that is silent leaves the field alone; no file makes the daemon watch
\* or follow a process (config.h:45 "set by CLI only").
LastWordWins ==
  ppc = "start" => cfg = [field \in DOMAIN Defaults |-> LastWord(Settings(file, args), field)]

\* README.md:136 "CLI arguments override config file settings.", and
\* config.h:10-12: a field that an option sets has the value of the last such
\* option, whatever the files say.
OptionsPrevail ==
  ppc = "start" =>
    \A field \in DOMAIN Defaults :
      LET set == {i \in 1 .. Len(args) : args[i].opt = Letter[field]}
      IN  \A i \in set : (\A j \in set : j <= i) => cfg[field] = Value(args[i], field)
=============================================================================
