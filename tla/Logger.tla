------------------------------- MODULE Logger -------------------------------
(***************************************************************************)
(* The log files of logger.c across restarts.  Every start reads a number  *)
(* from /data/latest, writes the next one back, and creates log.N.txt and  *)
(* log.N.pcap, to which it then appends.  Power may go at any moment, and  *)
(* any call of FatFs may fail.                                             *)
(*                                                                         *)
(* FatFs is external: a new directory entry is on the card for certain     *)
(* only after the next f_sync, which every write to a log ends with.       *)
(*                                                                         *)
(* The names every module has begin with Card here, since PeripheralProofs *)
(* extends FrontPanel as well.                                             *)
(***************************************************************************)
EXTENDS Integers, Sequences

CONSTANT MaxStarts  \* bound: starts in a behaviour

ASSUME StartsAssumption == MaxStarts \in Nat

VARIABLES
  stage,        \* where logger_init is, "running", or "off"
  starts,       \* how often the board was started
  latest_log,   \* the number of this start's logs, -1 until it is known
  opened,       \* the log files this start has open: fp and pcap_fp
  latest,       \* /data/latest: is it there, and its lines
  files,        \* the logs on the card
  unsynced,     \* those that power loss may still undo
  lines,        \* <<file, start>>: what was written
  torn,         \* ghost: power went while `latest` was empty
  failed        \* ghost: a `latest` that was there could not be read, or not written

ram  == <<stage, latest_log, opened>>
logs == <<files, unsynced, lines>>
past == <<torn, failed>>
cardVars == <<ram, starts, latest, logs, past>>

Txt(n)  == <<"txt", n>>
Pcap(n) == <<"pcap", n>>

CardInit ==
  /\ stage = "off" /\ starts = 0
  /\ latest_log = -1 /\ opened = {}
  /\ latest = [there |-> FALSE, text |-> <<>>]
  /\ files = {} /\ unsynced = {} /\ lines = {}
  /\ torn = FALSE /\ failed = FALSE

---------------------------------------------------------------------------
(* logger_init                                                             *)

Start ==
  /\ stage = "off" /\ starts < MaxStarts
  /\ starts' = starts + 1
  /\ stage' = "mount"
  /\ UNCHANGED <<latest_log, opened, latest, logs, past>>

\* Without a card the program runs on: run_main_loop ignores the result.
Mount ==
  /\ stage = "mount"
  /\ stage' \in {"read", "running"}
  /\ UNCHANGED <<latest_log, opened, starts, latest, logs, past>>

atoi(text) == IF text = <<>> THEN 0 ELSE text[1]

\* A file that cannot be opened is taken for a missing one, and one that
\* cannot be read for an empty one.
ReadLatest ==
  /\ stage = "read"
  /\ \/ latest_log' = -1 /\ failed' = (failed \/ latest.there)
     \/ latest.there /\ latest_log' = atoi(latest.text) /\ UNCHANGED failed
     \/ latest.there /\ latest_log' = atoi(<<>>) /\ failed' = TRUE
  /\ stage' = "truncate"
  /\ UNCHANGED <<opened, starts, latest, logs, torn>>

---------------------------------------------------------------------------
(* roll_log_file                                                           *)

Truncate ==
  /\ stage = "truncate"
  /\ \/ stage' = "running" /\ UNCHANGED latest
     \/ stage' = "number" /\ latest' = [there |-> TRUE, text |-> <<>>]
  /\ UNCHANGED <<latest_log, opened, starts, logs, past>>

\* Mutant: the number is not written back.
WriteLatestOld ==
  /\ stage = "number"
  /\ latest_log' = latest_log + 1
  /\ \/ latest' = [latest EXCEPT !.text = <<latest_log>>] /\ UNCHANGED failed
     \/ failed' = TRUE /\ UNCHANGED latest
  /\ stage' = "txt"
  /\ UNCHANGED <<opened, starts, logs, torn>>

\* Mutant: the number is stepped once more in the file.
WriteLatestTwice ==
  /\ stage = "number"
  /\ latest_log' = latest_log + 1
  /\ \/ latest' = [latest EXCEPT !.text = <<latest_log + 2>>] /\ UNCHANGED failed
     \/ failed' = TRUE /\ UNCHANGED latest
  /\ stage' = "txt"
  /\ UNCHANGED <<opened, starts, logs, torn>>

\* The line reaches the card when f_close writes it; no result is looked at.
WriteLatest ==
  /\ stage = "number"
  /\ latest_log' = latest_log + 1
  /\ \/ latest' = [latest EXCEPT !.text = <<latest_log + 1>>] /\ UNCHANGED failed
     \/ failed' = TRUE /\ UNCHANGED latest
  /\ stage' = "txt"
  /\ UNCHANGED <<opened, starts, logs, torn>>

\* Mutant: FA_CREATE_ALWAYS, which empties a file that is there.
CreateAlways(file) ==
  /\ files' = files \cup {file}
  /\ unsynced' = unsynced \cup {file}
  /\ lines' = {line \in lines : line[1] # file}
  /\ opened' = opened \cup {file}

\* Mutant: FA_OPEN_APPEND.
CreateAppend(file) ==
  /\ files' = files \cup {file}
  /\ unsynced' = IF file \in files THEN unsynced ELSE unsynced \cup {file}
  /\ opened' = opened \cup {file}
  /\ UNCHANGED lines

\* f_open with FA_CREATE_NEW.
CreateNew(file) ==
  /\ file \notin files
  /\ files' = files \cup {file}
  /\ unsynced' = unsynced \cup {file}
  /\ opened' = opened \cup {file}
  /\ UNCHANGED lines

NotCreated == UNCHANGED <<opened, logs>>

CreateTxt ==
  /\ stage = "txt"
  /\ \/ CreateNew(Txt(latest_log)) /\ stage' = "pcap"
     \/ NotCreated /\ stage' = "running"
  /\ UNCHANGED <<latest_log, starts, latest, past>>

\* The result of this f_open is not looked at.
CreatePcap ==
  /\ stage = "pcap"
  /\ CreateNew(Pcap(latest_log)) \/ NotCreated
  /\ stage' = "header"
  /\ UNCHANGED <<latest_log, starts, latest, past>>

\* f_write and f_sync do nothing for a file that is not open.
Header ==
  /\ stage = "header"
  /\ unsynced' = IF Pcap(latest_log) \in opened THEN {} ELSE unsynced
  /\ stage' = "running"
  /\ UNCHANGED <<latest_log, opened, starts, latest, files, lines, past>>

---------------------------------------------------------------------------

\* logger_write_ascii, logger_write_pcap
Log(file) ==
  /\ stage = "running" /\ file \in opened
  /\ lines' = lines \cup {<<file, starts>>}
  /\ unsynced' = {}
  /\ UNCHANGED <<ram, starts, latest, files, past>>

\* Memory is lost, and any directory entry that was not flushed.
PowerLoss ==
  /\ stage # "off"
  /\ stage' = "off" /\ latest_log' = -1 /\ opened' = {}
  /\ \E gone \in SUBSET unsynced : files' = files \ gone
  /\ unsynced' = {}
  /\ torn' = (torn \/ stage = "number")
  /\ UNCHANGED <<starts, latest, lines, failed>>

LoggerInit ==
  Mount \/ ReadLatest \/ Truncate \/ WriteLatest \/ CreateTxt \/ CreatePcap \/ Header

CardNext ==
  \/ Start \/ LoggerInit
  \/ \E file \in opened : Log(file)
  \/ PowerLoss

CardSpec == CardInit /\ [][CardNext]_cardVars

---------------------------------------------------------------------------

Numbers == -1..MaxStarts
LogFiles == {"txt", "pcap"} \X (0..MaxStarts)

CardTypeOK ==
  /\ stage \in {"off", "mount", "read", "truncate", "number", "txt", "pcap", "header", "running"}
  /\ starts \in 0..MaxStarts
  /\ latest_log \in Numbers
  /\ latest \in [there: BOOLEAN, text: Seq(0..MaxStarts)] /\ Len(latest.text) <= 1
  /\ files \subseteq LogFiles /\ opened \subseteq files /\ unsynced \subseteq files
  /\ lines \subseteq LogFiles \X (1..MaxStarts)
  /\ torn \in BOOLEAN /\ failed \in BOOLEAN

\* Whatever number a start computes, what earlier starts logged stays in its
\* file, also when `latest` was lost and the numbers begin again.
LogsKept ==
  [][lines \subseteq lines' /\ \A line \in lines : line[1] \in files']_cardVars

\* A log, text and packets together, is of one start: its number tells which
\* packets belong to which session (src/README.md:50).
OneStartPerNumber ==
  \A a, b \in lines : a[1][2] = b[1][2] => a[2] = b[2]

\* As long as `latest` itself was never lost, the number of a start is used by
\* no log on the card, whatever else failed and wherever power went.
NumberIsFresh ==
  stage = "txt" /\ ~torn /\ ~failed => {Txt(latest_log), Pcap(latest_log)} \cap files = {}

\* "Each time the NinoBLE starts up, a new log file is created"
\* (src/README.md:50): with a card that never fails, the name that
\* roll_log_file is about to create is not taken.
EachStartNewLog == stage = "txt" /\ ~failed => Txt(latest_log) \notin files
==========================================================================
