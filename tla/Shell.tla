------------------------------- MODULE Shell -------------------------------
(***************************************************************************)
(* firmware/shell.c: the line parser behind the USB port.  cmd_buffer and  *)
(* cmd_pos are one sequence.  cmd_buffer has ten bytes and cmd_pos is the  *)
(* next one in ShellState: nothing compares the two (shell.c:37), and the  *)
(* eleventh byte of a line becomes cmd_pos.  The operators here are right  *)
(* as long as the sequence they return fits (Fits), and who uses them says *)
(* what happens when it does not.                                          *)
(*                                                                         *)
(* The caller initialises the shell after every complete command, so       *)
(* found_cmd never outlives the call that sets it and the bytes after a    *)
(* command are never collected.                                            *)
(***************************************************************************)
EXTENDS Integers, Sequences, SequencesExt

CONSTANT CMD_BUFFER_SIZE  \* 10 in shell.h

ASSUME CmdBufferAssumption == CMD_BUFFER_SIZE \in Nat \ {0}

SP == "SP"
CR == "CR"
LF == "LF"

\* Later ones take precedence.
shell_commands == <<
  [cmd |-> "HELP",   name |-> <<"H", "E", "L", "P">>],
  [cmd |-> "CONFIG", name |-> <<"C", "O", "N", "F", "I", "G">>],
  [cmd |-> "SAVE",   name |-> <<"S", "A", "V", "E">>] >>

shell_init == <<>>

\* The new cmd_buffer, and whether it holds a command.
Fed(cmd_buffer, found_cmd) == [cmd_buffer |-> cmd_buffer, found_cmd |-> found_cmd]

\* Mutant: the carriage return stays in the command.
shell_feedKeepCR(cmd_buffer, byte) ==
  CASE cmd_buffer = <<>> /\ byte = SP -> Fed(cmd_buffer, FALSE)
    [] cmd_buffer # <<>> /\ byte = LF  -> Fed(cmd_buffer, TRUE)
    [] OTHER                           -> Fed(Append(cmd_buffer, byte), FALSE)

\* A line feed that comes first is stored like any other byte.
shell_feed(cmd_buffer, byte) ==
  CASE cmd_buffer = <<>> /\ byte = SP -> Fed(cmd_buffer, FALSE)
    [] cmd_buffer # <<>> /\ byte = LF ->
         Fed(IF Last(cmd_buffer) = CR THEN Front(cmd_buffer) ELSE cmd_buffer, TRUE)
    [] OTHER -> Fed(Append(cmd_buffer, byte), FALSE)

Fits(cmd_buffer) == Len(cmd_buffer) <= CMD_BUFFER_SIZE

\* memcmp over cmd_pos bytes; a longer command differs from the null character at
\* the end of the name, if none is typed.
Matches(cmd_buffer, name) ==
  /\ Len(cmd_buffer) <= Len(name)
  /\ \A i \in DOMAIN cmd_buffer : cmd_buffer[i] = name[i]

Short(cmd_buffer) ==
  CASE cmd_buffer = <<"C">>     -> "CONFIG"
    [] cmd_buffer = <<"S">>     -> "SAVE"
    [] Len(cmd_buffer) = 1 /\ cmd_buffer[1] \notin {"C", "S"} -> "HELP"
    [] OTHER                    -> "UNKNOWN"

shell_complete(cmd_buffer) ==
  LET matching == {i \in DOMAIN shell_commands : Matches(cmd_buffer, shell_commands[i].name)}
  IN  IF matching = {} THEN Short(cmd_buffer) ELSE shell_commands[Max(matching)].cmd
==========================================================================
