------------------------------- MODULE Console -------------------------------
(* The shell as a whole: its device and its commands (Devices), and the line *)
(* it edits (LineEditor).  The line belongs to the thread of the shell, and  *)
(* a byte is handled before the next is read: a behaviour here is one of the *)
(* two.                                                                      *)
EXTENDS Devices

CONSTANTS
    FINSH_CMD_SIZE, FINSH_HISTORY_LINES, FINSH_ARG_MAX, Commands, Sessions, Nul

VARIABLES
    part,            \* of this behaviour
    session, line, line_position, line_curpos, stat,
    cmd_history, history_count, current_history, argv

Keyboard == INSTANCE LineEditor

ASSUME ConsoleAssumption == Keyboard!LineEditorAssumption

keyboard == <<session, line, line_position, line_curpos, stat,
              cmd_history, history_count, current_history, argv>>

ConsoleInit ==
    /\ part \in {"device", "line"}
    /\ Init /\ Keyboard!Init
    /\ part = "device" => session = CHOOSE s \in Sessions : TRUE
    /\ part = "line" => app = CHOOSE a \in Applications : TRUE

ConsoleNext ==
    /\ UNCHANGED part
    /\ \/ part = "device" /\ Next /\ UNCHANGED keyboard
       \/ part = "line" /\ Keyboard!Next /\ UNCHANGED vars

ConsoleSpec == ConsoleInit /\ [][ConsoleNext]_<<part, vars, keyboard>>

-----------------------------------------------------------------------------
(* Properties.                                                             *)

\* The line of the shell is a text under an editor, and its commands get the
\* words of it.
IsEditor == Keyboard!IsEditor

LargeLinesAreDiscarded == Keyboard!LargeLinesAreDiscarded
=============================================================================
