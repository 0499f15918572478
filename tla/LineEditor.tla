----------------------------- MODULE LineEditor -----------------------------
(***************************************************************************)
(* The shell of finsh/shell.c, which edits a line in place as its bytes    *)
(* come in, and finsh/msh.c, which completes it and splits it in place     *)
(* into the arguments of a command.  One thread does it, a byte at a time. *)
(*                                                                         *)
(* FINSH_USING_HISTORY is on; the echo is left out.  A line is zeros from  *)
(* its end on, which is what its strlen, memcmp and memcpy rely on.        *)
(***************************************************************************)
EXTENDS Integers, Sequences, SequencesExt

CONSTANTS
    FINSH_CMD_SIZE, FINSH_HISTORY_LINES, FINSH_ARG_MAX,
    Commands,    \* the sequence of the names of the commands
    Sessions,    \* [keys, length, lines]: the characters typed, the length of a
                 \*   line, and bounds on the lines remembered until the end
    Nul          \* '\0'

Blank     == " "
Quote     == "quote"
Backslash == "backslash"

Positions == 0..FINSH_CMD_SIZE-1
Empty     == [i \in Positions |-> Nul]

LineEditorAssumption ==
    /\ FINSH_CMD_SIZE \in Nat \ {0} /\ FINSH_HISTORY_LINES \in Nat \ {0}
    /\ FINSH_ARG_MAX \in Nat \ {0}
    /\ \A s \in Sessions : s.length <= FINSH_CMD_SIZE /\ Nul \notin s.keys
    /\ \A i \in DOMAIN Commands : Len(Commands[i]) \in 1..FINSH_CMD_SIZE-1

VARIABLES
    session,
    line, line_position, line_curpos,
    stat,
    cmd_history, history_count, current_history,
    argv         \* history: what the command that was run last was given

edited == <<line, line_position, line_curpos>>
recalled == <<cmd_history, history_count, current_history>>

Init ==
    /\ session \in Sessions
    /\ line = Empty /\ line_position = 0 /\ line_curpos = 0
    /\ stat = "WAIT_NORMAL"
    /\ cmd_history = [h \in 0..FINSH_HISTORY_LINES-1 |-> Empty]
    /\ history_count = 0 /\ current_history = 0
    /\ argv = <<>>

-----------------------------------------------------------------------------
(* msh.c.                                                                  *)

\* The bytes from i to before j, and those up to a zero.
Bytes(cmd, i, j) == [k \in 1..j-i |-> cmd[i + k - 1]]
strlen(cmd, i) == CHOOSE n \in 0..FINSH_CMD_SIZE-1-i :
                     /\ cmd[i + n] = Nul
                     /\ \A k \in i..i+n-1 : cmd[k] # Nul
String(cmd, i) == Bytes(cmd, i, i + strlen(cmd, i))

\* The first position from i on that is a blank (or is none), or the end.
Skip(cmd, i, end, blanks) ==
    CHOOSE j \in i..end :
       /\ \A k \in i..j-1 : (cmd[k] = Blank) = blanks
       /\ j = end \/ (cmd[j] = Blank) # blanks

\* The quote that closes the string at i, or the end.
RECURSIVE StringEnd(_, _, _)
StringEnd(cmd, i, end) ==
    IF i >= end \/ cmd[i] = Quote THEN i
    ELSE IF cmd[i] = Backslash /\ cmd[i + 1] = Quote THEN StringEnd(cmd, i + 2, end)
    ELSE StringEnd(cmd, i + 1, end)

\* msh_split, from i on: zeros for the blanks and closing quotes, and the
\* positions of the arguments so far.
RECURSIVE msh_split(_, _, _, _)
msh_split(cmd, i, end, starts) ==
    LET j     == Skip(cmd, i, end, TRUE)
        strip == [k \in Positions |-> IF k \in i..j-1 THEN Nul ELSE cmd[k]]
        close == StringEnd(strip, j + 1, end)
        next  == Skip(strip, j, end, FALSE)
    IN IF j >= end \/ Len(starts) >= FINSH_ARG_MAX
       THEN [cmd |-> strip, starts |-> starts]
       ELSE IF cmd[j] = Quote
       THEN IF close >= end
            THEN [cmd |-> strip, starts |-> Append(starts, j + 1)]
            ELSE msh_split([strip EXCEPT ![close] = Nul], close + 1, end,
                           Append(starts, j + 1))
       ELSE IF next >= end
            THEN [cmd |-> strip, starts |-> Append(starts, j)]
            ELSE msh_split(strip, next, end, Append(starts, j))

\* msh_get_cmd: the name is that of a command.
msh_get_cmd(s) == \E i \in DOMAIN Commands : Commands[i] = s

\* msh_exec: the arguments of the command at the first word, if there is one.
msh_exec(cmd, length) ==
    LET begin == Skip(cmd, 0, length, TRUE)
        cmd0  == Bytes(cmd, begin, Skip(cmd, begin, length, FALSE))
        split == msh_split(cmd, begin, length, <<>>)
    IN IF begin = length \/ ~msh_get_cmd(cmd0) THEN <<>>
       ELSE [a \in DOMAIN split.starts |-> String(split.cmd, split.starts[a])]

str_common(s, u) ==
    CHOOSE n \in 0..Len(s) :
       /\ n <= Len(u) /\ SubSeq(s, 1, n) = SubSeq(u, 1, n)
       /\ n = Len(s) \/ n = Len(u) \/ s[n + 1] # u[n + 1]

\* msh_auto_complete: what the first command found has in common with the others.
msh_auto_complete(prefix) ==
    LET Match(found, name) ==
            IF ~IsPrefix(String(prefix, 0), name) THEN found
            ELSE IF found.min_length = 0 THEN [name_ptr |-> name, min_length |-> Len(name)]
            ELSE LET length == str_common(found.name_ptr, name)
                 IN [found EXCEPT !.min_length = IF length < @ THEN length ELSE @]
        found == FoldLeft(Match, [name_ptr |-> <<>>, min_length |-> 0], Commands)
    IN IF prefix[0] = Nul THEN prefix
       ELSE [i \in Positions |-> IF i < found.min_length THEN found.name_ptr[i + 1]
                                 ELSE prefix[i]]

-----------------------------------------------------------------------------
(* finsh_thread_entry, with a byte.                                        *)

\* The user goes on.
Goes == history_count < session.lines

Escape ==
    /\ Goes /\ stat' = "WAIT_SPEC_KEY"
    /\ UNCHANGED <<session, edited, recalled, argv>>

Bracket ==
    /\ Goes /\ stat = "WAIT_SPEC_KEY"
    /\ stat' = "WAIT_FUNC_KEY"
    /\ UNCHANGED <<session, edited, recalled, argv>>

\* A byte that ends an escape sequence, and one that is not of any.
Arrow       == Goes /\ stat = "WAIT_FUNC_KEY" /\ stat' = "WAIT_NORMAL"
Byte(other) == Goes /\ (stat = "WAIT_FUNC_KEY" => other) /\ stat' = "WAIT_NORMAL"

\* memcpy of a remembered command.
Recall(h) ==
    /\ current_history' = h
    /\ line' = cmd_history[h]
    /\ line_position' = strlen(line', 0) /\ line_curpos' = line_position'

Up ==
    /\ Arrow
    /\ IF current_history > 0 THEN Recall(current_history - 1)
       ELSE UNCHANGED <<edited, current_history>>
    /\ UNCHANGED <<session, cmd_history, history_count, argv>>

Down ==
    /\ Arrow
    /\ IF current_history < history_count - 1 THEN Recall(current_history + 1)
       ELSE IF history_count # 0 THEN Recall(history_count - 1)
       ELSE UNCHANGED <<edited, current_history>>
    /\ UNCHANGED <<session, cmd_history, history_count, argv>>

Left ==
    /\ Arrow
    /\ line_curpos' = IF line_curpos > 0 THEN line_curpos - 1 ELSE line_curpos
    /\ UNCHANGED <<session, line, line_position, recalled, argv>>

Right ==
    /\ Arrow
    /\ line_curpos' = IF line_curpos < line_position THEN line_curpos + 1 ELSE line_curpos
    /\ UNCHANGED <<session, line, line_position, recalled, argv>>

\* '\0' and 0xFF.
Ignored ==
    /\ Byte(TRUE)
    /\ UNCHANGED <<session, edited, recalled, argv>>

Complete ==
    /\ Byte(TRUE)
    /\ line' = msh_auto_complete(line)
    /\ line_position' = strlen(line', 0) /\ line_curpos' = line_position'
    /\ UNCHANGED <<session, recalled, argv>>

Backspace ==
    /\ Byte(TRUE)
    /\ IF line_curpos = 0 THEN UNCHANGED edited
       ELSE /\ line_position' = line_position - 1
            /\ line_curpos' = line_curpos - 1
            /\ line' = [i \in Positions |->
                           CASE i = line_position' -> Nul
                             [] i \in line_curpos'..line_position'-1 -> line[i + 1]
                             [] OTHER -> line[i]]
    /\ UNCHANGED <<session, recalled, argv>>

\* A line is remembered.
Push(h) ==
    cmd_history' = [cmd_history EXCEPT
        ![h] = [i \in Positions |-> IF i < line_position THEN line[i] ELSE Nul]]

\* The remembered lines move down.
Pushed ==
    cmd_history' = [h \in DOMAIN cmd_history |->
        IF h < FINSH_HISTORY_LINES - 1 THEN cmd_history[h + 1]
        ELSE [i \in Positions |-> IF i < line_position THEN line[i] ELSE Nul]]

\* shell_push_history.
shell_push_history ==
    /\ IF \/ line_position = 0
          \/ history_count # 0 /\ cmd_history[history_count - 1] = line
       THEN UNCHANGED <<cmd_history, history_count>>
       ELSE IF history_count >= FINSH_HISTORY_LINES
       THEN Pushed /\ UNCHANGED history_count
       ELSE Push(history_count) /\ history_count' = history_count + 1
    /\ current_history' = history_count'

Enter ==
    /\ Byte(TRUE)
    /\ shell_push_history
    /\ argv' = msh_exec(line, line_position)
    /\ line' = Empty /\ line_position' = 0 /\ line_curpos' = 0
    /\ UNCHANGED session

\* Mutant: the characters after the cursor are not moved.
TypeOver(ch) ==
    /\ Byte(ch \notin {"A", "B", "C", "D"})
    /\ ch \in session.keys /\ line_position < session.length
    /\ line' = [line EXCEPT ![line_curpos] = ch]
    /\ line_position' = line_position + 1 /\ line_curpos' = line_curpos + 1
    /\ UNCHANGED <<session, recalled, argv>>

\* A character is inserted; a line that has reached its size begins again.
Type(ch) ==
    /\ Byte(ch \notin {"A", "B", "C", "D"})
    /\ ch \in session.keys /\ line_position < session.length
    /\ LET position == IF line_position >= FINSH_CMD_SIZE THEN 0 ELSE line_position
       IN /\ IF line_curpos < position
             THEN line' = [i \in Positions |->
                              CASE i = line_curpos -> ch
                                [] i \in line_curpos+1..position -> line[i - 1]
                                [] OTHER -> line[i]]
             ELSE line' = [line EXCEPT ![position] = ch]
          /\ IF position + 1 >= FINSH_CMD_SIZE
             THEN line_position' = 0 /\ line_curpos' = 0
             ELSE line_position' = position + 1 /\ line_curpos' = line_curpos + 1
    /\ UNCHANGED <<session, recalled, argv>>

Next ==
    \/ Escape \/ Bracket \/ Up \/ Down \/ Left \/ Right
    \/ Ignored \/ Complete \/ Backspace \/ Enter
    \/ \E ch \in session.keys : Type(ch)

Spec == Init /\ [][Next]_<<session, edited, stat, recalled, argv>>

-----------------------------------------------------------------------------
(* Properties.                                                             *)

Text == INSTANCE Editor WITH
    Characters <- UNION {s.keys : s \in Sessions},
    MaxWords   <- FINSH_ARG_MAX,
    MaxPast    <- FINSH_HISTORY_LINES,
    text       <- Bytes(line, 0, line_position),
    cursor     <- line_curpos,
    past       <- [h \in 1..history_count |-> String(cmd_history[h - 1], 0)],
    shown      <- current_history,
    ran        <- argv

\* A line shorter than its buffer is edited as a text is, the lines that are
\* remembered are those entered, and a command gets the words of its line.
IsEditor == Text!Spec

\* "it's a large line, discard it" (shell.c:731): nothing of a line is left
\* beyond its end.
LargeLinesAreDiscarded == \A i \in line_position..FINSH_CMD_SIZE-1 : line[i] = Nul
=============================================================================
