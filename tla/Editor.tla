------------------------------- MODULE Editor -------------------------------
(* What the line editor of the shell promises: a text with a cursor, the    *)
(* commands entered last, without repetitions, and the words of a text that *)
(* is entered as the arguments of its command.                              *)
EXTENDS Integers, Sequences, SequencesExt

CONSTANTS
    Characters, Blank, Quote, Backslash,
    Commands,    \* the names of the commands, each a sequence of characters
    MaxWords,    \* words a command is given
    MaxPast      \* commands that are remembered

VARIABLES
    text, cursor,
    past, shown, \* the commands remembered, and the one browsing has come to
    ran          \* the command that ran last, and its words

Init == text = <<>> /\ cursor = 0 /\ past = <<>> /\ shown = 0 /\ ran = <<>>

\* A word ends at a blank, or at its closing quote if it begins with one; a
\* backslash keeps a quote from closing it.
Words(s) ==
    LET Read(state, c) ==
            LET n == Len(state.words)
            IN CASE state.in = "word" /\ c = Blank -> [state EXCEPT !.in = "blank"]
                 [] /\ state.in = "string" /\ c = Quote
                    /\ state.words[n] = <<>> \/ Last(state.words[n]) # Backslash
                    -> [state EXCEPT !.in = "blank"]
                 [] state.in = "blank" /\ c = Blank -> state
                 [] state.in = "blank" /\ c = Quote ->
                    [words |-> Append(state.words, <<>>), in |-> "string"]
                 [] state.in = "blank" -> [words |-> Append(state.words, <<c>>), in |-> "word"]
                 [] OTHER -> [state EXCEPT !.words[n] = Append(@, c)]
    IN FoldLeft(Read, [words |-> <<>>, in |-> "blank"], s).words

\* The text with a command of its first word, its words, if there is one.
Run(s) ==
    LET words == Words(s)
    IN IF \E c \in Range(Commands), i \in 0..Len(s) :
             /\ \A j \in 1..i : s[j] = Blank
             /\ i + Len(c) = Len(s) \/ (i + Len(c) < Len(s) /\ s[i + Len(c) + 1] = Blank)
             /\ c = SubSeq(s, i + 1, i + Len(c))
       THEN SubSeq(words, 1, IF Len(words) < MaxWords THEN Len(words) ELSE MaxWords)
       ELSE <<>>

\* What the commands that begin with a text have in common.
Completion(s) ==
    LET matching == {c \in Range(Commands) : IsPrefix(s, c)}
    IN IF s = <<>> \/ matching = {} THEN s ELSE LongestCommonPrefix(matching)

-----------------------------------------------------------------------------
Type(c) ==
    /\ text' = SubSeq(text, 1, cursor) \o <<c>> \o SubSeq(text, cursor + 1, Len(text))
    /\ cursor' = cursor + 1
    /\ UNCHANGED <<past, shown, ran>>

Erase ==
    /\ cursor > 0
    /\ text' = RemoveAt(text, cursor)
    /\ cursor' = cursor - 1
    /\ UNCHANGED <<past, shown, ran>>

Move ==
    /\ cursor' \in {cursor - 1, cursor + 1} \cap (0..Len(text))
    /\ UNCHANGED <<text, past, shown, ran>>

Complete ==
    /\ text' = Completion(text) /\ cursor' = Len(text')
    /\ UNCHANGED <<past, shown, ran>>

Show(i) ==
    /\ i \in 1..Len(past)
    /\ shown' = i - 1
    /\ text' = past[i] /\ cursor' = Len(text')
    /\ UNCHANGED <<past, ran>>

Enter ==
    /\ text' = <<>> /\ cursor' = 0
    /\ ran' = Run(text)
    /\ past' = IF text = <<>> \/ (past # <<>> /\ text = Last(past)) THEN past
               ELSE IF Len(past) < MaxPast THEN Append(past, text)
               ELSE Append(Tail(past), text)
    /\ shown' = Len(past')

Next ==
    \/ Erase \/ Move \/ Complete \/ Enter
    \/ Show(shown)                                              \* up
    \/ Show(IF shown + 2 < Len(past) THEN shown + 2 ELSE Len(past))  \* down
    \/ \E c \in Characters : Type(c)

Spec == Init /\ [][Next]_<<text, cursor, past, shown, ran>>
=============================================================================
