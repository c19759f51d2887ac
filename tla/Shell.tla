------------------------------- MODULE Shell -------------------------------
(***************************************************************************)
(* The kernel shell's prompt: the character loop of cli_run and the        *)
(* splitting of a line into argv by dispatch_line, over the byte buffers   *)
(* g_line and g_last_line of src/cli/shell.c.                              *)
(*                                                                         *)
(* A step is one character read from the console.  What is drawn on the    *)
(* screen is left out; a blank stands for space and tab.  The commands     *)
(* themselves are other modules' business: argv is the list of strings the *)
(* line that has just been submitted is run with, <<>> after any other     *)
(* character.                                                              *)
(***************************************************************************)
EXTENDS Integers, Sequences, FiniteSetsExt

CONSTANTS
    MaxLine,     \* CLI_MAX_LINE
    MaxArgs,     \* CLI_MAX_ARGS
    Typed,       \* the bytes that can end up in the line: letters, the blank,
                 \* "[", backspace, and the NUL byte the serial line may deliver
    Controls     \* the control characters of include/mgcore/input.h, CR and LF

ASSUME ShellAssumption ==
    /\ MaxLine \in Nat \ {0, 1} /\ MaxArgs \in Nat \ {0}
    /\ Controls \subseteq {"^A", "^B", "^C", "^E", "^F", "^N", "^P", "ESC", "CR", "LF"}
    /\ Typed \cap (Controls \cup {"no_line"}) = {}

VARIABLES g_line, length, cursor, esc_state, g_last_line, g_has_last_line, argv

line == <<g_line, length, cursor>>
saved == <<g_last_line, g_has_last_line>>
shellVars == <<g_line, length, cursor, esc_state, g_last_line, g_has_last_line, argv>>

Index == 0..(MaxLine - 1)
Blank == " "

Bytes == Typed \cup {"NUL"}

\* The letter that ends an escape sequence, as the control key it stands for.
Arrow == [A |-> "^P", B |-> "^N", C |-> "^F", D |-> "^B"]

ShellTypeOK ==
    /\ g_line \in [Index -> Bytes] /\ g_last_line \in [Index -> Bytes]
    /\ length \in Index /\ cursor \in Index
    /\ esc_state \in 0..2 /\ g_has_last_line \in BOOLEAN
    /\ argv \in Seq(Seq(Typed \ {Blank, "NUL"})) /\ Len(argv) <= MaxArgs

ShellInit ==
    /\ g_line = [i \in Index |-> "NUL"] /\ g_last_line = [i \in Index |-> "NUL"]
    /\ length = 0 /\ cursor = 0 /\ esc_state = 0
    /\ g_has_last_line = FALSE /\ argv = <<>>

----------------------------------------------------------------------------
(* Strings in buffers *)

\* The first position from i on that holds a character of S, or the end.
First(buf, i, S) == Min({j \in Index : j >= i /\ buf[j] \in S} \cup {MaxLine})
kstrlen(buf) == First(buf, 0, {"NUL"})
Slice(buf, i, j) == [k \in 1..(j - i) |-> buf[i + k - 1]]
String(buf, i) == Slice(buf, i, First(buf, i, {"NUL"}))

\* kstrncpy of MaxLine - 1 characters, and the terminator its callers add.
kstrncpy(src) == [i \in Index |-> IF i < kstrlen(src) /\ i < MaxLine - 1 THEN src[i] ELSE "NUL"]

\* The words dispatch_line finds, as the positions where they begin.
Words(buf) ==
    LET skip(c) == First(buf, c, Bytes \ {Blank})
        stop(s) == First(buf, s, {Blank, "NUL"})
        from[c \in 0..kstrlen(buf)] ==
            IF buf[skip(c)] = "NUL" THEN <<>>
            ELSE IF buf[stop(skip(c))] = "NUL" THEN <<skip(c)>>
            ELSE <<skip(c)>> \o from[stop(skip(c)) + 1]
    IN  SubSeq(from[0], 1, Min({MaxArgs, Len(from[0])}))

\* The buffer after dispatch_line: every word it found is terminated in place.
\* Mutant: the terminator overwrites the word's last character.
Split_early(buf) ==
    LET ends == {First(buf, s, {Blank, "NUL"}) - 1 : s \in Range(Words(buf))}
    IN  [i \in Index |-> IF i \in ends THEN "NUL" ELSE buf[i]]

Split(buf) ==
    LET ends == {First(buf, s, {Blank, "NUL"}) : s \in Range(Words(buf))}
    IN  [i \in Index |-> IF i \in ends THEN "NUL" ELSE buf[i]]

----------------------------------------------------------------------------
(* What cli_run does with a character *)

ClearLine ==
    /\ g_line' = [g_line EXCEPT ![0] = "NUL"] /\ length' = 0 /\ cursor' = 0
    /\ argv' = <<>> /\ UNCHANGED saved

MoveTo(c) ==
    /\ cursor' = c
    /\ argv' = <<>> /\ UNCHANGED <<g_line, length, saved>>

Submit ==
    LET ended == [g_line EXCEPT ![length] = "NUL"]
        split == Split(ended)
    IN  /\ argv' = [k \in DOMAIN Words(ended) |-> String(split, Words(ended)[k])]
        /\ IF length > 0
           THEN g_last_line' = kstrncpy(split) /\ g_has_last_line' = TRUE
           ELSE UNCHANGED saved
        /\ g_line' = [split EXCEPT ![0] = "NUL"] /\ length' = 0 /\ cursor' = 0

Recall ==
    /\ IF g_has_last_line
       THEN /\ g_line' = kstrncpy(g_last_line)
            /\ length' = kstrlen(g_line') /\ cursor' = length'
       ELSE UNCHANGED line
    /\ argv' = <<>> /\ UNCHANGED saved

\* Mutant: the tail is moved but the cursor stays.
Erase_stays ==
    /\ IF cursor > 0
       THEN /\ g_line' = [i \in Index |->
                  IF i = length - 1 THEN "NUL"
                  ELSE IF i >= cursor - 1 /\ i + 1 < length THEN g_line[i + 1]
                  ELSE g_line[i]]
            /\ length' = length - 1 /\ cursor' = cursor
       ELSE UNCHANGED line
    /\ argv' = <<>> /\ UNCHANGED saved

Erase ==
    /\ IF cursor > 0
       THEN /\ g_line' = [i \in Index |->
                  IF i = length - 1 THEN "NUL"
                  ELSE IF i >= cursor - 1 /\ i + 1 < length THEN g_line[i + 1]
                  ELSE g_line[i]]
            /\ length' = length - 1 /\ cursor' = cursor - 1
       ELSE UNCHANGED line
    /\ argv' = <<>> /\ UNCHANGED saved

Insert(c) ==
    /\ IF length + 1 < MaxLine
       THEN /\ g_line' = [i \in Index |->
                  IF i = length + 1 THEN "NUL"
                  ELSE IF i = cursor THEN c
                  ELSE IF i > cursor /\ i <= length THEN g_line[i - 1]
                  ELSE g_line[i]]
            /\ length' = length + 1 /\ cursor' = cursor + 1
       ELSE UNCHANGED line
    /\ argv' = <<>> /\ UNCHANGED saved

\* A character outside an escape sequence.  A backspace on an empty line is
\* no case of its own: it goes into the line like any other character.
Edit(c) ==
    \/ c \in {"CR", "ESC"} /\ argv' = <<>> /\ UNCHANGED <<line, saved>>
    \/ c = "LF" /\ Submit
    \/ c \in {"^C", "^N"} /\ ClearLine
    \/ c = "^A" /\ MoveTo(0)
    \/ c = "^E" /\ MoveTo(length)
    \/ c = "^B" /\ MoveTo(IF cursor > 0 THEN cursor - 1 ELSE cursor)
    \/ c = "^F" /\ MoveTo(IF cursor < length THEN cursor + 1 ELSE cursor)
    \/ c = "^P" /\ Recall
    \/ c = "BS" /\ length > 0 /\ Erase
    \/ c \in Typed /\ ~(c = "BS" /\ length > 0) /\ Insert(c)

\* A character after ESC opens a sequence or, whatever it is, clears the line.
AfterEsc(c) ==
    /\ esc_state = 1
    /\ \/ c = "[" /\ esc_state' = 2 /\ argv' = <<>> /\ UNCHANGED <<line, saved>>
       \/ c # "[" /\ esc_state' = 0 /\ ClearLine

Keystroke(c) ==
    LET k == IF esc_state = 2 /\ c \in DOMAIN Arrow THEN Arrow[c] ELSE c
    IN  /\ esc_state # 1
        /\ esc_state' = IF k = "ESC" THEN 1 ELSE 0
        /\ Edit(k)

ShellNext == \E c \in Typed \cup Controls : AfterEsc(c) \/ Keystroke(c)

ShellSpec == ShellInit /\ [][ShellNext]_shellVars

----------------------------------------------------------------------------
(* Properties *)

\* The cursor is in the line, the line leaves room for its terminator and is
\* terminated, whatever mix of insertions in the middle, erasures, recalls and
\* escape sequences led here: every g_line[i] that cli_run reads or writes is
\* in the buffer.
LineWhole == cursor <= length /\ length + 1 <= MaxLine /\ g_line[length] = "NUL"

Editor == INSTANCE LineEdit WITH
    Cap <- MaxLine,
    Chars <- Typed,
    left <- Slice(g_line, 0, cursor),
    right <- Slice(g_line, cursor, length),
    last <- IF g_has_last_line THEN String(g_last_line, 0) ELSE <<"no_line">>,
    ran <- argv

\* The byte shuffling of cli_run and the in-place splitting of dispatch_line
\* are an editor: each character inserts, erases, moves, clears, recalls or
\* submits as LineEdit says, a command runs with exactly the words of the
\* line, and what is remembered is the line up to the end of its first word.
ImplementsLineEdit == Editor!Spec
=============================================================================
