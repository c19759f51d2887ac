------------------------------ MODULE LineEdit ------------------------------
(***************************************************************************)
(* What the shell prompt promises its user: a line with a cursor in it,    *)
(* the text before the cursor (left) and after it (right), one remembered  *)
(* line (last) and, when a line is submitted, the words the command is run *)
(* with (ran).  Bytes and buffers do not appear here.                      *)
(***************************************************************************)
EXTENDS Integers, Sequences, FiniteSetsExt

CONSTANTS
    Cap,         \* CLI_MAX_LINE: a line has at most Cap - 1 characters
    MaxArgs,     \* CLI_MAX_ARGS
    Chars        \* the characters that can be typed into a line

VARIABLES left, right, last, ran

vars == <<left, right, last, ran>>

NoLine == <<"no_line">>
Blank == " "
Line == left \o right

Front(s) == SubSeq(s, 1, Len(s) - 1)

\* The text of a line for anything that reads it as a string: a NUL byte
\* that came in over the serial line ends it.
Text(s) ==
    LET nuls == {i \in 1..Len(s) : s[i] = "NUL"}
    IN  IF nuls = {} THEN s ELSE SubSeq(s, 1, Min(nuls) - 1)

\* Where words begin, and the word that begins at i.
Starts(s) == {i \in DOMAIN s : s[i] # Blank /\ (i = 1 \/ s[i - 1] = Blank)}
WordEnd(s, i) ==
    Min({j \in i..(Len(s) + 1) : j = Len(s) + 1 \/ s[j] = Blank}) - 1

\* The k-th of a set of positions.
Nth(S, k) == CHOOSE i \in S : Cardinality({j \in S : j <= i}) = k

Words(s) ==
    LET word(i) == SubSeq(s, i, WordEnd(s, i))
    IN  [k \in 1..Min({MaxArgs, Cardinality(Starts(s))}) |-> word(Nth(Starts(s), k))]

\* What is left of a line once it has been cut into words in place: the
\* blanks before the first word, and that word.
Remembered(s) ==
    IF Starts(s) = {} THEN s ELSE SubSeq(s, 1, WordEnd(s, Min(Starts(s))))

Init == left = <<>> /\ right = <<>> /\ last = NoLine /\ ran = <<>>

Insert(c) ==
    /\ Len(Line) + 1 < Cap
    /\ left' = Append(left, c)
    /\ ran' = <<>> /\ UNCHANGED <<right, last>>

Erase ==
    /\ left # <<>>
    /\ left' = Front(left)
    /\ ran' = <<>> /\ UNCHANGED <<right, last>>

\* Home, End, one to the left, one to the right: the line stays as it is.
Move ==
    /\ \E k \in {0, Len(Line), Len(left) - 1, Len(left) + 1} \cap (0..Len(Line)) :
          left' = SubSeq(Line, 1, k) /\ right' = SubSeq(Line, k + 1, Len(Line))
    /\ ran' = <<>> /\ UNCHANGED last

Clear == left' = <<>> /\ right' = <<>> /\ ran' = <<>> /\ UNCHANGED last

Recall ==
    /\ last # NoLine
    /\ left' = last /\ right' = <<>>
    /\ ran' = <<>> /\ UNCHANGED last

Submit ==
    /\ ran' = Words(Text(Line))
    /\ last' = IF Line = <<>> THEN last ELSE Remembered(Text(Line))
    /\ left' = <<>> /\ right' = <<>>

Next == (\E c \in Chars : Insert(c)) \/ Erase \/ Move \/ Clear \/ Recall \/ Submit

Spec == Init /\ [][Next]_vars
=============================================================================
