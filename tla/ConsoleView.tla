---------------------------- MODULE ConsoleView ----------------------------
(***************************************************************************)
(* The console's output side (src/kernel/console.c): a scrollback of the   *)
(* last HistoryLines rows kept in a ring, a window of Height rows onto it, *)
(* the flag that makes the window follow the output, and the screen the    *)
(* window is drawn on.  The kernel's main thread prints; a scroll comes    *)
(* from the mouse interrupt (module Mouse), possibly in the middle of a    *)
(* console_putc, and runs to its end once it has begun.                    *)
(*                                                                         *)
(* A row's text is abstracted to the number of the row it was written as.  *)
(* Row numbers are size_t and wrap at SizeMod.  Colours, the cursor and    *)
(* the copy of the output on the serial line are left out.                 *)
(***************************************************************************)
EXTENDS Integers

CONSTANTS
    HistoryLines,    \* CONSOLE_HISTORY_LINES
    Height, Width,   \* VGA_HEIGHT, VGA_WIDTH
    TabStop,         \* 4
    SizeMod,         \* 2^64
    MaxRow           \* bound: no line feed beyond this row

ASSUME ViewAssumption ==
    /\ Height \in Nat \ {0} /\ HistoryLines \in Nat /\ HistoryLines >= Height
    /\ Width \in Nat \ {0} /\ TabStop \in Nat \ {0} /\ Width % TabStop = 0
    /\ MaxRow \in Nat /\ SizeMod \in Nat /\ SizeMod > MaxRow + Height

VARIABLES
    abs_row, col, view_start, follow_tail,
    holds,       \* for each slot of g_history, the row whose text is in it
    screen,      \* VGA_MEMORY, by line of the screen
    pc,          \* where the main thread is in console_putc or console_clear
    line, base,  \* the line it draws, and the window when it began to draw
    newest,      \* the highest row since the last clear
    disturbed    \* a scroll fell between viewport_after_output's look at
                 \* follow_tail and the last line drawn, in the latest output

text == <<abs_row, col, holds, newest>>
view == <<view_start, follow_tail>>
drawing == <<screen, line, base>>
viewVars == <<abs_row, col, view_start, follow_tail, holds, screen, pc, line, base,
              newest, disturbed>>

Slots == 0..(HistoryLines - 1)
Lines == 0..(Height - 1)
Blank == -1

ViewTypeOK ==
    /\ abs_row \in 0..MaxRow /\ newest \in abs_row..MaxRow /\ col \in 0..(Width - 1)
    /\ view_start \in 0..(SizeMod - 1) /\ follow_tail \in BOOLEAN
    /\ holds \in [Slots -> 0..MaxRow \cup Slots]
    /\ screen \in [Lines -> 0..MaxRow \cup Slots \cup {Blank}]
    /\ pc \in {"idle", "output", "follow", "low", "high", "clear", "draw"}
    /\ line \in Lines /\ base \in 0..(SizeMod - 1)
    /\ disturbed \in BOOLEAN

history_min_abs_row == IF abs_row + 1 > HistoryLines THEN abs_row + 1 - HistoryLines ELSE 0
viewport_max_start == IF abs_row >= Height - 1 THEN abs_row - (Height - 1) ELSE 0

\* What vga_render_view puts on line l of the screen, for a window at start.
Shown(start, l) ==
    LET r == (start + l) % SizeMod
    IN  IF r < history_min_abs_row \/ r > abs_row THEN Blank ELSE holds[r % HistoryLines]

\* console_clear, at boot
ViewInit ==
    /\ abs_row = 0 /\ col = 0 /\ view_start = 0 /\ follow_tail = TRUE
    /\ holds = [s \in Slots |-> s] /\ screen = [l \in Lines |-> IF l = 0 THEN 0 ELSE Blank]
    /\ pc = "idle" /\ line = 0 /\ base = 0 /\ newest = 0 /\ disturbed = FALSE

----------------------------------------------------------------------------
(* console_putc: the text first.  A scroll in the middle of this sees what it *)
(* would see right after it, but for text that the drawing then repairs.      *)

\* Mutant: the row that is left is cleared, not the row that is entered.
advance_new_line_before ==
    /\ abs_row < MaxRow
    /\ abs_row' = abs_row + 1 /\ col' = 0
    /\ holds' = [holds EXCEPT ![abs_row % HistoryLines] = abs_row]
    /\ newest' = IF abs_row' > newest THEN abs_row' ELSE newest

advance_new_line ==
    /\ abs_row < MaxRow
    /\ abs_row' = abs_row + 1 /\ col' = 0
    /\ holds' = [holds EXCEPT ![abs_row' % HistoryLines] = abs_row']
    /\ newest' = IF abs_row' > newest THEN abs_row' ELSE newest

\* n characters of one row, at most up to its end.
console_write_visible_char(n) ==
    \/ col + n < Width /\ col' = col + n /\ UNCHANGED <<abs_row, holds, newest>>
    \/ col + n >= Width /\ advance_new_line

\* A backspace at the start of a row goes back to the end of the one above.
backspace ==
    /\ \/ col > 0 /\ col' = col - 1 /\ UNCHANGED abs_row
       \/ col = 0 /\ abs_row > 0 /\ abs_row' = abs_row - 1 /\ col' = Width - 1
       \/ col = 0 /\ abs_row = 0 /\ UNCHANGED <<abs_row, col>>
    /\ UNCHANGED <<holds, newest>>

console_putc ==
    /\ pc = "idle" /\ pc' = "output"
    /\ \/ advance_new_line                                         \* line feed
       \/ col' = 0 /\ UNCHANGED <<abs_row, holds, newest>>         \* carriage return
       \/ backspace
       \/ console_write_visible_char(TabStop - (col % TabStop))    \* tab
       \/ console_write_visible_char(1)
    /\ disturbed' = FALSE
    /\ UNCHANGED <<view, drawing>>

----------------------------------------------------------------------------
(* ... and then viewport_after_output, access by access *)

viewport_after_output ==
    /\ pc = "output" /\ pc' = IF follow_tail THEN "follow" ELSE "low"
    /\ UNCHANGED <<text, view, drawing, disturbed>>

\* The window is where it is going to be, and the first line is drawn next.
BeginDrawing(start) ==
    /\ view_start' = start
    /\ pc' = "draw" /\ line' = 0 /\ base' = start
    /\ UNCHANGED screen

follow_output ==
    /\ pc = "follow" /\ BeginDrawing(viewport_max_start)
    /\ UNCHANGED <<text, follow_tail, disturbed>>

\* viewport_clamp.  The window's old position may have been loaded before a
\* scroll that then takes place: the store overtakes it.
\* Mutant: a window above the oldest row is left there.
clamp_low_not ==
    /\ pc = "low" /\ pc' = "high"
    /\ UNCHANGED <<text, view, drawing, disturbed>>

clamp_low ==
    /\ pc = "low" /\ pc' = "high"
    /\ \/ view_start' = IF view_start < history_min_abs_row THEN history_min_abs_row ELSE view_start
       \/ disturbed /\ view_start' = history_min_abs_row
    /\ UNCHANGED <<text, follow_tail, drawing, disturbed>>

clamp_high ==
    /\ pc = "high"
    /\ \/ BeginDrawing(IF view_start > viewport_max_start THEN viewport_max_start ELSE view_start)
       \/ disturbed /\ BeginDrawing(viewport_max_start)
    /\ UNCHANGED <<text, follow_tail, disturbed>>

\* Mutant: the last line of the screen is not drawn.
vga_render_view_short ==
    /\ pc = "draw"
    /\ screen' = IF line = Height - 1 THEN screen
                 ELSE [screen EXCEPT ![line] = Shown(view_start, line)]
    /\ IF line = Height - 1 THEN pc' = "idle" /\ line' = 0 /\ base' = 0
                            ELSE pc' = pc /\ line' = line + 1 /\ UNCHANGED base
    /\ UNCHANGED <<text, view, disturbed>>

\* One line after the other, with the window as it is now or as the compiler
\* keeps it from the beginning of the drawing.
vga_render_view ==
    /\ pc = "draw"
    /\ \E start \in {view_start, base} :
          screen' = [screen EXCEPT ![line] = Shown(start, line)]
    /\ IF line = Height - 1 THEN pc' = "idle" /\ line' = 0 /\ base' = 0
                            ELSE pc' = pc /\ line' = line + 1 /\ UNCHANGED base
    /\ UNCHANGED <<text, view, disturbed>>

\* The command "clear", in the order console_clear assigns.
console_clear ==
    /\ pc = "idle" /\ pc' = "clear"
    /\ abs_row' = 0 /\ col' = 0
    /\ disturbed' = FALSE /\ UNCHANGED <<holds, newest, view, drawing>>

console_clear_view ==
    /\ pc = "clear" /\ BeginDrawing(0)
    /\ follow_tail' = TRUE
    /\ newest' = 0 /\ holds' = [s \in Slots |-> s]
    /\ UNCHANGED <<abs_row, col, disturbed>>

MainThread ==
    \/ console_putc \/ viewport_after_output \/ follow_output \/ clamp_low \/ clamp_high
    \/ vga_render_view \/ console_clear \/ console_clear_view

----------------------------------------------------------------------------
(* The scroll, in an interrupt *)

\* The window after a scroll by delta: up for a positive one.  The distance to
\* the oldest row is an unsigned difference.
Scrolled(delta) ==
    IF delta > 0
    THEN IF delta > (view_start - history_min_abs_row) % SizeMod
         THEN history_min_abs_row ELSE (view_start - delta) % SizeMod
    ELSE IF (view_start - delta) % SizeMod > viewport_max_start
         THEN viewport_max_start ELSE (view_start - delta) % SizeMod

console_scroll_view(delta) ==
    IF delta = 0 THEN UNCHANGED viewVars
    ELSE /\ view_start' = Scrolled(delta)
         /\ follow_tail' = (view_start' = viewport_max_start)
         /\ screen' = [l \in Lines |-> Shown(view_start', l)]
         /\ disturbed' = (disturbed \/ pc \in {"follow", "low", "high", "draw"})
         /\ UNCHANGED <<text, pc, line, base>>

----------------------------------------------------------------------------
(* Properties *)

\* Between two outputs the window shows rows that are in the history, ends no
\* later than the last one, and ends at the last one if it follows the output;
\* although a scroll that comes when the row has advanced and the window has
\* not computes an unsigned distance to a row below the window, and wraps
\* around.  Only a scroll after viewport_after_output's decision can leave the
\* window elsewhere, and only until the next character is printed (disturbed).
ViewInHistory ==
    pc = "idle" /\ ~disturbed =>
        /\ history_min_abs_row <= view_start /\ view_start <= viewport_max_start
        /\ follow_tail => view_start = viewport_max_start

\* Every row that is at most HistoryLines above the newest row ever begun is
\* found in its slot of the ring, after any mix of line feeds, wrapped lines
\* and backspaces that go back over the start of a row.
RowsIntact ==
    \A r \in 0..abs_row : r > newest - HistoryLines => holds[r % HistoryLines] = r

\* Between two outputs the screen shows the window, line by line, whoever drew
\* it last; a scroll in the middle of the main thread's drawing leaves lines of
\* two windows on the screen, until the next character or scroll.
ScreenCurrent ==
    pc = "idle" /\ ~disturbed => \A l \in Lines : screen[l] = Shown(view_start, l)
=============================================================================
