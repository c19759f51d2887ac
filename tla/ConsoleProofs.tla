--------------------------- MODULE ConsoleProofs ---------------------------
(***************************************************************************)
(* Proofs about the console's window and the mouse, for every size of the  *)
(* screen and the history, every number of rows and every turn of the      *)
(* wheel.                                                                  *)
(***************************************************************************)
EXTENDS Console, TLAPS

----------------------------------------------------------------------------
(* The mouse.                                                              *)

\* mouse_init and the mouse: no answer before its command, none read before it
\* is there, and what was waited for was read or timed out.  The size is right
\* once the tenth read got the tenth answer; and the handler is ahead of the
\* mouse by the late answers, which is 0 before it starts.
MouseInv ==
    /\ MouseTypeOK
    /\ answered <= AnswersTo(sent) /\ taken <= answered
    /\ position < Reported /\ g_packet_index < g_packet_size
    /\ timeouts = 0 /\ reads >= 10 => g_packet_size = Reported
    /\ ~g_mouse_ready =>
          /\ reads <= AnswersTo(sent) /\ reads = taken + timeouts
          /\ g_packet_index = 0 /\ position = 0
    /\ g_mouse_ready =>
          /\ sent = Commands /\ reads = Answers
          /\ g_packet_size = Reported
                => g_packet_index = (position + taken + timeouts - Answers) % Reported

LEMMA InitMouse == MouseInit => MouseInv
<1> SUFFICES ASSUME MouseInit PROVE MouseInv
    OBVIOUS
<1>1. MaxLate \in Nat
    BY MouseAssumption
<1>2. wheel \in BOOLEAN /\ first \in BOOLEAN /\ g_mouse_ready \in BOOLEAN /\ ~g_mouse_ready
    BY Zenon DEF MouseInit
<1>3. /\ sent = 0 /\ answered = 0 /\ reads = 0 /\ timeouts = 0 /\ taken = 0
      /\ g_packet_size = 4 /\ g_packet_index = 0 /\ position = 0
    BY DEF MouseInit
<1>4. Reported > 0
    BY DEF Reported
<1>5. MouseTypeOK
    BY <1>1, <1>2, <1>3 DEF MouseTypeOK, Commands, Answers
<1> QED
    BY <1>2, <1>3, <1>4, <1>5 DEF MouseInv, AnswersTo

\* mouse_init.
LEMMA BootMouse == MouseInv /\ MouseBoot => MouseInv'
<1> SUFFICES ASSUME MouseInv, MouseBoot PROVE MouseInv'
    OBVIOUS
<1> USE MouseAssumption DEF MouseInv, MouseTypeOK, Commands, Answers, packet, dialogue
<1>1. CASE Answers_next
    BY <1>1 DEF Answers_next, AnswersTo, Reported
<1>2. CASE mouse_write
    BY <1>2 DEF mouse_write, AnswersTo, Reported
<1>3. CASE ps2_read_data
    BY <1>3 DEF ps2_read_data, AnswersTo, Reported, SizeFrom, Answer, Id, Ack
<1>4. CASE ps2_read_timeout
    BY <1>4 DEF ps2_read_timeout, AnswersTo, Reported, SizeFrom, Id
<1>5. CASE mouse_ready
    BY <1>5 DEF mouse_ready, AnswersTo, Reported
<1> QED
    BY <1>1, <1>2, <1>3, <1>4, <1>5 DEF MouseBoot

\* mouse_handle_irq.
LEMMA IrqMouse == MouseInv /\ (\E mark \in BOOLEAN : mouse_handle_irq(mark)) => MouseInv'
<1> SUFFICES ASSUME MouseInv, NEW mark \in BOOLEAN, mouse_handle_irq(mark) PROVE MouseInv'
    OBVIOUS
<1> USE DEF MouseInv, MouseTypeOK, Commands, Answers, mouse_handle_irq
<1>1. g_mouse_ready /\ g_mouse_ready' /\ UNCHANGED <<wheel, sent, answered, reads, timeouts, g_packet_size>>
    BY DEF dialogue
<1>2. Reported' = Reported /\ Reported \in {3, 4}
    BY <1>1 DEF Reported
<1>3. first' \in BOOLEAN /\ g_packet_index' \in 0..3 /\ g_packet_index' < g_packet_size
    BY DEF Assemble
<1>4. /\ taken' \in 0..Answers /\ taken' <= answered /\ position' \in 0..3 /\ position' < Reported
      /\ \/ position' = position /\ taken' = taken + 1
         \/ position' = position + 1 /\ taken' = taken
         \/ position' = 0 /\ position + 1 = Reported /\ taken' = taken
    BY <1>2 DEF NextByte
<1>5. g_packet_size = Reported =>
         g_packet_index' = (position' + taken' + timeouts - Answers) % Reported
  <2> DEFINE X == position + taken + timeouts - Answers
             Y == position' + taken' + timeouts - Answers
  <2>0. position \in Int /\ taken \in Int /\ timeouts \in Int /\ X \in Int
    BY MouseAssumption
  <2>1. Y \in Int /\ (Y = X + 1 \/ Y = X + 1 - Reported)
    <3>1. CASE position' = position /\ taken' = taken + 1
      BY <2>0, <3>1
    <3>2. CASE position' = position + 1 /\ taken' = taken
      BY <2>0, <3>2
    <3>3. CASE position' = 0 /\ position + 1 = Reported /\ taken' = taken
      BY <2>0, <3>3
    <3> QED
      BY <1>4, <3>1, <3>2, <3>3, Zenon
  <2>2. g_packet_size = Reported => g_packet_index = X % Reported
    BY <1>1
  <2> HIDE DEF X, Y
  <2>3. CASE Reported = 3
    BY <2>0, <2>1, <2>2, <2>3 DEF Assemble, Y
  <2>4. CASE Reported = 4
    BY <2>0, <2>1, <2>2, <2>4 DEF Assemble, Y
  <2> QED
    BY <1>2, <2>3, <2>4
<1> QED
    BY <1>1, <1>2, <1>3, <1>4, <1>5, Zenon DEF AnswersTo

LEMMA SameMouse == MouseInv /\ UNCHANGED mouseVars => MouseInv'
BY DEF MouseInv, MouseTypeOK, mouseVars, dialogue, packet, AnswersTo, Reported

----------------------------------------------------------------------------
(* The console's window.                                                   *)

\* The window is in the history, and at its end if it follows the output.
InHistory ==
    /\ history_min_abs_row <= view_start /\ view_start <= viewport_max_start
    /\ follow_tail => view_start = viewport_max_start

\* Unless a scroll fell into viewport_after_output: what the main thread has
\* established of the window and of the screen where it is.
Steady ==
    /\ pc = "idle" => InHistory /\ \A l \in Lines : screen[l] = Shown(view_start, l)
    /\ pc = "follow" => follow_tail
    /\ pc = "low" => ~follow_tail
    /\ pc = "high" => ~follow_tail /\ history_min_abs_row <= view_start
    /\ pc = "draw" => /\ InHistory /\ base = view_start
                      /\ \A l \in Lines : l < line => screen[l] = Shown(view_start, l)

ViewInv ==
    /\ ViewTypeOK
    /\ pc = "clear" => abs_row = 0
    /\ RowsIntact
    /\ ~disturbed => Steady

IInv == ViewInv /\ MouseInv

\* Two rows less than a ring apart have different slots.
LEMMA SlotsApart ==
    ASSUME NEW m \in Nat, NEW a \in Nat, NEW b \in Nat, a < b, b - a < m
    PROVE  a % m # b % m
<1> DEFINE q == a \div m
           p == b \div m
           d == p - q
<1>1. /\ q \in Int /\ p \in Int /\ d \in Int
      /\ a = m * q + (a % m) /\ b = m * p + (b % m)
    OBVIOUS
<1> HIDE DEF q, p
<1> SUFFICES ASSUME a % m = b % m PROVE FALSE
    OBVIOUS
<1>2. m * d = b - a
    BY <1>1
<1> HIDE DEF d
<1>3. CASE d <= 0
  <2>1. m * d <= 0
    BY <1>1, <1>3
  <2> QED
    BY <1>2, <2>1
<1>4. CASE d >= 1
  <2>1. m * d >= m
    BY <1>1, <1>4
  <2> QED
    BY <1>2, <2>1
<1> QED
    BY <1>1, <1>3, <1>4

\* The window's range is never empty, since the history is no shorter than the
\* screen.
LEMMA Range ==
    ASSUME ViewTypeOK
    PROVE  /\ history_min_abs_row \in 0..MaxRow /\ viewport_max_start \in 0..MaxRow
           /\ history_min_abs_row <= viewport_max_start
           /\ MaxRow \in Nat /\ SizeMod \in Nat /\ MaxRow < SizeMod
           /\ 0..MaxRow \subseteq 0..(SizeMod - 1)
BY ViewAssumption DEF ViewTypeOK, history_min_abs_row, viewport_max_start

LEMMA ShownTyped ==
    ASSUME ViewTypeOK, NEW start \in 0..(SizeMod - 1), NEW l \in Lines
    PROVE  Shown(start, l) \in 0..MaxRow \cup Slots \cup {Blank}
<1> DEFINE r == (start + l) % SizeMod
<1>1. HistoryLines \in Nat /\ HistoryLines > 0 /\ SizeMod \in Nat /\ SizeMod > 0
    BY ViewAssumption
<1>2. r \in Nat
    BY <1>1 DEF Lines
<1> HIDE DEF r
<1>3. r % HistoryLines \in Slots
    BY <1>1, <1>2 DEF Slots
<1>4. holds[r % HistoryLines] \in 0..MaxRow \cup Slots
    BY <1>3 DEF ViewTypeOK
<1> QED
    BY <1>4 DEF Shown, r

LEMMA InitView == ViewInit => ViewInv
<1> SUFFICES ASSUME ViewInit PROVE ViewInv
    OBVIOUS
<1> USE ViewAssumption DEF ViewInit
<1>0. /\ holds \in [Slots -> 0..MaxRow \cup Slots]
      /\ screen \in [Lines -> 0..MaxRow \cup Slots \cup {Blank}]
    BY DEF Lines
<1>1. ViewTypeOK
  <2>1. /\ abs_row \in 0..MaxRow /\ newest \in abs_row..MaxRow /\ col \in 0..(Width - 1)
        /\ view_start \in 0..(SizeMod - 1) /\ base \in 0..(SizeMod - 1) /\ line \in Lines
    BY DEF Lines
  <2>2. follow_tail \in BOOLEAN /\ disturbed \in BOOLEAN /\ pc = "idle"
    BY Zenon DEF ViewInit
  <2> QED
    BY <1>0, <2>1, <2>2 DEF ViewTypeOK
<1>2. RowsIntact
    BY DEF RowsIntact, Slots
<1>3. history_min_abs_row = 0 /\ viewport_max_start = 0
    BY DEF history_min_abs_row, viewport_max_start
<1>4. \A l \in Lines : screen[l] = Shown(view_start, l)
  <2> SUFFICES ASSUME NEW l \in Lines PROVE screen[l] = Shown(0, l)
    OBVIOUS
  <2>1. (0 + l) % SizeMod = l /\ l \in Nat
    BY DEF Lines
  <2>2. holds[0] = 0 /\ 0 % HistoryLines = 0
    BY DEF Slots
  <2> QED
    BY <1>3, <2>1, <2>2 DEF Shown
<1> QED
    BY <1>1, <1>2, <1>3, <1>4 DEF ViewInv, Steady, InHistory

----------------------------------------------------------------------------
(* The main thread's steps.                                                *)

\* console_putc: the text.
TextOK ==
    /\ abs_row \in 0..MaxRow /\ newest \in abs_row..MaxRow /\ col \in 0..(Width - 1)
    /\ holds \in [Slots -> 0..MaxRow \cup Slots]
    /\ RowsIntact

LEMMA NewLine == ViewTypeOK /\ RowsIntact /\ advance_new_line => TextOK'
<1> SUFFICES ASSUME ViewTypeOK, RowsIntact, advance_new_line PROVE TextOK'
    OBVIOUS
<1> DEFINE H == HistoryLines
           a == abs_row'
           n == newest'
<1>1. H \in Nat /\ H > 0 /\ MaxRow \in Nat /\ Width \in Nat /\ Width > 0
    BY ViewAssumption
<1>2. /\ abs_row \in Nat /\ newest \in Nat /\ newest' \in Nat /\ a \in 0..MaxRow /\ a \in Nat
      /\ a = abs_row + 1 /\ newest' \in a..MaxRow /\ newest <= newest' /\ a <= newest'
    BY <1>1 DEF ViewTypeOK, advance_new_line
<1>3. holds' = [holds EXCEPT ![a % H] = a] /\ col' = 0 /\ a % H \in Slots
    BY <1>1, <1>2 DEF advance_new_line, Slots
<1>4. holds' \in [Slots -> 0..MaxRow \cup Slots]
    BY <1>2, <1>3 DEF ViewTypeOK
<1>5. RowsIntact'
  <2> SUFFICES ASSUME NEW r \in 0..a, r > newest' - H PROVE holds'[r % H] = r
    BY DEF RowsIntact
  <2>1. r \in Nat /\ r % H \in Slots
    BY <1>1, <1>2 DEF Slots
  <2>2. CASE r = a
    BY <1>3, <2>2 DEF ViewTypeOK
  <2>3. CASE r < a
    <3>0. /\ H \in Nat /\ a \in Nat /\ n \in Nat /\ abs_row \in Nat /\ newest \in Nat
          /\ a = abs_row + 1 /\ newest <= n /\ a <= n /\ r > n - H
      BY <1>1, <1>2, Zenon
    <3> HIDE DEF H, a, n
    <3>1. r \in 0..abs_row /\ r > newest - H /\ a - r < H
      BY <2>1, <2>3, <3>0
    <3>2. r % H # a % H
      BY <1>1, <1>2, <2>1, <2>3, <3>1, SlotsApart, Zenon
    <3>3. holds[r % H] = r
      BY <3>1 DEF RowsIntact, H
    <3> QED
      BY <1>3, <2>1, <3>2, <3>3 DEF ViewTypeOK
  <2> QED
    BY <1>2, <2>1, <2>2, <2>3
<1> QED
    BY <1>1, <1>2, <1>3, <1>4, <1>5 DEF TextOK

LEMMA Printed ==
    ASSUME ViewTypeOK, RowsIntact, NEW n \in Nat, console_write_visible_char(n)
    PROVE  TextOK'
<1>1. CASE col + n < Width /\ col' = col + n /\ UNCHANGED <<abs_row, holds, newest>>
    BY <1>1, ViewAssumption DEF ViewTypeOK, RowsIntact, TextOK
<1>2. CASE col + n >= Width /\ advance_new_line
    BY <1>2, NewLine
<1> QED
    BY <1>1, <1>2 DEF console_write_visible_char

LEMMA PutText == ViewTypeOK /\ RowsIntact /\ console_putc => TextOK'
<1> SUFFICES ASSUME ViewTypeOK, RowsIntact, console_putc PROVE TextOK'
    OBVIOUS
<1>1. CASE advance_new_line
    BY <1>1, NewLine
<1>2. CASE col' = 0 /\ UNCHANGED <<abs_row, holds, newest>>
    BY <1>2, ViewAssumption DEF ViewTypeOK, RowsIntact, TextOK
<1>3. CASE backspace
  <2>1. /\ abs_row' \in 0..MaxRow /\ abs_row' <= abs_row /\ col' \in 0..(Width - 1)
        /\ UNCHANGED <<holds, newest>>
    BY <1>3, ViewAssumption DEF ViewTypeOK, backspace
  <2>2. newest' \in abs_row'..MaxRow /\ 0..abs_row' \subseteq 0..abs_row
    BY <2>1, ViewAssumption DEF ViewTypeOK
  <2> QED
    BY <2>1, <2>2 DEF TextOK, ViewTypeOK, RowsIntact
<1>4. CASE console_write_visible_char(TabStop - (col % TabStop))
  <2>1. TabStop - (col % TabStop) \in Nat
    BY ViewAssumption DEF ViewTypeOK
  <2> QED
    BY <1>4, <2>1, Printed
<1>5. CASE console_write_visible_char(1)
    BY <1>5, Printed
<1> QED
    BY <1>1, <1>2, <1>3, <1>4, <1>5 DEF console_putc

LEMMA Put == ViewInv /\ console_putc => ViewInv'
<1> SUFFICES ASSUME ViewInv, console_putc PROVE ViewInv'
    OBVIOUS
<1>1. TextOK'
    BY PutText DEF ViewInv
<1>2. UNCHANGED <<view_start, follow_tail, screen, line, base>>
    BY DEF console_putc, view, drawing
<1>3. pc' = "output" /\ disturbed' = FALSE
    BY DEF console_putc
<1>4. ViewTypeOK'
    BY <1>1, <1>2, <1>3, ZenonT(60) DEF ViewInv, ViewTypeOK, TextOK, Lines
<1> QED
    BY <1>1, <1>3, <1>4 DEF ViewInv, TextOK, Steady

\* A step that leaves the text and the window's meaning alone.
LEMMA SameText ==
    ASSUME UNCHANGED text
    PROVE  /\ history_min_abs_row' = history_min_abs_row /\ viewport_max_start' = viewport_max_start
           /\ \A s, l : (Shown(s, l))' = Shown(s, l)
           /\ RowsIntact => RowsIntact'
BY DEF text, history_min_abs_row, viewport_max_start, Shown, RowsIntact

LEMMA After == ViewInv /\ viewport_after_output => ViewInv'
<1> SUFFICES ASSUME ViewInv, viewport_after_output PROVE ViewInv'
    OBVIOUS
<1> USE DEF ViewInv, viewport_after_output
<1>1. UNCHANGED <<abs_row, col, holds, newest, view_start, follow_tail, screen, line, base, disturbed>>
    BY DEF text, view, drawing
<1>2. pc' = IF follow_tail THEN "follow" ELSE "low"
    OBVIOUS
<1>3. ViewTypeOK' /\ pc' # "clear"
    BY <1>1, <1>2 DEF ViewTypeOK, Lines, Slots
<1>4. Steady'
    BY <1>1, <1>2 DEF Steady
<1> QED
    BY <1>1, <1>3, <1>4, SameText DEF text, RowsIntact

\* The window found, drawing begins.
LEMMA Begin ==
    ASSUME ViewInv, NEW start \in 0..(SizeMod - 1), BeginDrawing(start),
           TextOK', follow_tail' \in BOOLEAN, disturbed' = disturbed,
           ~disturbed => InHistory'
    PROVE  ViewInv'
<1>1. pc' = "draw" /\ line' = 0 /\ base' = start /\ view_start' = start /\ screen' = screen
    BY DEF BeginDrawing
<1>2. 0 \in Lines
    BY ViewAssumption, SMTT(60) DEF Lines
<1>3. ViewTypeOK'
    BY <1>1, <1>2, Zenon DEF ViewInv, ViewTypeOK, TextOK, Lines, Slots
<1>4. ~disturbed => Steady'
    BY <1>1 DEF Steady, Lines
<1> QED
    BY <1>1, <1>3, <1>4 DEF ViewInv, TextOK

LEMMA TextStays == ViewInv /\ UNCHANGED text => TextOK'
BY DEF ViewInv, ViewTypeOK, TextOK, text, RowsIntact

LEMMA Follow == ViewInv /\ follow_output => ViewInv'
<1> SUFFICES ASSUME ViewInv, follow_output PROVE ViewInv'
    OBVIOUS
<1>1. /\ BeginDrawing(viewport_max_start) /\ UNCHANGED text
      /\ follow_tail' = follow_tail /\ disturbed' = disturbed
    BY DEF follow_output
<1>2. ViewTypeOK /\ follow_tail' \in BOOLEAN
    BY <1>1 DEF ViewInv, ViewTypeOK
<1>3. InHistory'
    BY <1>1, <1>2, Range, SameText DEF InHistory, BeginDrawing
<1>4. viewport_max_start \in 0..(SizeMod - 1)
    BY <1>2, Range
<1> QED
    BY <1>1, <1>2, <1>3, <1>4, TextStays, Begin

LEMMA ClampLow == ViewInv /\ clamp_low => ViewInv'
<1> SUFFICES ASSUME ViewInv, clamp_low PROVE ViewInv'
    OBVIOUS
<1>1. /\ UNCHANGED text
      /\ UNCHANGED <<abs_row, col, holds, newest, follow_tail, screen, line, base, disturbed>>
      /\ pc = "low" /\ pc' = "high"
    BY DEF clamp_low, text, drawing
<1>2. /\ history_min_abs_row \in 0..(SizeMod - 1) /\ view_start \in 0..(SizeMod - 1)
      /\ SizeMod \in Nat
    BY Range DEF ViewInv, ViewTypeOK
<1>3. view_start' \in 0..(SizeMod - 1) /\ history_min_abs_row <= view_start'
    BY <1>2 DEF clamp_low
<1>4. ViewTypeOK'
    BY <1>1, <1>3 DEF ViewInv, ViewTypeOK, Lines, Slots
<1>5. ~disturbed => Steady'
    BY <1>1, <1>3, SameText DEF ViewInv, Steady
<1> QED
    BY <1>1, <1>4, <1>5, SameText DEF ViewInv

LEMMA ClampHigh == ViewInv /\ clamp_high => ViewInv'
<1> SUFFICES ASSUME ViewInv, clamp_high PROVE ViewInv'
    OBVIOUS
<1> DEFINE start == IF view_start > viewport_max_start THEN viewport_max_start ELSE view_start
<1>1. /\ UNCHANGED text /\ follow_tail' = follow_tail /\ disturbed' = disturbed
      /\ pc = "high"
      /\ BeginDrawing(start) \/ (disturbed /\ BeginDrawing(viewport_max_start))
    BY DEF clamp_high
<1>2. ViewTypeOK /\ follow_tail' \in BOOLEAN
    BY <1>1 DEF ViewInv, ViewTypeOK
<1>3. /\ history_min_abs_row \in Nat /\ viewport_max_start \in Nat /\ view_start \in Nat
      /\ viewport_max_start \in 0..(SizeMod - 1) /\ view_start \in 0..(SizeMod - 1)
      /\ history_min_abs_row <= viewport_max_start
    BY <1>2, Range DEF ViewTypeOK
<1>4. start \in 0..(SizeMod - 1)
    BY <1>3
<1>5. TextOK'
    BY <1>1, TextStays
<1>6. ~disturbed => history_min_abs_row <= start /\ start <= viewport_max_start /\ ~follow_tail
    BY <1>1, <1>3 DEF ViewInv, Steady
<1> HIDE DEF start
<1>7. CASE BeginDrawing(start)
  <2>1. ~disturbed => InHistory'
    BY <1>1, <1>6, <1>7, SameText DEF InHistory, BeginDrawing
  <2> QED
    BY <1>1, <1>2, <1>4, <1>5, <1>7, <2>1, Begin
<1>8. CASE disturbed /\ BeginDrawing(viewport_max_start)
    BY <1>1, <1>2, <1>3, <1>5, <1>8, Begin
<1> QED
    BY <1>1, <1>7, <1>8

LEMMA ClearView == ViewInv /\ console_clear_view => ViewInv'
<1> SUFFICES ASSUME ViewInv, console_clear_view PROVE ViewInv'
    OBVIOUS
<1>1. /\ BeginDrawing(0) /\ follow_tail' = TRUE /\ disturbed' = disturbed
      /\ abs_row = 0 /\ abs_row' = 0 /\ newest' = 0 /\ col' = col /\ view_start' = 0
      /\ holds' = [s \in Slots |-> s]
    BY DEF ViewInv, console_clear_view, BeginDrawing
<1>2. history_min_abs_row' = 0 /\ viewport_max_start' = 0
    BY <1>1, ViewAssumption DEF history_min_abs_row, viewport_max_start
<1>3. RowsIntact'
    BY <1>1, ViewAssumption, SMTT(60) DEF RowsIntact, Slots
<1>4. TextOK'
    BY <1>1, <1>3, ViewAssumption DEF TextOK, ViewInv, ViewTypeOK
<1>5. InHistory' /\ 0 \in 0..(SizeMod - 1) /\ follow_tail' \in BOOLEAN
    BY <1>1, <1>2, ViewAssumption, SMTT(60) DEF InHistory
<1> QED
    BY <1>1, <1>4, <1>5, Begin

LEMMA Clear == ViewInv /\ console_clear => ViewInv'
<1> SUFFICES ASSUME ViewInv, console_clear PROVE ViewInv'
    OBVIOUS
<1>1. /\ abs_row' = 0 /\ col' = 0 /\ pc' = "clear" /\ disturbed' = FALSE
      /\ UNCHANGED <<holds, newest, view_start, follow_tail, screen, line, base>>
    BY SMTT(60) DEF console_clear, view, drawing
<1>2. ViewTypeOK'
  <2>1. /\ abs_row' \in 0..MaxRow /\ newest \in 0..MaxRow /\ newest' \in abs_row'..MaxRow
        /\ col' \in 0..(Width - 1)
    BY <1>1, ViewAssumption DEF ViewInv, ViewTypeOK
  <2> QED
    BY <1>1, <2>1, Zenon DEF ViewInv, ViewTypeOK, Lines, Slots
<1>3. RowsIntact'
    BY <1>1, ViewAssumption DEF ViewInv, ViewTypeOK, RowsIntact
<1> QED
    BY <1>1, <1>2, <1>3 DEF ViewInv, Steady

LEMMA Render == ViewInv /\ vga_render_view => ViewInv'
<1> SUFFICES ASSUME ViewInv, vga_render_view PROVE ViewInv'
    OBVIOUS
<1>1. /\ UNCHANGED text /\ UNCHANGED <<abs_row, col, holds, newest, view_start, follow_tail, disturbed>>
      /\ pc = "draw" /\ ViewTypeOK
    BY DEF vga_render_view, text, view, ViewInv
<1>2. PICK start \in {view_start, base} : screen' = [screen EXCEPT ![line] = Shown(start, line)]
    BY Zenon DEF vga_render_view
<1>3. /\ start \in 0..(SizeMod - 1) /\ line \in Lines /\ line \in Nat
      /\ screen \in [Lines -> 0..MaxRow \cup Slots \cup {Blank}]
    BY <1>1, ViewAssumption DEF ViewTypeOK, Lines
<1>4. screen' \in [Lines -> 0..MaxRow \cup Slots \cup {Blank}]
    BY <1>1, <1>2, <1>3, ShownTyped
<1>5. /\ line = Height - 1 => pc' = "idle" /\ line' = 0 /\ base' = 0
      /\ line # Height - 1 => pc' = pc /\ line' = line + 1 /\ base' = base
    BY DEF vga_render_view
<1>6. ViewTypeOK'
  <2>1. line' \in Lines /\ base' \in 0..(SizeMod - 1) /\ pc' \in {"idle", "draw"}
    BY <1>1, <1>3, <1>5, ViewAssumption DEF ViewTypeOK, Lines
  <2> QED
    BY <1>1, <1>4, <2>1, SMTT(60) DEF ViewTypeOK, Lines, Slots
<1>7. ASSUME ~disturbed PROVE Steady'
  <2>1. InHistory /\ base = view_start /\ \A l \in Lines : l < line => screen[l] = Shown(view_start, l)
    BY <1>1, <1>7 DEF ViewInv, Steady
  <2>2. InHistory'
    BY <1>1, <2>1, SameText DEF InHistory
  <2>3. \A l \in Lines : l <= line => screen'[l] = Shown(view_start, l)
    BY <1>2, <1>3, <2>1 DEF Lines
  <2>4. \A l : (Shown(view_start, l))' = Shown(view_start, l)
    BY <1>1, SameText
  <2>5. \A l \in Lines : l <= line => screen'[l] = (Shown(view_start, l))'
    BY <2>3, <2>4
  <2>6. CASE line = Height - 1
    <3>1. \A l \in Lines : screen'[l] = (Shown(view_start, l))'
      BY <1>3, <2>5, <2>6, ViewAssumption DEF Lines
    <3>2. pc' = "idle"
      BY <1>5, <2>6
    <3> QED
      BY <2>2, <3>1, <3>2 DEF Steady, Lines
  <2>7. CASE line # Height - 1
    <3>1. \A l \in Lines : l < line' => screen'[l] = (Shown(view_start, l))'
      BY <1>3, <1>5, <2>5, <2>7 DEF Lines
    <3>2. pc' = "draw" /\ base' = view_start'
      BY <1>1, <1>5, <2>1, <2>7
    <3> QED
      BY <2>2, <3>1, <3>2 DEF Steady, Lines
  <2> QED
    BY <2>6, <2>7
<1>8. pc' # "clear"
    BY <1>1, <1>5
<1> QED
    BY <1>1, <1>6, <1>7, <1>8, SameText DEF ViewInv

----------------------------------------------------------------------------
(* The scroll.                                                             *)

\* The new position is a size_t whatever the old one was, and in the history
\* if the old one was: neither difference wraps then.
LEMMA ScrolledIs ==
    ASSUME ViewTypeOK, NEW delta \in Int, MaxRow - delta < SizeMod
    PROVE  /\ Scrolled(delta) \in 0..(SizeMod - 1)
           /\ history_min_abs_row <= view_start /\ view_start <= viewport_max_start
                => history_min_abs_row <= Scrolled(delta) /\ Scrolled(delta) <= viewport_max_start
<1> DEFINE low == history_min_abs_row
           high == viewport_max_start
           to == (view_start - delta) % SizeMod
           room == (view_start - low) % SizeMod
<1>1. /\ low \in Nat /\ high \in Nat /\ low <= high /\ high <= MaxRow /\ MaxRow < SizeMod
      /\ MaxRow \in Nat /\ SizeMod \in Nat /\ SizeMod > 0
      /\ view_start \in Nat /\ view_start < SizeMod
    BY Range DEF ViewTypeOK
<1>2. to \in Nat /\ to < SizeMod
    BY <1>1
<1>3. low <= view_start => room = view_start - low
    BY <1>1
<1>4. view_start - delta >= 0 /\ view_start - delta < SizeMod => to = view_start - delta
    BY <1>1
<1>5. Scrolled(delta) = IF delta > 0 THEN IF delta > room THEN low ELSE to
                        ELSE IF to > high THEN high ELSE to
    BY DEF Scrolled
<1> HIDE DEF low, high, to, room
<1>6. Scrolled(delta) \in 0..(SizeMod - 1)
    BY <1>1, <1>2, <1>5
<1>7. ASSUME low <= view_start, view_start <= high
      PROVE  low <= Scrolled(delta) /\ Scrolled(delta) <= high
  <2>1. CASE delta > 0 /\ delta > room
    BY <1>1, <1>5, <2>1
  <2>2. CASE delta > 0 /\ ~(delta > room)
    BY <1>1, <1>3, <1>4, <1>5, <1>7, <2>2
  <2>3. CASE ~(delta > 0)
    BY <1>1, <1>4, <1>5, <1>7, <2>3
  <2> QED
    BY <2>1, <2>2, <2>3
<1> QED
    BY <1>6, <1>7 DEF low, high

LEMMA Scroll ==
    ASSUME ViewInv, NEW delta \in Int, MaxRow - delta < SizeMod, console_scroll_view(delta)
    PROVE  ViewInv'
<1>1. CASE delta = 0
    BY <1>1, ZenonT(60) DEF console_scroll_view, viewVars, ViewInv, ViewTypeOK, RowsIntact, Steady, InHistory,
                Shown, history_min_abs_row, viewport_max_start, Lines, Slots
<1>2. CASE delta # 0
  <2> DEFINE to == Scrolled(delta)
  <2>1. /\ UNCHANGED text /\ UNCHANGED <<abs_row, col, holds, newest, pc, line, base>>
        /\ view_start' = to /\ follow_tail' = (view_start' = viewport_max_start)
        /\ screen' = [l \in Lines |-> Shown(to, l)]
        /\ disturbed' = (disturbed \/ pc \in {"follow", "low", "high", "draw"})
    BY <1>2 DEF console_scroll_view, text
  <2>2. ViewTypeOK /\ to \in 0..(SizeMod - 1)
    BY ScrolledIs DEF ViewInv
  <2>3. /\ history_min_abs_row <= view_start /\ view_start <= viewport_max_start
             => history_min_abs_row <= to /\ to <= viewport_max_start
    BY <2>2, ScrolledIs
  <2> HIDE DEF to
  <2>4. follow_tail' \in BOOLEAN /\ disturbed' \in BOOLEAN
    BY <2>1
  <2>5. \A l \in Lines : Shown(to, l) \in 0..MaxRow \cup Slots \cup {Blank}
    BY <2>2, ShownTyped
  <2>6. screen' \in [Lines -> 0..MaxRow \cup Slots \cup {Blank}]
    BY <2>1, <2>5, SMTT(60)
  <2>7. ViewTypeOK'
    BY <2>1, <2>2, <2>4, <2>6, SMTT(60) DEF ViewTypeOK, Lines, Slots
  <2>8. ASSUME ~disturbed' PROVE Steady'
    <3>1. ~disturbed /\ pc \notin {"follow", "low", "high", "draw"}
      BY <2>1, <2>8, Zenon
    <3>2. pc = "idle" => InHistory'
      BY <2>1, <2>3, <3>1, SameText, Zenon DEF ViewInv, Steady, InHistory
    <3>3. \A l \in Lines : screen'[l] = (Shown(view_start, l))'
      <4>1. \A l \in Lines : screen'[l] = Shown(to, l)
        BY <2>1
      <4>2. \A l : (Shown(view_start, l))' = Shown(to, l)
        BY <2>1 DEF text, Shown, history_min_abs_row
      <4> QED
        BY <4>1, <4>2
    <3> QED
      BY <2>1, <3>1, <3>2, <3>3 DEF Steady, Lines
  <2> QED
    BY <2>1, <2>7, <2>8, SameText DEF ViewInv
<1> QED
    BY <1>1, <1>2, SMTT(60)

\* What a byte of the mouse can ask for.
LEMMA ScrollByBounds ==
    ASSUME MouseInv, NEW turn \in Turns \cup {-t : t \in Turns}
    PROVE  ScrollBy(turn) \in Int /\ MaxRow - ScrollBy(turn) < SizeMod
<1>1. MaxRow \in Nat /\ SizeMod \in Nat /\ MaxRow < SizeMod /\ LinesPerTurn \in Nat
    BY ViewAssumption, MouseAssumption
<1>2. PICK t \in Turns : turn = t \/ turn = -t
    OBVIOUS
<1> DEFINE n == t * LinesPerTurn
<1>3. t \in Nat /\ n \in Nat /\ n + MaxRow < SizeMod
    BY <1>1, MouseAssumption, ScrollAssumption
<1>4. turn * LinesPerTurn = n \/ turn * LinesPerTurn = -n
    BY <1>1, <1>2, <1>3
<1> HIDE DEF n
<1>5. ScrollBy(turn) = n \/ ScrollBy(turn) = -n \/ ScrollBy(turn) = 0
    BY <1>4 DEF ScrollBy
<1> QED
    BY <1>1, <1>3, <1>5

----------------------------------------------------------------------------
(* The theorems.                                                           *)

LEMMA InitIInv == Init => IInv
BY InitView, InitMouse, SMTT(60) DEF Init, IInv

LEMMA SameView == ViewInv /\ UNCHANGED viewVars => ViewInv'
<1> SUFFICES ASSUME ViewInv, UNCHANGED viewVars PROVE ViewInv'
    OBVIOUS
<1>1. ViewTypeOK' /\ (pc' = "clear" => abs_row' = 0) /\ disturbed' = disturbed
    BY DEF viewVars, ViewInv, ViewTypeOK, Lines, Slots
<1>2. RowsIntact'
    BY DEF viewVars, ViewInv, RowsIntact
<1>3. ~disturbed => Steady'
    <2>1. InHistory <=> InHistory'
        BY DEF viewVars, InHistory, history_min_abs_row, viewport_max_start
    <2>2. history_min_abs_row' = history_min_abs_row
        BY DEF viewVars, history_min_abs_row
    <2>3. \A l \in Lines : Shown(view_start, l)' = Shown(view_start, l)
        BY DEF viewVars, Shown, history_min_abs_row
    <2> QED
        BY <2>1, <2>2, <2>3 DEF viewVars, ViewInv, Steady, Lines
<1> QED
    BY <1>1, <1>2, <1>3 DEF ViewInv

LEMMA NextIInv == IInv /\ [Next]_vars => IInv'
<1> SUFFICES ASSUME IInv, [Next]_vars PROVE IInv'
    OBVIOUS
<1> USE DEF IInv
<1>1. CASE Boot
    BY <1>1, BootMouse, SameView DEF Boot
<1>2. CASE Output
    BY <1>2, Put, After, Follow, ClampLow, ClampHigh, Render, Clear, ClearView, SameMouse
       DEF Output, MainThread
<1>3. CASE MouseIrq
  <2>1. PICK mark \in BOOLEAN, turn \in Turns \cup {-t : t \in Turns} :
            mouse_handle_irq(mark) /\ console_scroll_view(ScrollBy(turn))
    BY <1>3 DEF MouseIrq
  <2>2. MouseInv'
    BY <2>1, IrqMouse
  <2>3. ViewInv'
    BY <2>1, ScrollByBounds, Scroll
  <2> QED
    BY <2>2, <2>3
<1>4. CASE UNCHANGED vars
    BY <1>4, SameView, SameMouse DEF vars
<1> QED
    BY <1>1, <1>2, <1>3, <1>4 DEF Next

\* What the four theorems below rest on.
THEOREM Invariance == Spec => []IInv
BY InitIInv, NextIInv, PTL DEF Spec

\* console_putc, console_clear and a scroll from the mouse interrupt anywhere
\* in between leave the window inside the history, and at its end if it
\* follows the output, for any size of the history and of the screen.
THEOREM WindowInHistory == Spec => []ViewInHistory
<1>1. IInv => ViewInHistory
    BY DEF IInv, ViewInv, Steady, InHistory, ViewInHistory
<1> QED
    BY <1>1, Invariance, PTL

\* The ring of advance_new_line keeps every row that is still in the history.
THEOREM RowsKept == Spec => []RowsIntact
<1>1. IInv => RowsIntact
    BY DEF IInv, ViewInv
<1> QED
    BY <1>1, Invariance, PTL

\* vga_render_view and console_scroll_view leave the window on the screen.
THEOREM ScreenShowsWindow == Spec => []ScreenCurrent
<1>1. IInv => ScreenCurrent
    BY DEF IInv, ViewInv, Steady, ScreenCurrent
<1> QED
    BY <1>1, Invariance, PTL

\* mouse_handle_irq is ahead of the mouse by the late answers of mouse_init.
THEOREM MouseStepsTogether == Spec => []MouseInStep
<1>1. IInv => MouseInStep
    BY DEF IInv, MouseInv, MouseInStep, Answers
<1> QED
    BY <1>1, Invariance, PTL
=============================================================================
