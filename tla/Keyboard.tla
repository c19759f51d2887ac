------------------------------ MODULE Keyboard ------------------------------
(***************************************************************************)
(* The PS/2 keyboard driver (drivers/keyboard.c): the handler that turns   *)
(* scancode bytes, one interrupt each, into characters for the console,    *)
(* and a keyboard that sends them.  A key sends its code when it goes down *)
(* (and again while it is held), the same code marked as a release when it *)
(* comes up, and, for the keys added later to the PC keyboard, the prefix  *)
(* E0 before either.  Module Terminal passes the characters on.            *)
(***************************************************************************)
EXTENDS Integers, Sequences

CONSTANT Keys    \* the keys of the keyboard, some of those Code names

\* Scancodes by name.  The right Ctrl and the arrows share the code of the left
\* Ctrl and of keys of the number pad, and differ from them by the prefix.
Code == [lshift |-> "SHIFT", rshift |-> "SHIFT", lctrl |-> "CTRL", rctrl |-> "CTRL",
         a |-> "A", bracket |-> "BRACKET", enter |-> "ENTER", esc |-> "ESC", up |-> "UP",
         left |-> "LEFT", pad8 |-> "UP", delete |-> "DEL"]
Prefixed == {"rctrl", "up", "left", "delete"}

VARIABLES
    g_shift_active, g_ctrl_active, g_extended_sequence,
    held,        \* the keys that are down
    key, bytes   \* the key whose bytes are being sent, and what is left of them

flags == <<g_shift_active, g_ctrl_active, g_extended_sequence>>
vars == <<g_shift_active, g_ctrl_active, g_extended_sequence, held, key, bytes>>

Release(c) == <<"release", c>>
Press(c) == <<"press", c>>
E0 == <<"prefix", "E0">>

TypeOK ==
    /\ g_shift_active \in BOOLEAN /\ g_ctrl_active \in BOOLEAN
    /\ g_extended_sequence \in BOOLEAN
    /\ held \subseteq Keys /\ key \in Keys \cup {"none"} /\ Len(bytes) <= 2

\* keyboard_init
Init ==
    /\ g_shift_active = FALSE /\ g_ctrl_active = FALSE /\ g_extended_sequence = FALSE
    /\ held = {} /\ key = "none" /\ bytes = <<>>

----------------------------------------------------------------------------
(* The keyboard *)

Prefix(k) == IF k \in Prefixed THEN <<E0>> ELSE <<>>

KeyDown(k) ==
    /\ bytes = <<>> /\ bytes' = Append(Prefix(k), Press(Code[k]))
    /\ key' = k /\ held' = held \cup {k}
    /\ UNCHANGED flags

KeyUp(k) ==
    /\ bytes = <<>> /\ k \in held /\ bytes' = Append(Prefix(k), Release(Code[k]))
    /\ key' = k /\ held' = held \ {k}
    /\ UNCHANGED flags

----------------------------------------------------------------------------
(* The handler *)

\* g_keymap, for the keys modelled.
normal == [A |-> "a", BRACKET |-> "[", ENTER |-> "LF"]
shifted == [A |-> "A", BRACKET |-> "{", ENTER |-> "LF"]

translate_scancode(c) ==
    IF c \notin DOMAIN normal THEN "none"
    ELSE IF g_shift_active THEN shifted[c] ELSE normal[c]

translate_extended_scancode(c) ==
    CASE c = "UP" -> "^P" [] c = "LEFT" -> "^B" [] OTHER -> "none"

apply_ctrl_translation(c) ==
    CASE g_ctrl_active /\ c \in {"a", "A"} -> "^A"
      [] g_ctrl_active /\ c = "[" -> "ESC"
      [] OTHER -> c

prefix_byte ==
    /\ Head(bytes) = E0
    /\ g_extended_sequence' = TRUE
    /\ UNCHANGED <<g_shift_active, g_ctrl_active>>

release_byte(c) ==
    /\ Head(bytes) = Release(c)
    /\ g_shift_active' = (g_shift_active /\ c # "SHIFT")
    /\ g_ctrl_active' = (g_ctrl_active /\ c # "CTRL")
    /\ g_extended_sequence' = FALSE

\* Mutant: Ctrl leaves the prefix open, as Shift does.
modifier_byte_open(c) ==
    /\ Head(bytes) = Press(c) /\ c \in {"SHIFT", "CTRL"}
    /\ g_shift_active' = (g_shift_active \/ c = "SHIFT")
    /\ g_ctrl_active' = (g_ctrl_active \/ c = "CTRL")
    /\ UNCHANGED g_extended_sequence

\* Ctrl ends a prefixed sequence; Shift, which has no prefixed twin, does not.
modifier_byte(c) ==
    /\ Head(bytes) = Press(c) /\ c \in {"SHIFT", "CTRL"}
    /\ g_shift_active' = (g_shift_active \/ c = "SHIFT")
    /\ g_ctrl_active' = (g_ctrl_active \/ c = "CTRL")
    /\ g_extended_sequence' = (g_extended_sequence /\ c = "SHIFT")

key_byte(c) ==
    /\ Head(bytes) = Press(c) /\ c \notin {"SHIFT", "CTRL"}
    /\ g_extended_sequence' = FALSE
    /\ UNCHANGED <<g_shift_active, g_ctrl_active>>

\* The character the byte at hand gives, or "none".
Character ==
    LET c == Head(bytes)[2]
    IN  IF Head(bytes) # Press(c) \/ c \in {"SHIFT", "CTRL"} THEN "none"
        ELSE IF g_extended_sequence THEN translate_extended_scancode(c)
        ELSE IF c = "ESC" THEN "ESC"
        ELSE apply_ctrl_translation(translate_scancode(c))

\* One byte, one interrupt.
keyboard_handle_irq ==
    /\ bytes # <<>> /\ bytes' = Tail(bytes)
    /\ \/ prefix_byte
       \/ \E c \in {Code[k] : k \in Keys} :
             release_byte(c) \/ modifier_byte(c) \/ key_byte(c)
    /\ key' = IF bytes' = <<>> THEN "none" ELSE key
    /\ UNCHANGED held

----------------------------------------------------------------------------
\* What the keys that are down say a key gives.
Meant(k) ==
    LET ctrl == held \cap {"lctrl", "rctrl"} # {}
        shift == held \cap {"lshift", "rshift"} # {}
    IN  CASE k = "a" -> (IF ctrl THEN "^A" ELSE IF shift THEN "A" ELSE "a")
          [] k = "bracket" -> (IF shift THEN "{" ELSE IF ctrl THEN "ESC" ELSE "[")
          [] k = "enter" -> "LF"
          [] k = "esc" -> "ESC"
          [] k = "up" -> "^P"
          [] k = "left" -> "^B"
          [] OTHER -> "none"

=============================================================================
