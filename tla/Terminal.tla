------------------------------ MODULE Terminal ------------------------------
(***************************************************************************)
(* From the keys to the shell: keyboard_handle_irq decodes a byte and, if  *)
(* it gives a character, enqueues it in the console's ring in the same     *)
(* interrupt, at any point of what the shell is doing with that ring.      *)
(***************************************************************************)
EXTENDS ConsoleInput

CONSTANT Keys              \* see Keyboard

VARIABLES
    g_shift_active, g_ctrl_active, g_extended_sequence, held, key, bytes

K == INSTANCE Keyboard

\* What the keymap and the translations of prefixed and Ctrl codes give.
ASSUME KeyboardAssumption ==
    /\ Keys \subseteq DOMAIN K!Code /\ Keys # {}
    /\ {"a", "A", "[", "{", "LF", "ESC", "^A", "^B", "^P"} \subseteq Chars

kvars == <<g_shift_active, g_ctrl_active, g_extended_sequence, held, key, bytes>>
tvars == <<vars, kvars>>

TInit == Init /\ K!Init

\* Somebody types.
Key == (\E k \in Keys : K!KeyDown(k) \/ K!KeyUp(k)) /\ UNCHANGED vars

\* The interrupt of one byte; most bytes give no character.
ByteIrq ==
    /\ K!keyboard_handle_irq
    /\ \/ /\ K!Character = "none"
          /\ Awake
          /\ UNCHANGED <<ring, char, loaded, queue, raced>>
       \/ K!Character # "none" /\ KeyboardIrq(K!Character)

TNext ==
    \/ (Shell \/ TimerIrq) /\ UNCHANGED kvars
    \/ Key
    \/ ByteIrq

\* The processor executes the shell, and the timer is periodic.
Fairness == WF_tvars(Shell /\ UNCHANGED kvars) /\ WF_tvars(TimerIrq /\ UNCHANGED kvars)

TSpec == TInit /\ [][TNext]_tvars /\ Fairness

----------------------------------------------------------------------------
(* Properties *)

\* The last byte of a key that goes down gives the character that the keys
\* held with it call for, and gives it to the ring unless the ring is full:
\* the flags the handler keeps from byte to byte agree with the keyboard, and
\* the arrows are told from the number pad by their prefix.
DecodesAsHeld ==
    [][ bytes # <<>> /\ bytes' = <<>> /\ Head(bytes)[1] = "press"
        /\ K!Meant(key) # "none" /\ ~input_buffer_is_full =>
          buffer'[write_index] = K!Meant(key) ]_tvars

=============================================================================
