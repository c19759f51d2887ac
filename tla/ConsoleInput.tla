---------------------------- MODULE ConsoleInput ----------------------------
(***************************************************************************)
(* The console's input ring (src/kernel/console.c) between its two         *)
(* producers and its reader.  The keyboard interrupt enqueues a character  *)
(* at once, since handlers run with interrupts off.  The shell, which runs *)
(* with interrupts on, enqueues what it finds in the serial port and takes *)
(* the oldest character out, step by step: the keyboard may come in after  *)
(* each of its memory accesses.  When there is nothing to read the shell   *)
(* halts until the next interrupt.                                         *)
(*                                                                         *)
(* The indexes are plain C variables.  Between two accesses the compiler   *)
(* may keep one in a register or load it again: both are possible here.    *)
(***************************************************************************)
EXTENDS Integers, Sequences

CONSTANTS
    Cap,         \* CONSOLE_INPUT_CAPACITY
    Chars,       \* the characters that are typed
    SerialChars  \* those among them that come by the serial line

ASSUME InputAssumption ==
    Cap \in Nat \ {0, 1} /\ SerialChars \subseteq Chars /\ SerialChars # {}

VARIABLES
    buffer, read_index, write_index,
    pc,          \* where the shell is: see Where
    char,        \* the character the shell has in hand, or Nothing
    loaded,      \* the write index as the shell's enqueue first read it
    queue,       \* what was accepted and not yet read, oldest first; no
                 \* longer kept up once raced
    raced        \* the keyboard enqueued inside an enqueue of the shell

ring == <<buffer, read_index, write_index>>
vars == <<buffer, read_index, write_index, pc, char, loaded, queue, raced>>

Slots == 0..(Cap - 1)
Nothing == "none"
Where == {"read", "store", "commit", "pop", "popped", "got",
          "clear_read", "clear_write", "empty", "hlt"}

TypeOK ==
    /\ buffer \in [Slots -> Chars] /\ read_index \in Slots /\ write_index \in Slots
    /\ pc \in Where /\ char \in Chars \cup {Nothing} /\ loaded \in Slots
    /\ queue \in Seq(Chars) /\ raced \in BOOLEAN

Init ==
    /\ buffer = [i \in Slots |-> CHOOSE c \in Chars : TRUE]
    /\ read_index = 0 /\ write_index = 0
    /\ pc = "read" /\ char = Nothing /\ loaded = 0
    /\ queue = <<>> /\ raced = FALSE

After(i) == (i + 1) % Cap
input_buffer_is_empty == read_index = write_index

\* Mutant: the slot that tells a full ring from an empty one is used too.
input_buffer_is_full_never == FALSE
input_buffer_is_full == After(write_index) = read_index

----------------------------------------------------------------------------
(* Interrupts *)

\* Any interrupt ends the halt.
Awake == pc' = IF pc = "hlt" THEN "read" ELSE pc

\* keyboard_handle_irq has a character.
KeyboardIrq(c) ==
    /\ Awake
    /\ IF input_buffer_is_full THEN UNCHANGED <<ring, queue, raced>>
       ELSE /\ buffer' = [buffer EXCEPT ![write_index] = c]
            /\ write_index' = After(write_index)
            /\ raced' = (raced \/ pc \in {"store", "commit"})
            /\ queue' = IF raced' THEN <<>> ELSE Append(queue, c)
            /\ UNCHANGED read_index
    /\ UNCHANGED <<char, loaded>>

\* Mutant: the timer interrupt leaves the processor halted.
TimerIrq_asleep == pc = "hlt" /\ UNCHANGED vars

\* The timer interrupt, when the shell is halted; it changes nothing else here.
TimerIrq ==
    /\ pc = "hlt" /\ Awake
    /\ UNCHANGED <<ring, char, loaded, queue, raced>>

----------------------------------------------------------------------------
(* The shell: console_try_read_char, and the loop around it *)

At(here, next) == pc = here /\ pc' = next

\* Character c is in the serial port.  console_enqueue_input: the check, the
\* store, and the new index.
Enqueue(c) ==
    /\ pc = "read"
    /\ IF input_buffer_is_full
       THEN pc' = "pop" /\ UNCHANGED <<char, loaded>>
       ELSE pc' = "store" /\ loaded' = write_index /\ char' = c
    /\ UNCHANGED <<ring, queue, raced>>
EnqueueStore ==
    /\ At("store", "commit")
    /\ \E w \in {loaded, write_index} : buffer' = [buffer EXCEPT ![w] = char]
    /\ UNCHANGED <<read_index, write_index, char, loaded, queue, raced>>
EnqueueCommit ==
    /\ At("commit", "pop")
    /\ \E w \in {loaded, write_index} : write_index' = After(w)
    /\ queue' = IF raced THEN queue ELSE Append(queue, char)
    /\ char' = Nothing /\ loaded' = 0
    /\ UNCHANGED <<buffer, read_index, raced>>

PopTo(next) == pc \in {"read", "pop"} /\ pc' = next

\* input_buffer_pop, with or without a serial character before it: the
\* character, then the index.
Pop ==
    /\ PopTo("popped") /\ ~input_buffer_is_empty
    /\ char' = buffer[read_index]
    /\ UNCHANGED <<ring, loaded, queue, raced>>
PopNothing ==
    /\ PopTo("empty") /\ input_buffer_is_empty
    /\ UNCHANGED <<ring, char, loaded, queue, raced>>
PopCommit ==
    /\ At("popped", "got")
    /\ read_index' = After(read_index)
    /\ queue' = IF raced THEN queue ELSE Tail(queue)
    /\ UNCHANGED <<buffer, write_index, char, loaded, raced>>

\* The character is dealt with; it may complete the command "clear".
Handled ==
    /\ pc = "got" /\ pc' \in {"read", "clear_read"}
    /\ char' = Nothing
    /\ UNCHANGED <<ring, loaded, queue, raced>>

\* console_clear empties the ring, one index at a time.
ClearRead ==
    /\ At("clear_read", "clear_write")
    /\ read_index' = 0
    /\ UNCHANGED <<buffer, write_index, char, loaded, queue, raced>>
ClearWrite ==
    /\ At("clear_write", "read")
    /\ write_index' = 0 /\ queue' = <<>>
    /\ raced' = FALSE          \* whatever a race left in the ring is gone
    /\ UNCHANGED <<buffer, read_index, char, loaded>>

\* Nothing to read: cli_run halts, one instruction after it found that out.
Halt ==
    /\ At("empty", "hlt")
    /\ UNCHANGED <<ring, char, loaded, queue, raced>>

Shell ==
    \/ (\E c \in SerialChars : Enqueue(c)) \/ EnqueueStore \/ EnqueueCommit
    \/ Pop \/ PopNothing \/ PopCommit \/ Handled \/ ClearRead \/ ClearWrite \/ Halt

----------------------------------------------------------------------------
(* Properties *)

Pending == [i \in 1..((write_index - read_index) % Cap) |->
               buffer[(read_index + i - 1) % Cap]]

\* The ring holds what was accepted, in order, none lost, doubled or stale,
\* however keyboard interrupts fall into the shell's accesses, and what the
\* shell takes is the oldest: unless one fell between the check and the new
\* index of a serial character's enqueue, which is the one window
\* console_enqueue_input leaves open (raced).
FifoExact ==
    ~raced => /\ pc # "clear_write" => Pending = queue
              /\ pc = "popped" => char = Head(queue)

\* What is in the ring gets read (or cleared), although cli_run may find the
\* ring empty, be interrupted by the keyboard, and halt all the same.
InputServed == (~input_buffer_is_empty) ~> (pc = "got" \/ input_buffer_is_empty)
=============================================================================
