------------------------------ MODULE Keyboard ------------------------------
(***************************************************************************)
(* The keyboard driver: the interrupt handler that translates scan codes   *)
(* and fills the character ring, and kbd_read that empties it, with no     *)
(* lock between them.  The handler runs between any two steps of the       *)
(* reader: nothing in kbd_read turns interrupts off.  One process reads;   *)
(* with several, a reader that leaves with -EINTR takes the wake-up with   *)
(* it.                                                                     *)
(***************************************************************************)
EXTENDS SyncBase

CONSTANTS
    KBD_BUFFER_SIZE,
    MaxCount      \* bound: characters asked for in one read

ASSUME KeyboardAssumption ==
    /\ KBD_BUFFER_SIZE \in Nat \ {0} /\ MaxCount \in Nat
    /\ "kbd_wq" \in Queues

VARIABLES
    kbd_buffer, kbd_read_idx, kbd_write_idx,
    shift_pressed, ctrl_pressed,
    pending,    \* pending[p]: SIGINT is pending for p
    count,      \* count[p]: characters p's read still asks for
    c,          \* the reader's local copy of a character
    got,        \* got[p]: whether p's read has returned characters already
    last        \* the character handed out last

ring    == <<kbd_buffer, kbd_read_idx, kbd_write_idx, last>>
keys    == <<shift_pressed, ctrl_pressed>>
reading == <<count, got, c>>
kbdVars == <<syncVars, ring, keys, pending, reading>>

\* What the two tables and the control key produce, up to renaming keys.
Char    == {"a", "A", "^C"}
NoChar  == "none"
ScanCode == {"shift", "shift up", "ctrl", "ctrl up", "key", "C", "other", "key up"}

Init ==
    /\ SyncInit
    /\ kbd_buffer = [i \in 0 .. KBD_BUFFER_SIZE - 1 |-> NoChar]
    /\ kbd_read_idx = 0 /\ kbd_write_idx = 0 /\ last = NoChar
    /\ shift_pressed = FALSE /\ ctrl_pressed = FALSE
    /\ pending = [p \in Proc |-> FALSE]
    /\ count = [p \in Proc |-> 0]
    /\ got = [p \in Proc |-> FALSE] /\ c = NoChar

-----------------------------------------------------------------------------
Translate(scancode) ==
    IF ctrl_pressed THEN (IF scancode = "C" THEN "^C" ELSE NoChar)
    ELSE IF scancode = "other" THEN NoChar
    ELSE IF shift_pressed THEN "A" ELSE "a"

\* Faulty variants: a full ring is not noticed; or the reader is not woken.
Store_Overruns(ch) ==
    IF ch # NoChar
    THEN /\ kbd_buffer' = [kbd_buffer EXCEPT ![kbd_write_idx] = ch]
         /\ kbd_write_idx' = (kbd_write_idx + 1) % KBD_BUFFER_SIZE
         /\ UNCHANGED <<kbd_read_idx, last>>
         /\ irq_wake_up("kbd_wq", "woken", Inside("sleep"))
    ELSE UNCHANGED <<ring, syncVars>>
Store_Silent(ch) ==
    LET next_write == (kbd_write_idx + 1) % KBD_BUFFER_SIZE
    IN  IF ch # NoChar /\ next_write # kbd_read_idx
        THEN /\ kbd_buffer' = [kbd_buffer EXCEPT ![kbd_write_idx] = ch]
             /\ kbd_write_idx' = next_write
             /\ UNCHANGED <<kbd_read_idx, last, syncVars>>
        ELSE UNCHANGED <<ring, syncVars>>

\* A character that finds the ring full is dropped; nobody is woken then.
Store(ch) ==
    LET next_write == (kbd_write_idx + 1) % KBD_BUFFER_SIZE
    IN  IF ch # NoChar /\ next_write # kbd_read_idx
        THEN /\ kbd_buffer' = [kbd_buffer EXCEPT ![kbd_write_idx] = ch]
             /\ kbd_write_idx' = next_write
             /\ UNCHANGED <<kbd_read_idx, last>>
             /\ irq_wake_up("kbd_wq", "woken", Inside("sleep"))
        ELSE UNCHANGED <<ring, syncVars>>

\* Each key is also reported to the input layer, which has no handler
\* registered and does nothing.
keyboard_handler(scancode) ==
    /\ UNCHANGED reading
    /\ \/ /\ scancode \in {"shift", "shift up"}
          /\ shift_pressed' = (scancode = "shift")
          /\ UNCHANGED <<ctrl_pressed, pending, ring, syncVars>>
       \/ /\ scancode \in {"ctrl", "ctrl up"}
          /\ ctrl_pressed' = (scancode = "ctrl")
          /\ UNCHANGED <<shift_pressed, pending, ring, syncVars>>
       \/ /\ scancode \in {"key", "C", "other"}
          /\ Store(Translate(scancode))
          /\ pending' = [p \in Proc |-> pending[p] \/ (Translate(scancode) = "^C" /\ p = current)]
          /\ UNCHANGED keys

-----------------------------------------------------------------------------
Call(p, n) ==
    /\ At(p, "idle")
    /\ count' = [count EXCEPT ![p] = n]
    /\ got' = [got EXCEPT ![p] = FALSE]
    /\ Goto(p, "check")
    /\ UNCHANGED <<ring, keys, pending, c>>

\* The loop conditions of kbd_read: done, empty, or a character to take.
kbd_read(p) ==
    /\ At(p, "check")
    /\ Goto(p, IF count[p] = 0 THEN "idle"
               ELSE IF kbd_read_idx # kbd_write_idx THEN "take"
               ELSE IF got[p] THEN "idle"
               ELSE "sleep")
    /\ UNCHANGED <<ring, keys, pending, reading>>

kbd_read_sleeps(p) ==
    /\ At(p, "sleep") /\ sleep_on(p, "kbd_wq")
    /\ UNCHANGED <<ring, keys, pending, reading>>

\* After sleep_on: -EINTR with a signal pending, else look at the ring again.
\* The signal itself is taken when the system call returns.
kbd_read_woken(p) ==
    /\ At(p, "woken")
    /\ Goto(p, IF pending[p] THEN "idle" ELSE "check")
    /\ UNCHANGED <<ring, keys, pending, reading>>

\* The character is copied out, and only then its slot given back.
kbd_read_loads(p) ==
    /\ At(p, "take")
    /\ c' = kbd_buffer[kbd_read_idx]
    /\ Goto(p, "advance")
    /\ UNCHANGED <<kbd_buffer, kbd_read_idx, kbd_write_idx, last>>
    /\ UNCHANGED <<keys, pending, count, got>>

\* Faulty variant: the index does not wrap.
kbd_read_advances_NoWrap(p) ==
    /\ At(p, "advance")
    /\ last' = c
    /\ c' = NoChar
    /\ kbd_read_idx' = kbd_read_idx + 1
    /\ count' = [count EXCEPT ![p] = @ - 1]
    /\ got' = [got EXCEPT ![p] = TRUE]
    /\ Goto(p, "check")
    /\ UNCHANGED <<kbd_buffer, kbd_write_idx, keys, pending>>

kbd_read_advances(p) ==
    /\ At(p, "advance")
    /\ last' = c
    /\ c' = NoChar
    /\ kbd_read_idx' = (kbd_read_idx + 1) % KBD_BUFFER_SIZE
    /\ count' = [count EXCEPT ![p] = @ - 1]
    /\ got' = [got EXCEPT ![p] = TRUE]
    /\ Goto(p, "check")
    /\ UNCHANGED <<kbd_buffer, kbd_write_idx, keys, pending>>

\* Signals are delivered on the way back to user mode.
Deliver(p) ==
    /\ At(p, "idle") /\ pending[p]
    /\ pending' = [pending EXCEPT ![p] = FALSE]
    /\ UNCHANGED <<syncVars, ring, keys, reading>>

Yield == Switch(Inside("idle")) /\ UNCHANGED <<ring, keys, pending, reading>>

Next == \/ Yield
        \/ \E s \in ScanCode : keyboard_handler(s)
        \/ \E p \in Proc : \/ \E n \in 1 .. MaxCount : Call(p, n)
                           \/ kbd_read(p) \/ kbd_read_sleeps(p) \/ kbd_read_woken(p)
                           \/ kbd_read_loads(p) \/ kbd_read_advances(p) \/ Deliver(p)

Spec == Init /\ [][Next]_kbdVars

-----------------------------------------------------------------------------
\* The variables of the driver and its readers keep their types.
TypeOK == /\ SyncTypeOK({"idle", "check", "sleep", "asleep", "woken", "take", "advance"})
          /\ kbd_buffer \in [0 .. KBD_BUFFER_SIZE - 1 -> Char \union {NoChar}]
          /\ kbd_read_idx \in 0 .. KBD_BUFFER_SIZE - 1
          /\ kbd_write_idx \in 0 .. KBD_BUFFER_SIZE - 1
          /\ shift_pressed \in BOOLEAN /\ ctrl_pressed \in BOOLEAN
          /\ pending \in [Proc -> BOOLEAN]
          /\ count \in [Proc -> 0 .. MaxCount] /\ got \in [Proc -> BOOLEAN]
          /\ last \in Char \union {NoChar} /\ c \in Char \union {NoChar}

\* The unread characters, oldest first.
Unread == [i \in 1 .. (kbd_write_idx - kbd_read_idx + KBD_BUFFER_SIZE) % KBD_BUFFER_SIZE |->
              kbd_buffer[(kbd_read_idx + i - 1) % KBD_BUFFER_SIZE]]

Fifo == INSTANCE ByteFifo WITH Byte <- Char, Capacity <- KBD_BUFFER_SIZE - 1,
                               queue <- Unread
\* Handler and reader share the ring without a lock, and with one process at a
\* time in kbd_read it is a FIFO: no unread character is overwritten, none is
\* handed out twice or out of order.
ImplementsFifo == Fifo!FifoSpec

\* A reader never sleeps over unread characters: a character that arrives wakes
\* it, and it does not go to sleep while there is one.  Excepted is a reader the
\* handler passed by, between the look at the ring and sleep_on; a system call
\* starts with interrupts off, but the flag may be on again once it has slept.
NoSleepOverInput ==
    /\ TypeOK
    /\ Unread # <<>> => Sleepers("kbd_wq") = {}
=============================================================================
