------------------------------ MODULE Keyboard ------------------------------
(***************************************************************************)
(* The keyboard driver, drivers/ps2/ps2_kbd.c: the automaton that decodes   *)
(* scan code set 2 and the ring that sys_read_kbd reads.  The handler and   *)
(* kbd_pop_char hold kbd_lock_ with interrupts off and are one step each;   *)
(* the wake-up of readers is in Sched.  The keyboard itself is external: it *)
(* sends the bytes of a key when it is pressed, again while it is held, and *)
(* when it is released, and they arrive in order.                           *)
(*                                                                         *)
(* Definitions named ..._Bug are deliberately wrong variants of the one    *)
(* after them; they show that the properties notice such a mistake.        *)
(***************************************************************************)
EXTENDS Integers, Sequences, FiniteSets

CONSTANTS Key,          \* a subset of DOMAIN Code
          KBD_BUF_SIZE,
          MaxWire,      \* bound: bytes the keyboard holds back
          MaxHeld       \* bound: keys held at once

Code == [lshift |-> 18, rshift |-> 89, caps |-> 88, a |-> 28, keypad_enter |-> 90,
         f7 |-> 131]
ASSUME KbdAssumption == KBD_BUF_SIZE \in Nat /\ KBD_BUF_SIZE > 1 /\ Key \subseteq DOMAIN Code

Shift == {"lshift", "rshift"}
E0 == 224
F0 == 240

(* scancode_set2_lower and scancode_set2_upper at the codes above; codes    *)
(* from 0x80 on, as that of F7, are not looked up.                          *)
Ascii(code, upper) == CASE code = 28 -> IF upper THEN "A" ELSE "a"
                        [] code = 90 -> "enter"
                        [] OTHER -> "none"

VARIABLES down,         \* keys held
          caps_on,      \* what the user takes caps lock for
          wire,         \* bytes sent and not yet handled
          is_caps, is_break, is_shifted, is_extended,
          kbd_buffer, kbd_head, kbd_tail,
          due,          \* history: characters on the wire, as the user means them
          queue,        \* history: those that found room and were not read yet
          odd           \* history: two shift keys at once, or caps lock held on

keyboard == <<down, caps_on, wire, due, odd>>
flags == <<is_caps, is_break, is_shifted, is_extended>>
buffer == <<kbd_buffer, kbd_head, kbd_tail, queue>>
kbdvars == <<keyboard, flags, buffer>>

KbdInit ==
    /\ down = {} /\ caps_on = FALSE /\ wire = <<>> /\ due = <<>> /\ odd = FALSE
    /\ is_caps = FALSE /\ is_break = FALSE /\ is_shifted = FALSE /\ is_extended = FALSE
    /\ kbd_buffer = [s \in 0 .. KBD_BUF_SIZE - 1 |-> "none"] /\ kbd_head = 0 /\ kbd_tail = 0
    /\ queue = <<>>

-----------------------------------------------------------------------------
(* The keyboard.  A key of the keypad has E0 in front of its code. *)
Send(k, bytes) ==
    LET all == IF k = "keypad_enter" THEN <<E0>> \o bytes ELSE bytes IN
    Len(wire) + Len(all) <= MaxWire /\ wire' = wire \o all

Meant(k) == Ascii(Code[k], (down \cap Shift # {}) # caps_on)

Make(k) ==
    /\ Send(k, <<Code[k]>>)
    /\ due' = IF Meant(k) = "none" THEN due ELSE Append(due, Meant(k))
    /\ UNCHANGED <<flags, buffer>>

Press(k) ==
    /\ k \notin down /\ Cardinality(down) < MaxHeld /\ down' = down \cup {k}
    /\ caps_on' = (caps_on # (k = "caps"))
    /\ odd' = (odd \/ (k \in Shift /\ down \cap Shift # {}))
    /\ Make(k)

Repeat(k) ==
    /\ k \in down
    /\ odd' = (odd \/ k = "caps")
    /\ Make(k)
    /\ UNCHANGED <<down, caps_on>>

Release(k) ==
    /\ k \in down /\ down' = down \ {k}
    /\ Send(k, <<F0, Code[k]>>)
    /\ UNCHANGED <<caps_on, due, odd, flags, buffer>>

-----------------------------------------------------------------------------
Wrap(n) == (n + 1) % KBD_BUF_SIZE

(* The full ring overwrites what was not read. *)
PushChar_Bug(c) ==
    /\ kbd_buffer' = [kbd_buffer EXCEPT ![kbd_head] = c]
    /\ kbd_head' = Wrap(kbd_head)
    /\ queue' = IF Wrap(kbd_head) # kbd_tail THEN Append(queue, Head(due)) ELSE queue
    /\ due' = Tail(due)

(* kbd_push_char: without room the new character is discarded. *)
PushChar(c) ==
    /\ IF Wrap(kbd_head) # kbd_tail
       THEN /\ kbd_buffer' = [kbd_buffer EXCEPT ![kbd_head] = c]
            /\ kbd_head' = Wrap(kbd_head)
            /\ queue' = Append(queue, Head(due))
       ELSE UNCHANGED <<kbd_buffer, kbd_head, queue>>
    /\ due' = Tail(due)

(* ps2_keyboard_handler, by the byte in the data port. *)
IsPrefix(b) == b \in {E0, F0}
IsShift(b) == b \in {Code[k] : k \in Shift}

HandlePrefix(b) ==
    /\ IsPrefix(b)
    /\ is_extended' = (is_extended \/ b = E0) /\ is_break' = (is_break \/ b = F0)
    /\ UNCHANGED <<is_caps, is_shifted, buffer, due>>

HandleBreak(b) ==
    /\ ~IsPrefix(b) /\ is_break
    /\ is_break' = FALSE /\ is_extended' = FALSE
    /\ is_shifted' = (is_shifted /\ ~IsShift(b))
    /\ UNCHANGED <<is_caps, buffer, due>>

HandleModifier(b) ==
    /\ ~is_break /\ (IsShift(b) \/ b = Code["caps"])
    /\ is_shifted' = (is_shifted \/ IsShift(b))
    /\ is_caps' = (is_caps # (b = Code["caps"]))
    /\ UNCHANGED <<is_break, is_extended, buffer, due>>

HandleChar(b) ==
    /\ ~IsPrefix(b) /\ ~is_break /\ ~IsShift(b) /\ b # Code["caps"]
    /\ IF Ascii(b, is_shifted # is_caps) # "none" THEN PushChar(Ascii(b, is_shifted # is_caps))
       ELSE UNCHANGED <<kbd_buffer, kbd_head, queue, due>>
    /\ is_extended' = FALSE
    /\ UNCHANGED <<is_caps, is_break, is_shifted, kbd_tail>>

Handler ==
    /\ wire # <<>> /\ wire' = Tail(wire)
    /\ LET b == Head(wire) IN
       HandlePrefix(b) \/ HandleBreak(b) \/ HandleModifier(b) \/ HandleChar(b)
    /\ UNCHANGED <<down, caps_on, odd>>

(* kbd_pop_char, when it returns true. *)
PopChar ==
    /\ kbd_head # kbd_tail
    /\ kbd_tail' = Wrap(kbd_tail)
    /\ queue' = Tail(queue)
    /\ UNCHANGED <<keyboard, flags, kbd_buffer, kbd_head>>

(* What follows two shift keys at once is not modelled further. *)
KbdNext == /\ ~odd
           /\ \/ \E k \in Key : Press(k) \/ Repeat(k) \/ Release(k)
              \/ Handler
              \/ PopChar

-----------------------------------------------------------------------------
Unpopped == [n \in 1 .. (kbd_head - kbd_tail) % KBD_BUF_SIZE |->
                kbd_buffer[(kbd_tail + n - 1) % KBD_BUF_SIZE]]

(* Whatever the user presses and releases in whatever order, the characters *)
(* are read as they were meant, in order, and once nothing is on its way    *)
(* the flags agree with the keys held; ps2.md: the break codes "accurately  *)
(* track the state of modifier keys like Shift".  This holds until both     *)
(* shift keys are held at once, for which there is one flag, or caps lock   *)
(* repeats, which toggles it each time.                                     *)
KeysAsTyped == ~odd =>
    /\ Unpopped = queue
    /\ wire = <<>> => /\ due = <<>>
                      /\ is_shifted = (down \cap Shift # {}) /\ is_caps = caps_on
                      /\ ~is_break /\ ~is_extended
=============================================================================
