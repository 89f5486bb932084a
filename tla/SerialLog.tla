----------------------------- MODULE SerialLog -----------------------------
(***************************************************************************)
(* The log of arch/x86_64/serial.c: a ring that kprint fills on any CPU     *)
(* under kprint_lock_, and that log_flush, called by main's endless loop,   *)
(* empties into the serial port without that lock.  Both sides move         *)
(* log_tail, so every load and store of it is a step (the build has no      *)
(* optimisation).  Only the holder of the lock uses log_head and stores to  *)
(* the ring, so the rest of log_putc is two steps: the store of the         *)
(* character and that of log_head.  Characters are named by the order in    *)
(* which log_putc is called for them.                                       *)
(*                                                                         *)
(* Definitions named ..._Bug are deliberately wrong variants of the one    *)
(* after them; they show that the properties notice such a mistake.        *)
(***************************************************************************)
EXTENDS Integers, Sequences, FiniteSets, TLC

CONSTANTS Writer,       \* CPUs that print
          BUFFER_SIZE,
          Lengths,      \* characters of a message, '\r' included
          MaxChars,     \* bound: characters printed in all
          NULL

(* With two slots the oldest character is overwritten while log_flush takes *)
(* it for unread; the code has 128 K.                                       *)
ASSUME LogAssumption == BUFFER_SIZE \in Nat /\ BUFFER_SIZE > 2

Slot == 0 .. BUFFER_SIZE - 1
Succ(i) == (i + 1) % BUFFER_SIZE

VARIABLES log_buffer, log_head, log_tail,
          kprint_lock,  \* holder of kprint_lock_, or NULL
          put,          \* the step of log_putc the holder is at
          left,         \* characters left to print
          drop,         \* log_tail as log_putc has loaded it
          flush,        \* the step of log_flush main is at
          h, i, r,      \* log_head, index and log_tail as log_flush has them
          printed,      \* history: calls of log_putc
          sent,         \* history: characters written to the port
          dropped,      \* history: characters log_putc gave up for new ones
          raced         \* history: one side moved log_tail while the other was
                        \* between looking at it and moving it

ring == <<log_buffer, log_head, log_tail>>
writer == <<kprint_lock, put, left, drop>>
reader == <<flush, h, i, r>>
history == <<printed, sent, dropped, raced>>
logvars == <<ring, writer, reader, history>>

LogInit ==
    /\ log_buffer = [s \in Slot |-> 0] /\ log_head = 0 /\ log_tail = 0
    /\ kprint_lock = NULL /\ put = "test" /\ left = 0 /\ drop = 0
    /\ flush = "away" /\ h = 0 /\ i = 0 /\ r = 0
    /\ printed = 0 /\ sent = <<>> /\ dropped = {} /\ raced = FALSE

-----------------------------------------------------------------------------
(* kprint, kprint_hex: spin_irq_save and spin_lock. *)
Kprint(w, n) ==
    /\ kprint_lock = NULL /\ printed + n <= MaxChars
    /\ kprint_lock' = w /\ left' = n
    /\ UNCHANGED <<ring, put, drop, reader, history>>

(* A full ring is told from an empty one by nothing. *)
PutTest_Bug ==
    /\ kprint_lock # NULL /\ put = "test"
    /\ put' = "store"
    /\ UNCHANGED <<ring, kprint_lock, left, drop, reader, history>>

(* log_putc: is there room? *)
PutTest ==
    /\ kprint_lock # NULL /\ put = "test"
    /\ put' = IF Succ(log_head) = log_tail THEN "load" ELSE "store"
    /\ UNCHANGED <<ring, kprint_lock, left, drop, reader, history>>

(* No room: the oldest character is given up. *)
PutLoadTail ==
    /\ put = "load" /\ put' = "drop"
    /\ drop' = log_tail
    /\ UNCHANGED <<ring, kprint_lock, left, reader, history>>

PutStoreTail ==
    /\ put = "drop" /\ put' = "store"
    /\ log_tail' = Succ(drop)
    /\ raced' = (flush \in {"out", "load", "store"})
    /\ dropped' = dropped \cup {log_buffer[drop]}
    /\ drop' = 0
    /\ UNCHANGED <<log_buffer, log_head, kprint_lock, left, reader, printed, sent>>

PutStoreChar ==
    /\ put = "store" /\ put' = "head"
    /\ log_buffer' = [log_buffer EXCEPT ![log_head] = printed + 1]
    /\ UNCHANGED <<log_head, log_tail, kprint_lock, left, drop, reader, history>>

(* The last character of a message releases the lock. *)
PutStoreHead ==
    /\ put = "head" /\ put' = "test"
    /\ log_head' = Succ(log_head)
    /\ printed' = printed + 1
    /\ left' = left - 1
    /\ kprint_lock' = IF left = 1 THEN NULL ELSE kprint_lock
    /\ UNCHANGED <<log_buffer, log_tail, drop, reader, sent, dropped, raced>>

-----------------------------------------------------------------------------
(* main calls log_flush after every interrupt; its first test is the one of *)
(* the loop.                                                                *)
FlushHead ==
    /\ flush \in {"away", "head"} /\ flush' = "tail"
    /\ h' = log_head
    /\ UNCHANGED <<ring, writer, i, r, history>>

(* The loop tests for order, which fails where the ring wraps. *)
FlushTail_Bug ==
    /\ flush = "tail"
    /\ flush' \in IF h <= log_tail THEN {"away"} ELSE {"index", "away"}
    /\ h' = 0
    /\ UNCHANGED <<ring, writer, i, r, history>>

(* The loop ends when the ring is empty or the port is not ready. *)
FlushTail ==
    /\ flush = "tail"
    /\ flush' \in IF h = log_tail THEN {"away"} ELSE {"index", "away"}
    /\ h' = 0
    /\ UNCHANGED <<ring, writer, i, r, history>>

FlushIndex ==
    /\ flush = "index" /\ flush' = "out"
    /\ i' = log_tail
    /\ UNCHANGED <<ring, writer, h, r, history>>

FlushOut ==
    /\ flush = "out" /\ flush' = "load"
    /\ sent' = Append(sent, log_buffer[i])
    /\ i' = 0
    /\ UNCHANGED <<ring, writer, h, r, printed, dropped, raced>>

FlushLoadTail ==
    /\ flush = "load" /\ flush' = "store"
    /\ r' = log_tail
    /\ UNCHANGED <<ring, writer, h, i, history>>

FlushStoreTail ==
    /\ flush = "store" /\ flush' = "head"
    /\ log_tail' = Succ(r)
    /\ raced' = (put \in {"load", "drop"})
    /\ r' = 0
    /\ UNCHANGED <<log_buffer, log_head, writer, h, i, printed, sent, dropped>>

Flush == FlushHead \/ FlushTail \/ FlushIndex \/ FlushOut \/ FlushLoadTail \/ FlushStoreTail
Putc == PutTest \/ PutLoadTail \/ PutStoreTail \/ PutStoreChar \/ PutStoreHead

(* What follows a race is not modelled further. *)
LogNext == ~raced /\ (Flush \/ Putc \/ \E w \in Writer, n \in Lengths : Kprint(w, n))

-----------------------------------------------------------------------------
Used == (log_head - log_tail) % BUFFER_SIZE
Unread == {log_buffer[(log_tail + k) % BUFFER_SIZE] : k \in 0 .. Used - 1}
Sent == {sent[k] : k \in DOMAIN sent}

(* Up to a race on log_tail, the ring holds the last characters printed, in *)
(* order; what is older has been sent in order, once, or given up, and the  *)
(* one that log_flush is about to step over has been sent.                  *)
LogInOrder == ~raced =>
    /\ \A k \in 0 .. Used - 1 :
          log_buffer[(log_tail + k) % BUFFER_SIZE] = printed - Used + 1 + k
    /\ \A j, k \in DOMAIN sent : j < k => sent[j] < sent[k]
    /\ Sent \cap dropped = {}
    /\ Sent \cup dropped = 1 .. printed - Used + IF flush \in {"load", "store"} THEN 1 ELSE 0

(* Every character printed leaves the ring: it is sent or, when the ring is *)
(* full, given up for a newer one.                                          *)
CharLeaves == \A c \in 1 .. MaxChars : (c <= printed) ~> (c \in Sent \cup dropped \/ raced)
=============================================================================
