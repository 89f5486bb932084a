---------------------------- MODULE ConsoleProofs ----------------------------
(***************************************************************************)
(* The two rings between the kernel and its user: LogInOrder of the serial  *)
(* log and KeysAsTyped of the keyboard, for rings of any size and any       *)
(* number of writers, keys and characters.                                  *)
(***************************************************************************)
EXTENDS SerialLog, Keyboard, TLAPS

(* Indices of a ring of N slots: the next one, and the distance. *)
LEMMA RingFacts ==
    ASSUME NEW N \in Nat, N > 1, NEW a \in 0 .. N - 1, NEW b \in 0 .. N - 1
    PROVE  /\ (a + 1) % N = IF a = N - 1 THEN 0 ELSE a + 1
           /\ (a + b) % N = IF a + b < N THEN a + b ELSE a + b - N
           /\ (a - b) % N = IF a >= b THEN a - b ELSE a - b + N
  OBVIOUS

-----------------------------------------------------------------------------
(* The next slot of a ring of N, the distance of two, and the slot k on *)
Inc(N, a) == IF a = N - 1 THEN 0 ELSE a + 1
Gap(N, a, b) == IF a >= b THEN a - b ELSE a - b + N
Cell(N, a, k) == IF a + k < N THEN a + k ELSE a + k - N

LEMMA IncFacts ==
    ASSUME NEW N \in Nat, N > 1, NEW a \in 0 .. N - 1
    PROVE  Inc(N, a) \in 0 .. N - 1 /\ Inc(N, a) # a
  BY DEF Inc

LEMMA GapFacts ==
    ASSUME NEW N \in Nat, N > 1, NEW a \in 0 .. N - 1, NEW b \in 0 .. N - 1
    PROVE  /\ Gap(N, a, b) \in 0 .. N - 1
           /\ Gap(N, a, b) = 0 <=> a = b
           /\ Inc(N, a) = b <=> Gap(N, a, b) = N - 1
           /\ Gap(N, a, b) < N - 1 => Gap(N, Inc(N, a), b) = Gap(N, a, b) + 1
           /\ Gap(N, a, b) > 0 => Gap(N, a, Inc(N, b)) = Gap(N, a, b) - 1
  BY DEF Gap, Inc

LEMMA CellFacts ==
    ASSUME NEW N \in Nat, N > 1, NEW a \in 0 .. N - 1, NEW k \in 0 .. N - 1
    PROVE  /\ Cell(N, a, k) \in 0 .. N - 1
           /\ Cell(N, a, 0) = a
           /\ k > 0 => Cell(N, Inc(N, a), k - 1) = Cell(N, a, k)
           /\ \A b \in 0 .. N - 1 : Cell(N, a, k) = b <=> k = Gap(N, b, a)
  BY DEF Cell, Inc, Gap

LogTypeOK ==
    /\ log_buffer \in [Slot -> Nat] /\ log_head \in Slot /\ log_tail \in Slot
    /\ put \in {"test", "load", "drop", "store", "head"} /\ drop \in Slot
    /\ flush \in {"away", "head", "tail", "index", "out", "load", "store"}
    /\ h \in Slot /\ i \in Slot /\ r \in Slot
    /\ printed \in Nat /\ sent \in Seq(Nat) /\ dropped \in SUBSET Nat

(* What log_putc has found out about the ring stays true while it acts on  *)
(* it: a full ring is full until it drops a character, and from then on    *)
(* there is room.                                                          *)
WriterSure ==
    /\ put \in {"load", "drop"} => Used = BUFFER_SIZE - 1
    /\ put = "drop" => drop = log_tail
    /\ put \in {"store", "head"} => Used < BUFFER_SIZE - 1
    /\ put = "head" => log_buffer[log_head] = printed + 1

(* What log_flush has found out: the ring is not empty. *)
ReaderSure ==
    /\ flush = "tail" /\ h # log_tail => Used > 0
    /\ flush \in {"index", "out", "load", "store"} => Used > 0
    /\ flush = "out" => i = log_tail
    /\ flush = "store" => r = log_tail

Contents ==
    /\ Used <= printed
    /\ \A k \in 0 .. Used - 1 : log_buffer[Cell(BUFFER_SIZE, log_tail, k)] = printed - Used + 1 + k
    /\ \A j, k \in DOMAIN sent : j < k => sent[j] < sent[k]
    /\ Sent \cap dropped = {}
    /\ Sent \cup dropped = 1 .. printed - Used + IF flush \in {"load", "store"} THEN 1 ELSE 0

LogInv == raced \in BOOLEAN /\ (~raced => LogTypeOK /\ WriterSure /\ ReaderSure /\ Contents)

LEMMA SlotFacts ==
    ASSUME NEW a \in Slot, NEW b \in Slot
    PROVE  (a - b) % BUFFER_SIZE = Gap(BUFFER_SIZE, a, b) /\ Succ(a) = Inc(BUFFER_SIZE, a)
<1>1. BUFFER_SIZE \in Nat /\ BUFFER_SIZE > 1 /\ a \in 0 .. BUFFER_SIZE - 1 /\ b \in 0 .. BUFFER_SIZE - 1
  BY LogAssumption DEF Slot
<1> QED
  BY <1>1, RingFacts DEF Succ, Inc, Gap

(* The same for the slots of the log *)
LEMMA LogRing ==
    ASSUME LogTypeOK
    PROVE  /\ BUFFER_SIZE \in Nat /\ BUFFER_SIZE > 2 /\ Slot = 0 .. BUFFER_SIZE - 1
           /\ log_head \in 0 .. BUFFER_SIZE - 1 /\ log_tail \in 0 .. BUFFER_SIZE - 1
           /\ Used = Gap(BUFFER_SIZE, log_head, log_tail) /\ Used \in 0 .. BUFFER_SIZE - 1
           /\ Used = 0 <=> log_head = log_tail
           /\ Succ(log_head) = log_tail <=> Used = BUFFER_SIZE - 1
           /\ Succ(log_head) \in Slot /\ Succ(log_tail) \in Slot
<1>1. BUFFER_SIZE \in Nat /\ BUFFER_SIZE > 2 /\ Slot = 0 .. BUFFER_SIZE - 1
  BY LogAssumption DEF Slot
<1>2. log_head \in 0 .. BUFFER_SIZE - 1 /\ log_tail \in 0 .. BUFFER_SIZE - 1
  BY <1>1 DEF LogTypeOK
<1>3. BUFFER_SIZE > 1
  BY <1>1
<1>4. Used = Gap(BUFFER_SIZE, log_head, log_tail)
  BY SlotFacts DEF Used, LogTypeOK
<1>5. \A a \in Slot : Succ(a) = Inc(BUFFER_SIZE, a)
  BY SlotFacts
<1>6. /\ Gap(BUFFER_SIZE, log_head, log_tail) \in 0 .. BUFFER_SIZE - 1
      /\ Gap(BUFFER_SIZE, log_head, log_tail) = 0 <=> log_head = log_tail
      /\ Inc(BUFFER_SIZE, log_head) = log_tail <=>
            Gap(BUFFER_SIZE, log_head, log_tail) = BUFFER_SIZE - 1
  BY <1>1, <1>2, <1>3, GapFacts
<1>7. Inc(BUFFER_SIZE, log_head) \in Slot /\ Inc(BUFFER_SIZE, log_tail) \in Slot
  BY <1>1, <1>2, <1>3, IncFacts
<1> QED
  BY <1>1, <1>2, <1>4, <1>5, <1>6, <1>7

LEMMA LogInitInv == LogInit => LogInv
<1> SUFFICES ASSUME LogInit PROVE LogInv
  OBVIOUS
<1>1. LogTypeOK
  BY LogAssumption DEF LogInit, LogTypeOK, Slot
<1>2. Used = 0
  BY <1>1, LogRing DEF LogInit
<1>3. Sent = {} /\ dropped = {} /\ DOMAIN sent = {}
  BY DEF LogInit, Sent
<1>4. Contents
  BY <1>2, <1>3 DEF LogInit, Contents
<1>5. WriterSure /\ ReaderSure
  BY DEF LogInit, WriterSure, ReaderSure
<1> QED
  BY <1>1, <1>4, <1>5 DEF LogInit, LogInv

(* Steps that only look do not touch the contents. *)
LEMMA LookStep ==
    ASSUME LogInv, ~raced, FlushHead \/ FlushTail \/ FlushIndex \/ FlushLoadTail
                           \/ PutTest \/ PutLoadTail
                           \/ \E w \in Writer, n \in Lengths : Kprint(w, n)
    PROVE  LogInv'
<1> USE DEF ring, writer, reader, history
<1>1. LogTypeOK /\ WriterSure /\ ReaderSure /\ Contents
  BY DEF LogInv
<1>2. UNCHANGED <<log_buffer, log_head, log_tail, printed, sent, dropped, raced>>
  BY DEF FlushHead, FlushTail, FlushIndex, FlushLoadTail, PutTest, PutLoadTail, Kprint
<1>3. Used' = Used /\ Sent' = Sent
  BY <1>2 DEF Used, Sent
<1>4. LogTypeOK'
  <2>1. put' \in {"test", "load", "drop", "store", "head"}
    BY <1>1 DEF LogTypeOK, FlushHead, FlushTail, FlushIndex, FlushLoadTail, PutTest,
       PutLoadTail, Kprint
  <2>2. flush' \in {"away", "head", "tail", "index", "out", "load", "store"}
    BY <1>1 DEF LogTypeOK, FlushHead, FlushTail, FlushIndex, FlushLoadTail, PutTest,
       PutLoadTail, Kprint
  <2>3. drop' \in Slot /\ h' \in Slot /\ i' \in Slot /\ r' \in Slot
    <3>1. 0 \in Slot
      BY <1>1, LogRing
    <3> QED
      BY <1>1, <3>1 DEF LogTypeOK, FlushHead, FlushTail, FlushIndex, FlushLoadTail, PutTest,
         PutLoadTail, Kprint
  <2> QED
    BY <1>1, <1>2, <2>1, <2>2, <2>3 DEF LogTypeOK
<1>5. WriterSure'
  <2>1. Used \in 0 .. BUFFER_SIZE - 1 /\ (Succ(log_head) = log_tail <=> Used = BUFFER_SIZE - 1)
        /\ BUFFER_SIZE \in Nat
    BY <1>1, LogRing
  <2>2. CASE PutTest
    BY <1>1, <1>2, <1>3, <2>1, <2>2 DEF WriterSure, PutTest
  <2>3. CASE PutLoadTail
    BY <1>1, <1>2, <1>3, <2>3 DEF WriterSure, PutLoadTail
  <2>4. CASE UNCHANGED <<put, drop>>
    BY <1>1, <1>2, <1>3, <2>4 DEF WriterSure
  <2> QED
    BY <2>2, <2>3, <2>4 DEF FlushHead, FlushTail, FlushIndex, FlushLoadTail, Kprint
<1>6. ReaderSure'
  <2>1. log_head # log_tail <=> Used > 0
    BY <1>1, LogRing
  <2> QED
    BY <1>1, <1>2, <1>3, <2>1 DEF ReaderSure, FlushHead, FlushTail, FlushIndex,
       FlushLoadTail, PutTest, PutLoadTail, Kprint
<1>7. Contents'
  <2>1. flush' \in {"load", "store"} <=> flush \in {"load", "store"}
    BY DEF FlushHead, FlushTail, FlushIndex, FlushLoadTail, PutTest, PutLoadTail, Kprint
  <2> QED
    BY <1>1, <1>2, <1>3, <2>1 DEF Contents, Cell
<1> QED
  BY <1>2, <1>4, <1>5, <1>6, <1>7 DEF LogInv

(* The tail moves by one over the oldest character, whoever moves it. *)
LEMMA TailMoves ==
    ASSUME LogTypeOK, Contents, Used > 0, log_tail' = Succ(log_tail),
           UNCHANGED <<log_buffer, log_head, printed>>
    PROVE  /\ log_tail' \in Slot
           /\ Used' = Used - 1
           /\ log_buffer[log_tail] = printed - Used + 1
           /\ \A k \in 0 .. Used' - 1 :
                 log_buffer'[Cell(BUFFER_SIZE, log_tail', k)] = printed' - Used' + 1 + k
<1> DEFINE B == BUFFER_SIZE
<1>1. /\ B \in Nat /\ B > 1 /\ Slot = 0 .. B - 1 /\ log_head \in 0 .. B - 1 /\ log_tail \in 0 .. B - 1
      /\ Used = Gap(B, log_head, log_tail) /\ Used \in 0 .. B - 1 /\ Succ(log_tail) \in Slot
  BY LogRing
<1>2. log_tail' = Inc(B, log_tail) /\ log_tail' \in Slot
  BY <1>1, SlotFacts
<1>3. Used' = Gap(B, log_head, log_tail')
  BY <1>1, <1>2, SlotFacts DEF Used
<1>4. Used' = Used - 1
  BY <1>1, <1>2, <1>3, GapFacts
<1>5. \A k \in 0 .. Used - 1 : log_buffer[Cell(B, log_tail, k)] = printed - Used + 1 + k
  BY DEF Contents
<1>6. printed \in Nat
  BY DEF LogTypeOK
<1>7. log_buffer[log_tail] = printed - Used + 1
  <2>1. Cell(B, log_tail, 0) = log_tail
    BY <1>1, CellFacts
  <2> QED
    BY <1>1, <1>5, <1>6, <2>1
<1>8. ASSUME NEW k \in 0 .. Used' - 1
      PROVE  log_buffer'[Cell(B, log_tail', k)] = printed' - Used' + 1 + k
  <2>1. k + 1 \in 0 .. Used - 1 /\ k + 1 \in 0 .. B - 1 /\ k + 1 > 0 /\ (k + 1) - 1 = k
    BY <1>1, <1>4
  <2>2. Cell(B, log_tail', k) = Cell(B, log_tail, k + 1)
    BY <1>1, <1>2, <2>1, CellFacts
  <2> HIDE DEF B
  <2>3. log_buffer[Cell(B, log_tail, k + 1)] = printed - Used + 1 + (k + 1)
    BY <1>5, <2>1
  <2>4. printed - Used + 1 + (k + 1) = printed' - Used' + 1 + k
    BY <1>1, <1>4, <1>6
  <2> QED
    BY <2>2, <2>3, <2>4
<1> QED
  BY <1>2, <1>4, <1>7, <1>8

LEMMA PutStoreTailStep == ASSUME LogInv, ~raced, PutStoreTail PROVE LogInv'
<1> USE DEF ring, writer, reader, history
<1>1. LogTypeOK /\ WriterSure /\ ReaderSure /\ Contents
  BY DEF LogInv
<1>2. CASE flush \in {"out", "load", "store"}
  BY <1>2 DEF PutStoreTail, LogInv
<1>3. CASE flush \notin {"out", "load", "store"}
  <2>1. /\ put = "drop" /\ put' = "store" /\ log_tail' = Succ(log_tail)
        /\ dropped' = dropped \cup {log_buffer[log_tail]} /\ drop' = 0
        /\ UNCHANGED <<log_buffer, log_head, flush, h, i, r, printed, sent>>
    BY <1>1, <1>3 DEF PutStoreTail, WriterSure
  <2>8. raced' \in BOOLEAN
    BY DEF PutStoreTail
  <2>2. BUFFER_SIZE \in Nat /\ BUFFER_SIZE > 2 /\ 0 \in Slot /\ Used = BUFFER_SIZE - 1 /\ Used > 0
    BY <1>1, <2>1, LogRing DEF WriterSure
  <2>3. /\ log_tail' \in Slot
        /\ Used' = Used - 1
        /\ log_buffer[log_tail] = printed - Used + 1
        /\ \A k \in 0 .. Used' - 1 :
              log_buffer'[Cell(BUFFER_SIZE, log_tail', k)] = printed' - Used' + 1 + k
    BY <1>1, <2>1, <2>2, TailMoves
  <2>4. printed \in Nat /\ Used <= printed /\ Used \in Nat
    BY <1>1, <2>2 DEF LogTypeOK, Contents
  <2>5. LogTypeOK'
    BY <1>1, <2>1, <2>2, <2>3, <2>4 DEF LogTypeOK
  <2>6. WriterSure' /\ ReaderSure'
    BY <1>3, <2>1, <2>2, <2>3, <1>1 DEF WriterSure, ReaderSure
  <2>7. Contents'
    <3>1. Sent' = Sent
      BY <2>1 DEF Sent
    <3>2. /\ Sent \cap dropped = {} /\ Sent \cup dropped = 1 .. printed - Used
          /\ \A j, k \in DOMAIN sent : j < k => sent[j] < sent[k]
      BY <1>1, <1>3, <2>4 DEF Contents
    <3>3. printed - Used + 1 \notin Sent /\ Sent \cap dropped' = {}
      BY <3>2, <2>1, <2>3, <2>4
    <3>4. Sent \cup dropped' = 1 .. printed - Used'
      BY <3>2, <2>1, <2>3, <2>4
    <3> QED
      BY <1>3, <2>1, <2>3, <2>4, <3>1, <3>2, <3>3, <3>4 DEF Contents
  <2> QED
    BY <2>5, <2>6, <2>7, <2>8 DEF LogInv
<1> QED
  BY <1>2, <1>3

LEMMA FlushStoreTailStep == ASSUME LogInv, ~raced, FlushStoreTail PROVE LogInv'
<1> USE DEF ring, writer, reader, history
<1>1. LogTypeOK /\ WriterSure /\ ReaderSure /\ Contents
  BY DEF LogInv
<1>2. CASE put \in {"load", "drop"}
  BY <1>2 DEF FlushStoreTail, LogInv
<1>3. CASE put \notin {"load", "drop"}
  <2>1. /\ flush = "store" /\ flush' = "head" /\ log_tail' = Succ(log_tail) /\ r' = 0
        /\ UNCHANGED <<log_buffer, log_head, put, drop, h, i, printed, sent, dropped>>
    BY <1>1, <1>3 DEF FlushStoreTail, ReaderSure
  <2>8. raced' \in BOOLEAN
    BY DEF FlushStoreTail
  <2>2. BUFFER_SIZE \in Nat /\ BUFFER_SIZE > 2 /\ 0 \in Slot /\ Used \in 0 .. BUFFER_SIZE - 1 /\ Used > 0
    BY <1>1, <2>1, LogRing DEF ReaderSure
  <2>3. /\ log_tail' \in Slot
        /\ Used' = Used - 1
        /\ \A k \in 0 .. Used' - 1 :
              log_buffer'[Cell(BUFFER_SIZE, log_tail', k)] = printed' - Used' + 1 + k
    BY <1>1, <2>1, <2>2, TailMoves
  <2>4. printed \in Nat /\ Used <= printed
    BY <1>1, <2>2 DEF LogTypeOK, Contents
  <2>5. LogTypeOK'
    BY <1>1, <2>1, <2>2, <2>3 DEF LogTypeOK
  <2>6. WriterSure' /\ ReaderSure'
    BY <1>3, <2>1, <2>2, <2>3, <1>1 DEF WriterSure, ReaderSure
  <2>7. Contents'
    <3>1. Sent' = Sent
      BY <2>1 DEF Sent
    <3>2. /\ Sent \cap dropped = {} /\ Sent \cup dropped = 1 .. printed - Used + 1
          /\ \A j, k \in DOMAIN sent : j < k => sent[j] < sent[k]
      BY <1>1, <2>1 DEF Contents
    <3> QED
      BY <2>1, <2>2, <2>3, <2>4, <3>1, <3>2 DEF Contents
  <2> QED
    BY <2>5, <2>6, <2>7, <2>8 DEF LogInv
<1> QED
  BY <1>2, <1>3

LEMMA PutStoreCharStep == ASSUME LogInv, ~raced, PutStoreChar PROVE LogInv'
<1> USE DEF ring, writer, reader, history
<1> DEFINE B == BUFFER_SIZE
<1>1. LogTypeOK /\ WriterSure /\ ReaderSure /\ Contents
  BY DEF LogInv
<1>2. /\ put = "store" /\ put' = "head" /\ log_buffer' = [log_buffer EXCEPT ![log_head] = printed + 1]
      /\ UNCHANGED <<log_head, log_tail, drop, reader, history>>
  BY DEF PutStoreChar
<1>3. Used' = Used /\ Sent' = Sent
  BY <1>2 DEF Used, Sent
<1>4. /\ B \in Nat /\ B > 1 /\ Slot = 0 .. B - 1 /\ log_head \in 0 .. B - 1 /\ log_tail \in 0 .. B - 1
      /\ Used = Gap(B, log_head, log_tail) /\ Used \in 0 .. B - 1
  BY <1>1, LogRing
<1>5. LogTypeOK'
  BY <1>1, <1>2 DEF LogTypeOK
<1>6. WriterSure' /\ ReaderSure'
  BY <1>1, <1>2, <1>3 DEF WriterSure, ReaderSure, LogTypeOK
<1>7. ASSUME NEW k \in 0 .. Used - 1
      PROVE  log_buffer'[Cell(B, log_tail, k)] = printed - Used + 1 + k
  <2>1. k \in 0 .. B - 1 /\ k # Used
    BY <1>4
  <2>2. Cell(B, log_tail, k) # log_head /\ Cell(B, log_tail, k) \in Slot
    BY <1>4, <2>1, CellFacts
  <2>3. log_buffer[Cell(B, log_tail, k)] = printed - Used + 1 + k
    BY <1>1 DEF Contents
  <2> QED
    BY <1>1, <1>2, <2>2, <2>3 DEF LogTypeOK
<1>8. Contents'
  BY <1>1, <1>2, <1>3, <1>7 DEF Contents
<1> QED
  BY <1>2, <1>5, <1>6, <1>8 DEF LogInv

LEMMA PutStoreHeadStep == ASSUME LogInv, ~raced, PutStoreHead PROVE LogInv'
<1> USE DEF ring, writer, reader, history
<1> DEFINE B == BUFFER_SIZE
<1>1. LogTypeOK /\ WriterSure /\ ReaderSure /\ Contents
  BY DEF LogInv
<1>2. /\ put = "head" /\ put' = "test" /\ log_head' = Succ(log_head) /\ printed' = printed + 1
      /\ UNCHANGED <<log_buffer, log_tail, drop, reader, sent, dropped, raced>>
  BY DEF PutStoreHead
<1>3. /\ B \in Nat /\ B > 1 /\ Slot = 0 .. B - 1 /\ log_head \in 0 .. B - 1 /\ log_tail \in 0 .. B - 1
      /\ Used = Gap(B, log_head, log_tail) /\ Used \in 0 .. B - 1 /\ Succ(log_head) \in Slot
  BY <1>1, LogRing
<1>4. Used < B - 1 /\ log_buffer[log_head] = printed + 1
  BY <1>1, <1>2 DEF WriterSure
<1>5. log_head' = Inc(B, log_head) /\ log_head' \in Slot
  BY <1>2, <1>3, SlotFacts
<1>6. Used' = Gap(B, log_head', log_tail)
  BY <1>2, <1>3, <1>5, SlotFacts DEF Used
<1>7. Used' = Used + 1
  BY <1>3, <1>4, <1>5, <1>6, GapFacts
<1>8. printed \in Nat /\ Used <= printed
  BY <1>1 DEF LogTypeOK, Contents
<1>9. LogTypeOK'
  BY <1>1, <1>2, <1>5 DEF LogTypeOK
<1>10. WriterSure' /\ ReaderSure'
  BY <1>1, <1>2, <1>3, <1>7 DEF WriterSure, ReaderSure
<1>11. ASSUME NEW k \in 0 .. Used' - 1
       PROVE  log_buffer[Cell(B, log_tail, k)] = printed' - Used' + 1 + k
  <2>1. CASE k \in 0 .. Used - 1
    <3>1. log_buffer[Cell(B, log_tail, k)] = printed - Used + 1 + k
      BY <1>1, <2>1 DEF Contents
    <3> QED
      BY <1>2, <1>3, <1>7, <1>8, <3>1
  <2>2. CASE k = Used
    <3>1. Cell(B, log_tail, Used) = log_head
      BY <1>3, CellFacts
    <3> QED
      BY <1>2, <1>3, <1>4, <1>7, <1>8, <2>2, <3>1
  <2> QED
    BY <1>3, <1>7, <2>1, <2>2
<1>12. Contents'
  <2>1. Sent' = Sent /\ printed' - Used' = printed - Used /\ Used' <= printed'
    BY <1>2, <1>3, <1>7, <1>8 DEF Sent
  <2> HIDE DEF B
  <2> QED
    BY <1>1, <1>2, <1>11, <2>1 DEF Contents, B
<1> QED
  BY <1>1, <1>2, <1>9, <1>10, <1>12 DEF LogInv

LEMMA FlushOutStep == ASSUME LogInv, ~raced, FlushOut PROVE LogInv'
<1> USE DEF ring, writer, reader, history
<1>1. LogTypeOK /\ WriterSure /\ ReaderSure /\ Contents
  BY DEF LogInv
<1>2. /\ flush = "out" /\ flush' = "load" /\ sent' = Append(sent, log_buffer[log_tail]) /\ i' = 0
      /\ UNCHANGED <<ring, put, drop, h, r, printed, dropped, raced>>
  BY <1>1 DEF FlushOut, ReaderSure
<1>3. Used' = Used
  BY <1>2 DEF Used
<1>4. BUFFER_SIZE \in Nat /\ BUFFER_SIZE > 1 /\ Slot = 0 .. BUFFER_SIZE - 1 /\ log_tail \in 0 .. BUFFER_SIZE - 1
      /\ Used \in 0 .. BUFFER_SIZE - 1 /\ Used > 0 /\ printed \in Nat /\ Used <= printed
  BY <1>1, <1>2, LogRing DEF ReaderSure, LogTypeOK, Contents
<1>5. log_buffer[log_tail] = printed - Used + 1
  <2>1. Cell(BUFFER_SIZE, log_tail, 0) = log_tail /\ 0 \in 0 .. Used - 1
    BY <1>4, CellFacts
  <2> QED
    BY <1>1, <1>4, <2>1 DEF Contents
<1>6. LogTypeOK'
  BY <1>1, <1>2, <1>4, <1>5 DEF LogTypeOK
<1>7. WriterSure' /\ ReaderSure'
  BY <1>1, <1>2, <1>3, <1>4 DEF WriterSure, ReaderSure
<1>8. Contents'
  <2>1. /\ Sent \cap dropped = {} /\ Sent \cup dropped = 1 .. printed - Used
        /\ \A j, k \in DOMAIN sent : j < k => sent[j] < sent[k]
    BY <1>1, <1>2, <1>4 DEF Contents
  <2>2. /\ DOMAIN sent = 1 .. Len(sent) /\ Len(sent) \in Nat /\ DOMAIN sent' = 1 .. Len(sent) + 1
        /\ \A k \in 1 .. Len(sent) : sent'[k] = sent[k]
        /\ sent'[Len(sent) + 1] = printed - Used + 1
    BY <1>1, <1>2, <1>5 DEF LogTypeOK
  <2>3. Sent' = Sent \cup {printed - Used + 1}
    BY <2>2 DEF Sent
  <2>4. \A k \in DOMAIN sent : sent[k] \in 1 .. printed - Used
    BY <2>1 DEF Sent
  <2>5. \A j, k \in DOMAIN sent' : j < k => sent'[j] < sent'[k]
    BY <1>4, <2>1, <2>2, <2>4
  <2>6. Sent' \cap dropped' = {} /\ Sent' \cup dropped' = 1 .. printed - Used + 1
    BY <1>2, <1>4, <2>1, <2>3
  <2> QED
    BY <1>1, <1>2, <1>3, <2>5, <2>6 DEF Contents
<1> QED
  BY <1>1, <1>2, <1>6, <1>7, <1>8 DEF LogInv

(* LogInOrder for a ring of any size, any number of writers and messages.  *)
THEOREM LogIsInOrder == LogInit /\ [][LogNext]_logvars => []LogInOrder
<1>1. LogInv /\ [LogNext]_logvars => LogInv'
  <2> SUFFICES ASSUME LogInv, [LogNext]_logvars PROVE LogInv'
    OBVIOUS
  <2>1. CASE UNCHANGED logvars
    BY <2>1 DEF LogInv, LogTypeOK, WriterSure, ReaderSure, Contents, Used, Sent, Cell, logvars,
       ring, writer, reader, history
  <2>2. CASE LogNext
    BY <2>2, LookStep, PutStoreTailStep, FlushStoreTailStep, PutStoreCharStep,
       PutStoreHeadStep, FlushOutStep DEF LogNext, Flush, Putc
  <2> QED
    BY <2>1, <2>2
<1>2. LogInv => LogInOrder
  <2> SUFFICES ASSUME LogInv, ~raced PROVE LogInOrder
    BY DEF LogInOrder
  <2>1. LogTypeOK /\ Contents
    BY DEF LogInv
  <2>2. /\ BUFFER_SIZE \in Nat /\ BUFFER_SIZE > 1 /\ log_tail \in 0 .. BUFFER_SIZE - 1
        /\ Used \in 0 .. BUFFER_SIZE - 1
    BY <2>1, LogRing
  <2>3. \A k \in 0 .. Used - 1 : (log_tail + k) % BUFFER_SIZE = Cell(BUFFER_SIZE, log_tail, k)
    BY <2>2, RingFacts DEF Cell
  <2> QED
    BY <2>1, <2>3 DEF LogInOrder, Contents
<1> QED
  BY LogInitInv, <1>1, <1>2, PTL

-----------------------------------------------------------------------------
(* The keyboard.  Flag names those of is_shifted, is_caps, is_break and     *)
(* is_extended that are set; After is what the handler makes of them at a   *)
(* byte, Sym the character it puts out when it Emits one.                   *)
Flag == {"shifted", "caps", "break", "extended"}
Byte == {E0, F0, 18, 89, 88, 28, 90, 131}
Char == {"a", "A", "enter"}

After(b, z) ==
    IF b = E0 THEN z \cup {"extended"}
    ELSE IF b = F0 THEN z \cup {"break"}
    ELSE IF "break" \in z THEN z \ ({"break", "extended"} \cup IF IsShift(b) THEN {"shifted"} ELSE {})
    ELSE IF IsShift(b) THEN z \cup {"shifted"}
    ELSE IF b = 88 THEN IF "caps" \in z THEN z \ {"caps"} ELSE z \cup {"caps"}
    ELSE z \ {"extended"}

Emits(b, z) == b \in {28, 90} /\ "break" \notin z
Sym(b, z) == IF b = 90 THEN "enter" ELSE IF "shifted" \in z <=> "caps" \in z THEN "a" ELSE "A"

LEMMA ByteFacts ==
    /\ E0 = 224 /\ F0 = 240
    /\ \A b : IsShift(b) <=> b \in {18, 89}
    /\ \A b : IsPrefix(b) <=> b \in {224, 240}
    /\ Code["caps"] = 88
    /\ DOMAIN Code = {"lshift", "rshift", "caps", "a", "keypad_enter", "f7"}
    /\ Code["lshift"] = 18 /\ Code["rshift"] = 89 /\ Code["a"] = 28
    /\ Code["keypad_enter"] = 90 /\ Code["f7"] = 131
<1>1. /\ DOMAIN Code = {"lshift", "rshift", "caps", "a", "keypad_enter", "f7"}
      /\ Code["lshift"] = 18 /\ Code["rshift"] = 89 /\ Code["a"] = 28
      /\ Code["keypad_enter"] = 90 /\ Code["f7"] = 131 /\ Code["caps"] = 88
  BY DEF Code
<1>2. \A b : IsShift(b) <=> b \in {18, 89}
  BY <1>1 DEF IsShift, Shift
<1> QED
  BY <1>1, <1>2 DEF E0, F0, IsPrefix

LEMMA StepFacts ==
    ASSUME NEW b \in Byte, NEW z \in SUBSET Flag
    PROVE  After(b, z) \in SUBSET Flag /\ (Emits(b, z) => Sym(b, z) \in Char)
  BY DEF After, Emits, Sym, Flag, Char

(* Run: what the handler will make of the bytes w: f[n] are its flags after *)
(* n of them, and K[n] of the characters d are out by then.                 *)
Run(w, d, f, K) ==
    /\ K[0] = 0 /\ K[Len(w)] = Len(d)
    /\ \A m, n \in 0 .. Len(w) : m <= n => K[m] <= K[n]
    /\ \A n \in 1 .. Len(w) :
          /\ f[n] = After(w[n], f[n - 1])
          /\ ~Emits(w[n], f[n - 1]) => K[n] = K[n - 1]
          /\ Emits(w[n], f[n - 1]) => K[n] = K[n - 1] + 1 /\ d[K[n]] = Sym(w[n], f[n - 1])

(* The bytes w lead from the flags y to z and put out d. *)
Decodes(w, d, y, z) ==
    \E f \in [0 .. Len(w) -> SUBSET Flag], K \in [0 .. Len(w) -> Nat] :
        Run(w, d, f, K) /\ f[0] = y /\ f[Len(w)] = z

(* One more byte is sent. *)
LEMMA ByteAppended ==
    ASSUME NEW w \in Seq(Byte), NEW d \in Seq(Char), NEW b \in Byte, NEW y, NEW z, NEW d2 \in Seq(Char),
           Decodes(w, d, y, z),
           d2 = IF Emits(b, z) THEN Append(d, Sym(b, z)) ELSE d
    PROVE  Decodes(Append(w, b), d2, y, After(b, z))
<1> DEFINE L == Len(w)
           v == Append(w, b)
<1>1. PICK f \in [0 .. L -> SUBSET Flag], K \in [0 .. L -> Nat] :
        Run(w, d, f, K) /\ f[0] = y /\ f[L] = z
  BY DEF Decodes
<1>2. L \in Nat /\ Len(v) = L + 1 /\ v[L + 1] = b /\ \A n \in 1 .. L : v[n] = w[n]
  OBVIOUS
<1> DEFINE g == [n \in 0 .. L + 1 |-> IF n <= L THEN f[n] ELSE After(b, z)]
           K2 == [n \in 0 .. L + 1 |-> IF n <= L THEN K[n] ELSE Len(d2)]
<1>3. /\ K2 \in [0 .. L + 1 -> Nat] /\ K2[L + 1] = Len(d2) /\ \A n \in 0 .. L : K2[n] = K[n]
  BY <1>2
<1>4. /\ g \in [0 .. L + 1 -> SUBSET Flag] /\ g[L + 1] = After(b, z) /\ \A n \in 0 .. L : g[n] = f[n]
  <2>1. L \in 0 .. L
    BY <1>2
  <2>2. z \in SUBSET Flag
    BY <1>1, <2>1
  <2>3. After(b, z) \in SUBSET Flag
    BY <2>2, StepFacts
  <2> QED
    BY <1>2, <2>3
<1>5. Len(d) \in Nat /\ Len(d2) = Len(d) + IF Emits(b, z) THEN 1 ELSE 0
  OBVIOUS
<1>6. /\ K[0] = 0 /\ K[L] = Len(d)
      /\ \A m, n \in 0 .. L : m <= n => K[m] <= K[n]
  BY <1>1 DEF Run
<1> HIDE DEF g, K2
<1>7. \A m, n \in 0 .. L + 1 : m <= n => K2[m] <= K2[n]
  <2>1. \A m, n \in 0 .. L : m <= n => K2[m] <= K2[n]
    BY <1>3, <1>6
  <2>2. \A m \in 0 .. L : K[m] <= Len(d) /\ K[m] \in Nat
    <3>1. L \in 0 .. L /\ \A m \in 0 .. L : m <= L
      BY <1>2
    <3> QED
      BY <1>6, <3>1
  <2>3. Len(d) \in Nat /\ Len(d2) \in Nat /\ Len(d) <= Len(d2)
    BY <1>5
  <2>4. \A m \in 0 .. L + 1 : m \in 0 .. L \/ m = L + 1
    BY <1>2
  <2>5. \A m \in 0 .. L + 1 : K2[m] <= K2[L + 1]
    BY <1>3, <2>2, <2>3, <2>4
  <2>6. \A n \in 0 .. L : ~(L + 1 <= n)
    BY <1>2
  <2> QED
    BY <2>1, <2>4, <2>5, <2>6
<1>8. ASSUME NEW n \in 1 .. L
      PROVE  /\ g[n] = After(v[n], g[n - 1])
             /\ ~Emits(v[n], g[n - 1]) => K2[n] = K2[n - 1]
             /\ Emits(v[n], g[n - 1]) => K2[n] = K2[n - 1] + 1 /\ d2[K2[n]] = Sym(v[n], g[n - 1])
  <2>1. n \in 0 .. L /\ n - 1 \in 0 .. L /\ v[n] = w[n] /\ L \in 0 .. L /\ n <= L
    BY <1>2
  <2>2. /\ f[n] = After(w[n], f[n - 1])
        /\ ~Emits(w[n], f[n - 1]) => K[n] = K[n - 1]
        /\ Emits(w[n], f[n - 1]) => K[n] = K[n - 1] + 1 /\ d[K[n]] = Sym(w[n], f[n - 1])
    BY <1>1 DEF Run
  <2>3. K2[n] = K[n] /\ K2[n - 1] = K[n - 1] /\ K[n] \in Nat /\ K[n - 1] \in Nat
        /\ K[n] <= Len(d) /\ g[n] = f[n] /\ g[n - 1] = f[n - 1]
    BY <1>3, <1>4, <1>6, <2>1
  <2>4. K[n] = K[n - 1] + 1 => d2[K[n]] = d[K[n]]
    <3>1. K[n] = K[n - 1] + 1 => K[n] \in 1 .. Len(d)
      BY <2>3
    <3> QED
      BY <3>1
  <2> HIDE DEF v
  <2> QED
    BY <2>1, <2>2, <2>3, <2>4
<1>9. LET n == L + 1 IN
      /\ g[n] = After(v[n], g[n - 1])
      /\ ~Emits(v[n], g[n - 1]) => K2[n] = K2[n - 1]
      /\ Emits(v[n], g[n - 1]) => K2[n] = K2[n - 1] + 1 /\ d2[K2[n]] = Sym(v[n], g[n - 1])
  <2>1. v[L + 1] = b /\ (L + 1) - 1 = L /\ L \in 0 .. L
    BY <1>2
  <2>2. g[L] = z /\ K2[L] = Len(d) /\ K2[L + 1] = Len(d2) /\ Len(d) \in Nat
    BY <1>1, <1>3, <1>4, <1>6, <2>1
  <2>3. Emits(b, z) => d2[Len(d2)] = Sym(b, z)
    BY <1>5
  <2> HIDE DEF v
  <2> QED
    BY <1>4, <1>5, <2>1, <2>2, <2>3
<1>10. Run(v, d2, g, K2)
  <2>1. K2[0] = 0 /\ K2[Len(v)] = Len(d2)
    BY <1>2, <1>3, <1>6
  <2>2. \A n \in 1 .. Len(v) : n \in 1 .. L \/ n = L + 1
    BY <1>2
  <2> HIDE DEF v
  <2> QED
    BY <1>2, <1>7, <1>8, <1>9, <2>1, <2>2 DEF Run
<1>11. g[0] = y /\ g[Len(v)] = After(b, z)
  BY <1>1, <1>2, <1>4
<1>12. g \in [0 .. Len(v) -> SUBSET Flag] /\ K2 \in [0 .. Len(v) -> Nat]
  BY <1>2, <1>3, <1>4
<1> HIDE DEF v
<1>13. Decodes(v, d2, y, After(b, z))
  BY <1>10, <1>11, <1>12 DEF Decodes
<1> QED
  BY <1>13 DEF v

LEMMA ByteSent ==
    ASSUME NEW w \in Seq(Byte), NEW d \in Seq(Char), NEW b \in Byte, NEW y, NEW z \in SUBSET Flag,
           Decodes(w, d, y, z)
    PROVE  /\ Append(w, b) \in Seq(Byte)
           /\ ~Emits(b, z) => Decodes(Append(w, b), d, y, After(b, z))
           /\ Emits(b, z) => Decodes(Append(w, b), Append(d, Sym(b, z)), y, After(b, z))
<1>1. CASE Emits(b, z)
  <2> DEFINE d2 == Append(d, Sym(b, z))
  <2>1. d2 \in Seq(Char) /\ d2 = IF Emits(b, z) THEN Append(d, Sym(b, z)) ELSE d
    BY <1>1, StepFacts
  <2> HIDE DEF d2
  <2>2. Decodes(Append(w, b), d2, y, After(b, z))
    BY <2>1, ByteAppended
  <2> QED
    BY <1>1, <2>2 DEF d2
<1>2. CASE ~Emits(b, z)
  <2>1. d = IF Emits(b, z) THEN Append(d, Sym(b, z)) ELSE d
    BY <1>2
  <2>2. Decodes(Append(w, b), d, y, After(b, z))
    BY <2>1, ByteAppended
  <2> QED
    BY <1>2, <2>2
<1> QED
  BY <1>1, <1>2

(* The first byte is handled: it puts out the first character, or none. *)
LEMMA ByteHandled ==
    ASSUME NEW w \in Seq(Byte), w # <<>>, NEW d \in Seq(Char), NEW y, NEW z, Decodes(w, d, y, z)
    PROVE  /\ Emits(Head(w), y) =>
                 d # <<>> /\ Head(d) = Sym(Head(w), y) /\ Decodes(Tail(w), Tail(d), After(Head(w), y), z)
           /\ ~Emits(Head(w), y) => Decodes(Tail(w), d, After(Head(w), y), z)
<1> DEFINE L == Len(w)
           v == Tail(w)
           b == Head(w)
           d2 == IF Emits(b, y) THEN Tail(d) ELSE d
<1>1. PICK f \in [0 .. L -> SUBSET Flag], K \in [0 .. L -> Nat] :
        Run(w, d, f, K) /\ f[0] = y /\ f[L] = z
  BY DEF Decodes
<1>2. L \in Nat /\ L > 0 /\ Len(v) = L - 1 /\ w[1] = b /\ \A n \in 1 .. L - 1 : v[n] = w[n + 1]
  OBVIOUS
<1>3. /\ K[0] = 0 /\ K[L] = Len(d) /\ Len(d) \in Nat
      /\ \A m, n \in 0 .. L : m <= n => K[m] <= K[n]
  BY <1>1 DEF Run
<1>4. \A n \in 1 .. L :
          /\ f[n] = After(w[n], f[n - 1])
          /\ ~Emits(w[n], f[n - 1]) => K[n] = K[n - 1]
          /\ Emits(w[n], f[n - 1]) => K[n] = K[n - 1] + 1 /\ d[K[n]] = Sym(w[n], f[n - 1])
  BY <1>1 DEF Run
<1> DEFINE g == [n \in 0 .. L - 1 |-> f[n + 1]]
           K2 == [n \in 0 .. L - 1 |-> K[n + 1] - K[1]]
<1> HIDE DEF b
<1>5. /\ f[1] = After(b, y)
      /\ K[1] = (IF Emits(b, y) THEN 1 ELSE 0)
      /\ Emits(b, y) => d[1] = Sym(b, y)
  <2>1. 1 \in 1 .. L /\ 1 - 1 = 0
    BY <1>2
  <2> QED
    BY <1>1, <1>2, <1>3, <1>4, <2>1
<1>6. /\ 1 \in 0 .. L /\ K[1] \in Nat /\ K[1] <= Len(d)
      /\ \A n \in 0 .. L - 1 : n + 1 \in 0 .. L /\ K[n + 1] \in Nat /\ K[1] <= K[n + 1]
  <2>1. 1 \in 0 .. L /\ L \in 0 .. L /\ 1 <= L /\ \A n \in 0 .. L - 1 : n + 1 \in 0 .. L /\ 1 <= n + 1
    BY <1>2
  <2> QED
    BY <1>3, <2>1
<1>7. Emits(b, y) => d # <<>> /\ Head(d) = Sym(b, y)
  BY <1>5, <1>6
<1>8. d2 \in Seq(Char) /\ Len(d2) = Len(d) - K[1] /\ \A n \in 1 .. Len(d2) : d2[n] = d[n + K[1]]
  <2>1. CASE Emits(b, y)
    BY <1>5, <1>7, <2>1
  <2>2. CASE ~Emits(b, y)
    BY <1>5, <2>2
  <2> QED
    BY <2>1, <2>2
<1>9. K2 \in [0 .. L - 1 -> Nat] /\ \A n \in 0 .. L - 1 : K2[n] = K[n + 1] - K[1]
  BY <1>6
<1>10. g \in [0 .. L - 1 -> SUBSET Flag] /\ \A n \in 0 .. L - 1 : g[n] = f[n + 1]
  BY <1>6
<1> HIDE DEF g, K2, d2
<1>11. \A m, n \in 0 .. L - 1 : m <= n => K2[m] <= K2[n]
  <2>1. \A m, n \in 0 .. L - 1 : m <= n => m + 1 <= n + 1
    BY <1>2
  <2> QED
    BY <1>3, <1>6, <1>9, <2>1
<1>12. ASSUME NEW n \in 1 .. L - 1
       PROVE  /\ g[n] = After(v[n], g[n - 1])
              /\ ~Emits(v[n], g[n - 1]) => K2[n] = K2[n - 1]
              /\ Emits(v[n], g[n - 1]) => K2[n] = K2[n - 1] + 1 /\ d2[K2[n]] = Sym(v[n], g[n - 1])
  <2>1. /\ n \in 0 .. L - 1 /\ n - 1 \in 0 .. L - 1 /\ n + 1 \in 1 .. L /\ v[n] = w[n + 1]
        /\ (n + 1) - 1 = n /\ (n - 1) + 1 = n
    BY <1>2
  <2>2. /\ f[n + 1] = After(w[n + 1], f[n])
        /\ ~Emits(w[n + 1], f[n]) => K[n + 1] = K[n]
        /\ Emits(w[n + 1], f[n]) => K[n + 1] = K[n] + 1 /\ d[K[n + 1]] = Sym(w[n + 1], f[n])
    BY <1>4, <2>1
  <2>3. /\ g[n] = f[n + 1] /\ g[n - 1] = f[n]
    BY <1>10, <2>1
  <2>4. /\ K2[n] = K[n + 1] - K[1] /\ K2[n - 1] = K[n] - K[1] /\ K[n + 1] \in Nat /\ K[n] \in Nat
        /\ K[1] \in Nat /\ K[n + 1] <= Len(d) /\ K[1] <= K[n]
    <3>1. L \in 0 .. L /\ n + 1 \in 0 .. L /\ n + 1 <= L
      BY <1>2
    <3> QED
      BY <1>3, <1>6, <1>9, <2>1, <3>1
  <2>5. K[n + 1] = K[n] + 1 => d2[K2[n]] = d[K[n + 1]]
    <3>1. K[n + 1] = K[n] + 1 => K2[n] \in 1 .. Len(d2) /\ K2[n] + K[1] = K[n + 1]
      BY <1>3, <1>8, <2>4
    <3> QED
      BY <1>8, <3>1
  <2> HIDE DEF v
  <2> QED
    BY <2>1, <2>2, <2>3, <2>4, <2>5
<1>13. K2[0] = 0 /\ K2[L - 1] = Len(d2) /\ g[0] = After(b, y) /\ g[L - 1] = z
  <2>1. 0 \in 0 .. L - 1 /\ L - 1 \in 0 .. L - 1 /\ (L - 1) + 1 = L /\ 0 + 1 = 1
    BY <1>2
  <2> QED
    BY <1>1, <1>3, <1>5, <1>6, <1>8, <1>9, <1>10, <2>1
<1>14. Len(v) = L - 1
  BY <1>2
<1> HIDE DEF v, L
<1>15. Run(v, d2, g, K2)
  BY <1>11, <1>12, <1>13, <1>14 DEF Run
<1>16. Decodes(v, d2, After(b, y), z)
  BY <1>9, <1>10, <1>13, <1>14, <1>15 DEF Decodes
<1> QED
  BY <1>7, <1>16 DEF d2, v, b

(* Once the wire is empty the flags are where the user has them. *)
LEMMA NothingSent ==
    ASSUME NEW w, w = <<>>, NEW d \in Seq(Char), NEW y, NEW z, Decodes(w, d, y, z)
    PROVE  d = <<>> /\ y = z
<1>1. PICK f \in [0 .. Len(w) -> SUBSET Flag], K \in [0 .. Len(w) -> Nat] :
        Run(w, d, f, K) /\ f[0] = y /\ f[Len(w)] = z
  BY DEF Decodes
<1>2. Len(w) = 0
  OBVIOUS
<1>3. Len(d) = 0
  BY <1>1, <1>2 DEF Run
<1> QED
  BY <1>1, <1>2, <1>3

LEMMA NothingPending == Decodes(<<>>, <<>>, {}, {})
<1> DEFINE K == [n \in 0 .. 0 |-> 0]
           f == [n \in 0 .. 0 |-> {}]
<1>1. /\ Len(<<>>) = 0 /\ K \in [0 .. 0 -> Nat] /\ K[0] = 0 /\ 1 .. 0 = {} /\ \A n \in 0 .. 0 : n = 0
      /\ f \in [0 .. 0 -> SUBSET Flag] /\ f[0] = {}
  OBVIOUS
<1> HIDE DEF K, f
<1>2. Run(<<>>, <<>>, f, K)
  BY <1>1 DEF Run
<1> QED
  BY <1>1, <1>2 DEF Decodes

(* A key is pressed or repeats, and is released: its bytes lead to the flags *)
(* the user means.                                                           *)
Pressed(k, z) ==
    IF k \in Shift THEN z \cup {"shifted"}
    ELSE IF k # "caps" THEN z
    ELSE IF "caps" \in z THEN z \ {"caps"} ELSE z \cup {"caps"}

LEMMA CodeFacts ==
    ASSUME NEW k \in DOMAIN Code
    PROVE  /\ Code[k] \in Byte /\ Code[k] # E0 /\ Code[k] # F0
           /\ IsShift(Code[k]) <=> k \in Shift
           /\ Code[k] = 88 <=> k = "caps"
           /\ Code[k] \in {28, 90} <=> k \in {"a", "keypad_enter"}
<1>1. Code[k] \in {18, 89, 88, 28, 90, 131} /\ (Code[k] \in {18, 89} <=> k \in Shift)
      /\ (Code[k] = 88 <=> k = "caps") /\ (Code[k] \in {28, 90} <=> k \in {"a", "keypad_enter"})
  BY ByteFacts DEF Shift
<1>2. Code[k] \in Byte
  BY <1>1 DEF Byte
<1>3. Code[k] # E0 /\ Code[k] # F0
  BY <1>1 DEF E0, F0
<1>4. IsShift(Code[k]) <=> k \in Shift
  BY <1>1, ByteFacts
<1> QED
  BY <1>1, <1>2, <1>3, <1>4

LEMMA PrefixFacts == E0 \in Byte /\ F0 \in Byte /\ E0 # F0 /\ E0 \notin {28, 90} /\ F0 \notin {28, 90}
  BY DEF Byte, E0, F0

LEMMA MakeSent ==
    ASSUME NEW w \in Seq(Byte), NEW d \in Seq(Char), NEW y, NEW z \in SUBSET {"shifted", "caps"},
           Decodes(w, d, y, z), NEW k \in DOMAIN Code, NEW d2 \in Seq(Char),
           d2 = IF k \in {"a", "keypad_enter"} THEN Append(d, Sym(Code[k], z)) ELSE d
    PROVE  LET v == IF k = "keypad_enter" THEN Append(w, E0) ELSE w IN
           Decodes(Append(v, Code[k]), d2, y, Pressed(k, z))
<1> DEFINE v == IF k = "keypad_enter" THEN Append(w, E0) ELSE w
           x == IF k = "keypad_enter" THEN z \cup {"extended"} ELSE z
<1>1. v \in Seq(Byte) /\ Decodes(v, d, y, x)
  <2>1. After(E0, z) = z \cup {"extended"} /\ ~Emits(E0, z)
    BY PrefixFacts DEF After, Emits
  <2>2. Append(w, E0) \in Seq(Byte) /\ Decodes(Append(w, E0), d, y, z \cup {"extended"})
    <3>1. z \in SUBSET Flag
      BY DEF Flag
    <3>2. Append(w, E0) \in Seq(Byte) /\ Decodes(Append(w, E0), d, y, After(E0, z))
      BY <2>1, <3>1, PrefixFacts, ByteSent
    <3> QED
      BY <2>1, <3>2
  <2> QED
    BY <2>2
<1>2. (Emits(Code[k], x) <=> k \in {"a", "keypad_enter"}) /\ Sym(Code[k], x) = Sym(Code[k], z)
  BY CodeFacts DEF Emits, Sym
<1>3. After(Code[k], x) = Pressed(k, z)
  <2>1. CASE k = "keypad_enter"
    <3>1. After(Code[k], x) = x \ {"extended"} /\ Pressed(k, z) = z /\ x = z \cup {"extended"}
      BY <2>1, CodeFacts DEF After, Pressed, Shift
    <3> HIDE DEF x
    <3> QED
      BY <3>1, Zenon
  <2>2. CASE k # "keypad_enter"
    <3>1. "break" \notin z /\ z \ {"extended"} = z
      OBVIOUS
    <3> QED
      BY <2>2, <3>1, CodeFacts DEF After, Pressed
  <2> QED
    BY <2>1, <2>2
<1>5. x \in SUBSET Flag
  BY DEF Flag
<1> HIDE DEF v, x
<1>4. Decodes(Append(v, Code[k]), d2, y, After(Code[k], x))
  BY <1>1, <1>2, <1>5, CodeFacts, ByteSent
<1> QED
  BY <1>3, <1>4 DEF v

LEMMA BreakSent ==
    ASSUME NEW w \in Seq(Byte), NEW d \in Seq(Char), NEW y, NEW z \in SUBSET {"shifted", "caps"},
           Decodes(w, d, y, z), NEW k \in DOMAIN Code
    PROVE  LET v == IF k = "keypad_enter" THEN Append(w, E0) ELSE w IN
           Decodes(Append(Append(v, F0), Code[k]), d, y, IF k \in Shift THEN z \ {"shifted"} ELSE z)
<1> DEFINE v == IF k = "keypad_enter" THEN Append(w, E0) ELSE w
           x == IF k = "keypad_enter" THEN z \cup {"extended"} ELSE z
<1>1. v \in Seq(Byte) /\ Decodes(v, d, y, x)
  <2>1. After(E0, z) = z \cup {"extended"} /\ ~Emits(E0, z)
    BY PrefixFacts DEF After, Emits
  <2>2. Append(w, E0) \in Seq(Byte) /\ Decodes(Append(w, E0), d, y, z \cup {"extended"})
    <3>1. z \in SUBSET Flag
      BY DEF Flag
    <3>2. Append(w, E0) \in Seq(Byte) /\ Decodes(Append(w, E0), d, y, After(E0, z))
      BY <2>1, <3>1, PrefixFacts, ByteSent
    <3> QED
      BY <2>1, <3>2
  <2> QED
    BY <2>2
<1>2. x \in SUBSET {"shifted", "caps", "extended"} /\ x \ {"extended"} = z
  OBVIOUS
<1> HIDE DEF v, x
<1>3. Append(v, F0) \in Seq(Byte) /\ Decodes(Append(v, F0), d, y, x \cup {"break"})
  <2>1. After(F0, x) = x \cup {"break"} /\ ~Emits(F0, x)
    BY PrefixFacts DEF After, Emits
  <2> QED
    <3>1. x \in SUBSET Flag
      BY <1>2 DEF Flag
    <3>2. Append(v, F0) \in Seq(Byte) /\ Decodes(Append(v, F0), d, y, After(F0, x))
      BY <1>1, <2>1, <3>1, PrefixFacts, ByteSent
    <3> QED
      BY <2>1, <3>2
<1>4. ~Emits(Code[k], x \cup {"break"})
  BY DEF Emits
<1>5. After(Code[k], x \cup {"break"}) = IF k \in Shift THEN z \ {"shifted"} ELSE z
  <2>1. After(Code[k], x \cup {"break"}) = (x \cup {"break"}) \
            ({"break", "extended"} \cup IF k \in Shift THEN {"shifted"} ELSE {})
    BY CodeFacts DEF After
  <2> QED
    BY <1>2, <2>1
<1>6. Decodes(Append(Append(v, F0), Code[k]), d, y, After(Code[k], x \cup {"break"}))
  <2>1. x \cup {"break"} \in SUBSET Flag
    BY <1>2 DEF Flag
  <2> DEFINE u == Append(v, F0)
             x2 == x \cup {"break"}
  <2>2. u \in Seq(Byte) /\ Decodes(u, d, y, x2) /\ ~Emits(Code[k], x2) /\ x2 \in SUBSET Flag
        /\ Code[k] \in Byte
    BY <1>3, <1>4, <2>1, CodeFacts
  <2> HIDE DEF u, x2
  <2>3. Decodes(Append(u, Code[k]), d, y, After(Code[k], x2))
    BY <2>2, ByteSent
  <2> QED
    BY <2>3 DEF u, x2
<1> QED
  BY <1>5, <1>6 DEF v

-----------------------------------------------------------------------------
(* The characters q lie in the ring from t to before h. *)
Holds(buf, hd, tl, q) ==
    /\ Len(q) = Gap(KBD_BUF_SIZE, hd, tl)
    /\ \A n \in 1 .. Len(q) : buf[Cell(KBD_BUF_SIZE, tl, n - 1)] = q[n]

Place == 0 .. KBD_BUF_SIZE - 1

LEMMA WrapFacts ==
    ASSUME NEW a \in Place
    PROVE  /\ KBD_BUF_SIZE \in Nat /\ KBD_BUF_SIZE > 1
           /\ Wrap(a) = Inc(KBD_BUF_SIZE, a) /\ Wrap(a) \in Place
<1>1. KBD_BUF_SIZE \in Nat /\ KBD_BUF_SIZE > 1 /\ a \in 0 .. KBD_BUF_SIZE - 1
  BY KbdAssumption DEF Place
<1>2. Wrap(a) = Inc(KBD_BUF_SIZE, a)
  BY <1>1, RingFacts DEF Wrap, Inc
<1> QED
  BY <1>1, <1>2, IncFacts DEF Place

LEMMA RingPush ==
    ASSUME NEW buf \in [Place -> Char \cup {"none"}], NEW hd \in Place, NEW tl \in Place,
           NEW q \in Seq(Char), NEW c \in Char, Holds(buf, hd, tl, q), Wrap(hd) # tl
    PROVE  Holds([buf EXCEPT ![hd] = c], Wrap(hd), tl, Append(q, c))
<1> DEFINE N == KBD_BUF_SIZE
           b2 == [buf EXCEPT ![hd] = c]
           q2 == Append(q, c)
<1>1. N \in Nat /\ N > 1 /\ hd \in 0 .. N - 1 /\ tl \in 0 .. N - 1 /\ Wrap(hd) = Inc(N, hd)
  BY WrapFacts DEF Place
<1>2. /\ Len(q) = Gap(N, hd, tl) /\ Gap(N, hd, tl) \in 0 .. N - 1 /\ Gap(N, hd, tl) # N - 1
      /\ Gap(N, Inc(N, hd), tl) = Gap(N, hd, tl) + 1
  <2>1. Len(q) = Gap(N, hd, tl) /\ Inc(N, hd) # tl
    BY <1>1 DEF Holds
  <2>2. /\ Gap(N, hd, tl) \in 0 .. N - 1
        /\ Inc(N, hd) = tl <=> Gap(N, hd, tl) = N - 1
        /\ Gap(N, hd, tl) < N - 1 => Gap(N, Inc(N, hd), tl) = Gap(N, hd, tl) + 1
    BY <1>1, GapFacts
  <2> QED
    BY <1>1, <2>1, <2>2
<1>3. ASSUME NEW n \in 1 .. Len(q) + 1
      PROVE  b2[Cell(N, tl, n - 1)] = q2[n]
  <2>1. n - 1 \in 0 .. N - 1
    BY <1>1, <1>2
  <2>2. Cell(N, tl, n - 1) \in 0 .. N - 1 /\ (Cell(N, tl, n - 1) = hd <=> n - 1 = Gap(N, hd, tl))
    <3> DEFINE m == n - 1
    <3>1. m \in 0 .. N - 1
      BY <2>1
    <3> HIDE DEF m
    <3>2. N \in Nat /\ N > 1 /\ hd \in 0 .. N - 1 /\ tl \in 0 .. N - 1
      BY <1>1
    <3> HIDE DEF N
    <3>3. Cell(N, tl, m) \in 0 .. N - 1 /\ (Cell(N, tl, m) = hd <=> m = Gap(N, hd, tl))
      BY <3>1, <3>2, CellFacts
    <3> QED
      BY <3>3 DEF m
  <2>3. CASE n = Len(q) + 1
    <3>1. Cell(N, tl, n - 1) = hd
      BY <1>2, <2>2, <2>3
    <3> QED
      BY <2>3, <3>1
  <2>4. CASE n \in 1 .. Len(q)
    <3>1. Cell(N, tl, n - 1) # hd /\ Cell(N, tl, n - 1) \in Place
      BY <1>2, <2>2, <2>4 DEF Place
    <3>2. buf[Cell(N, tl, n - 1)] = q[n]
      BY <2>4 DEF Holds
    <3> QED
      BY <2>4, <3>1, <3>2
  <2> QED
    BY <2>3, <2>4
<1>4. Len(q2) = Len(q) + 1
  OBVIOUS
<1> HIDE DEF b2, q2
<1>5. Holds(b2, Wrap(hd), tl, q2)
  BY <1>1, <1>2, <1>3, <1>4 DEF Holds
<1> QED
  BY <1>5 DEF b2, q2

LEMMA RingPop ==
    ASSUME NEW buf, NEW hd \in Place, NEW tl \in Place,
           NEW q \in Seq(Char), Holds(buf, hd, tl, q), hd # tl
    PROVE  q # <<>> /\ Holds(buf, hd, Wrap(tl), Tail(q))
<1> DEFINE N == KBD_BUF_SIZE
           q2 == Tail(q)
<1>1. N \in Nat /\ N > 1 /\ hd \in 0 .. N - 1 /\ tl \in 0 .. N - 1 /\ Wrap(tl) = Inc(N, tl)
  BY WrapFacts DEF Place
<1>2. /\ Gap(N, hd, tl) \in 0 .. N - 1
      /\ Gap(N, hd, tl) = 0 <=> hd = tl
      /\ Gap(N, hd, tl) > 0 => Gap(N, hd, Inc(N, tl)) = Gap(N, hd, tl) - 1
  BY <1>1, GapFacts
<1>3. /\ Len(q) = Gap(N, hd, tl) /\ Len(q) \in 1 .. N - 1
      /\ Gap(N, hd, Inc(N, tl)) = Len(q) - 1
  BY <1>1, <1>2 DEF Holds
<1>4. Len(q2) = Len(q) - 1 /\ q # <<>> /\ \A n \in 1 .. Len(q) - 1 : q2[n] = q[n + 1]
  BY <1>3
<1>5. ASSUME NEW n \in 1 .. Len(q) - 1
      PROVE  buf[Cell(N, Inc(N, tl), n - 1)] = q2[n]
  <2>1. n \in 0 .. N - 1 /\ n > 0 /\ n + 1 \in 1 .. Len(q) /\ (n + 1) - 1 = n
    BY <1>1, <1>3
  <2>2. Cell(N, Inc(N, tl), n - 1) = Cell(N, tl, n)
    BY <1>1, <2>1, CellFacts
  <2>3. buf[Cell(N, tl, n)] = q[n + 1]
    BY <2>1 DEF Holds
  <2> QED
    BY <1>4, <2>2, <2>3
<1> HIDE DEF q2
<1>6. Holds(buf, hd, Wrap(tl), q2)
  BY <1>1, <1>3, <1>4, <1>5 DEF Holds
<1> QED
  BY <1>4, <1>6 DEF q2

-----------------------------------------------------------------------------
HandlerFlags ==
    (IF is_shifted THEN {"shifted"} ELSE {}) \cup (IF is_caps THEN {"caps"} ELSE {})
    \cup (IF is_break THEN {"break"} ELSE {}) \cup (IF is_extended THEN {"extended"} ELSE {})

UserFlags ==
    (IF down \cap Shift # {} THEN {"shifted"} ELSE {}) \cup (IF caps_on THEN {"caps"} ELSE {})

KbdTypeOK ==
    /\ down \subseteq DOMAIN Code /\ caps_on \in BOOLEAN
    /\ wire \in Seq(Byte) /\ due \in Seq(Char)
    /\ is_caps \in BOOLEAN /\ is_break \in BOOLEAN
    /\ is_shifted \in BOOLEAN /\ is_extended \in BOOLEAN
    /\ kbd_buffer \in [Place -> Char \cup {"none"}] /\ kbd_head \in Place /\ kbd_tail \in Place
    /\ queue \in Seq(Char)

(* The bytes on the wire lead the handler from where it is to where the user *)
(* is, and put out what is due; the ring holds the queue.                    *)
KbdInv ==
    /\ odd \in BOOLEAN
    /\ ~odd => /\ KbdTypeOK
               /\ ~(Shift \subseteq down)
               /\ Decodes(wire, due, HandlerFlags, UserFlags)
               /\ Holds(kbd_buffer, kbd_head, kbd_tail, queue)

LEMMA KbdInitInv == KbdInit => KbdInv
<1> SUFFICES ASSUME KbdInit PROVE KbdInv
  OBVIOUS
<1>1. KBD_BUF_SIZE \in Nat /\ KBD_BUF_SIZE > 1 /\ 0 \in Place /\ Place = 0 .. KBD_BUF_SIZE - 1
  BY KbdAssumption DEF Place
<1>2. KbdTypeOK
  <2>1. kbd_buffer \in [Place -> Char \cup {"none"}]
    BY <1>1 DEF KbdInit
  <2>2. down \subseteq DOMAIN Code /\ wire \in Seq(Byte) /\ due \in Seq(Char) /\ queue \in Seq(Char)
    BY DEF KbdInit
  <2>3. /\ caps_on \in BOOLEAN /\ is_caps \in BOOLEAN /\ is_break \in BOOLEAN
        /\ is_shifted \in BOOLEAN /\ is_extended \in BOOLEAN
    BY DEF KbdInit
  <2> QED
    BY <1>1, <2>1, <2>2, <2>3 DEF KbdInit, KbdTypeOK
<1>3. HandlerFlags = {} /\ UserFlags = {}
  BY DEF KbdInit, HandlerFlags, UserFlags
<1>4. Decodes(wire, due, HandlerFlags, UserFlags)
  BY <1>3, NothingPending DEF KbdInit
<1>5. Holds(kbd_buffer, kbd_head, kbd_tail, queue)
  BY <1>1, GapFacts DEF KbdInit, Holds
<1> QED
  BY <1>2, <1>4, <1>5 DEF KbdInit, KbdInv, Shift

LEMMA SameFlags ==
    ASSUME NEW y \in SUBSET {"shifted", "caps"}, NEW z \in SUBSET {"shifted", "caps"},
           "shifted" \in y <=> "shifted" \in z, "caps" \in y <=> "caps" \in z
    PROVE  y = z
<1>1. \A x : x \in y <=> x \in z
  OBVIOUS
<1> QED
  BY <1>1, Zenon

LEMMA SameHandlerFlags ==
    ASSUME NEW y \in SUBSET Flag, NEW z \in SUBSET Flag, \A x \in Flag : x \in y <=> x \in z
    PROVE  y = z
  OBVIOUS

LEMMA MeantFacts ==
    ASSUME KbdTypeOK, NEW k \in DOMAIN Code
    PROVE  /\ Meant(k) = "none" <=> k \notin {"a", "keypad_enter"}
           /\ k \in {"a", "keypad_enter"} => Meant(k) = Sym(Code[k], UserFlags) /\ Meant(k) \in Char
<1> DEFINE up == (down \cap Shift # {}) # caps_on
<1>1. up <=> ~("shifted" \in UserFlags <=> "caps" \in UserFlags)
  BY DEF UserFlags, KbdTypeOK
<1>2. up \in BOOLEAN
  OBVIOUS
<1>3. Meant(k) = Ascii(Code[k], up)
  BY DEF Meant
<1> HIDE DEF up
<1>4. /\ Code[k] \in {18, 89, 88, 28, 90, 131} /\ (Code[k] \in {28, 90} <=> k \in {"a", "keypad_enter"})
  BY ByteFacts
<1> QED
  BY <1>1, <1>2, <1>3, <1>4 DEF Ascii, Sym, Char

LEMMA UserFlagsType == UserFlags \in SUBSET {"shifted", "caps"}
  BY DEF UserFlags

LEMMA SendMake ==
    ASSUME wire \in Seq(Byte), NEW k \in DOMAIN Code, Send(k, <<Code[k]>>)
    PROVE  wire' = Append(IF k = "keypad_enter" THEN Append(wire, E0) ELSE wire, Code[k])
<1>1. CASE k = "keypad_enter"
  <2>1. wire' = wire \o (<<E0>> \o <<Code[k]>>)
    BY <1>1 DEF Send
  <2>2. wire \o (<<E0>> \o <<Code[k]>>) = Append(Append(wire, E0), Code[k])
    BY PrefixFacts, CodeFacts
  <2> QED
    BY <1>1, <2>1, <2>2
<1>2. CASE k # "keypad_enter"
  <2>1. wire' = wire \o <<Code[k]>>
    BY <1>2 DEF Send
  <2>2. wire \o <<Code[k]>> = Append(wire, Code[k])
    BY CodeFacts
  <2> QED
    BY <1>2, <2>1, <2>2
<1> QED
  BY <1>1, <1>2

LEMMA SendBreak ==
    ASSUME wire \in Seq(Byte), NEW k \in DOMAIN Code, Send(k, <<F0, Code[k]>>)
    PROVE  wire' = Append(Append(IF k = "keypad_enter" THEN Append(wire, E0) ELSE wire, F0), Code[k])
<1>1. CASE k = "keypad_enter"
  <2>1. wire' = wire \o (<<E0>> \o <<F0, Code[k]>>)
    BY <1>1 DEF Send
  <2>2. wire \o (<<E0>> \o <<F0, Code[k]>>) = Append(Append(Append(wire, E0), F0), Code[k])
    BY PrefixFacts, CodeFacts
  <2> QED
    BY <1>1, <2>1, <2>2
<1>2. CASE k # "keypad_enter"
  <2>1. wire' = wire \o <<F0, Code[k]>>
    BY <1>2 DEF Send
  <2>2. wire \o <<F0, Code[k]>> = Append(Append(wire, F0), Code[k])
    BY PrefixFacts, CodeFacts
  <2> QED
    BY <1>2, <2>1, <2>2
<1> QED
  BY <1>1, <1>2

LEMMA MakeStep ==
    ASSUME KbdTypeOK, Decodes(wire, due, HandlerFlags, UserFlags), NEW k \in DOMAIN Code, Make(k),
           UserFlags' = Pressed(k, UserFlags)
    PROVE  /\ wire' \in Seq(Byte) /\ due' \in Seq(Char) /\ UNCHANGED <<flags, buffer>>
           /\ Decodes(wire', due', HandlerFlags, UserFlags')
<1> DEFINE v == IF k = "keypad_enter" THEN Append(wire, E0) ELSE wire
           d2 == IF k \in {"a", "keypad_enter"} THEN Append(due, Sym(Code[k], UserFlags)) ELSE due
<1>1. wire \in Seq(Byte) /\ due \in Seq(Char) /\ wire' = Append(v, Code[k]) /\ v \in Seq(Byte)
  BY SendMake, PrefixFacts DEF KbdTypeOK, Make
<1>2. due' = d2 /\ d2 \in Seq(Char)
  BY MeantFacts DEF Make, KbdTypeOK
<1>3. wire' \in Seq(Byte)
  BY <1>1, CodeFacts
<1>4. Decodes(Append(v, Code[k]), due', HandlerFlags, Pressed(k, UserFlags))
  BY <1>1, <1>2, MakeSent, UserFlagsType
<1> QED
  BY <1>1, <1>2, <1>3, <1>4 DEF Make

LEMMA PressStep ==
    ASSUME KbdInv, ~odd, NEW k \in Key, Press(k) PROVE KbdInv'
<1>1. /\ KbdTypeOK /\ ~(Shift \subseteq down) /\ Decodes(wire, due, HandlerFlags, UserFlags)
      /\ Holds(kbd_buffer, kbd_head, kbd_tail, queue)
  BY DEF KbdInv
<1>2. k \in DOMAIN Code
  BY KbdAssumption
<1>3. odd' \in BOOLEAN
  BY DEF Press
<1>4. CASE odd'
  BY <1>3, <1>4 DEF KbdInv
<1>5. CASE ~odd'
  <2>1. /\ k \notin down /\ down' = down \cup {k} /\ caps_on' = (caps_on # (k = "caps"))
        /\ k \in Shift => down \cap Shift = {}
        /\ Make(k)
    BY <1>5 DEF Press
  <2>2. UserFlags' = Pressed(k, UserFlags)
    <3>1. "shifted" \in UserFlags' <=> ("shifted" \in UserFlags \/ k \in Shift)
      BY <2>1 DEF UserFlags
    <3>2. "caps" \in UserFlags' <=> ~("caps" \in UserFlags <=> k = "caps")
      BY <1>1, <2>1 DEF UserFlags, KbdTypeOK
    <3>3. UserFlags' \in SUBSET {"shifted", "caps"} /\ UserFlags \in SUBSET {"shifted", "caps"}
      BY DEF UserFlags
    <3>4. "caps" \notin Shift
      BY DEF Shift
    <3>5. Pressed(k, UserFlags) \in SUBSET {"shifted", "caps"}
      BY <3>3 DEF Pressed
    <3>6. "shifted" \in Pressed(k, UserFlags) <=> ("shifted" \in UserFlags \/ k \in Shift)
      BY DEF Pressed
    <3>7. "caps" \in Pressed(k, UserFlags) <=> ~("caps" \in UserFlags <=> k = "caps")
      BY <3>4 DEF Pressed
    <3>8. "shifted" \in UserFlags' <=> "shifted" \in Pressed(k, UserFlags)
      BY <3>1, <3>6
    <3>9. "caps" \in UserFlags' <=> "caps" \in Pressed(k, UserFlags)
      BY <3>2, <3>7
    <3> QED
      BY <3>3, <3>5, <3>8, <3>9, SameFlags
  <2>3. /\ wire' \in Seq(Byte) /\ due' \in Seq(Char) /\ UNCHANGED <<flags, buffer>>
        /\ Decodes(wire', due', HandlerFlags, UserFlags')
    BY <1>1, <1>2, <2>1, <2>2, MakeStep
  <2>4. HandlerFlags' = HandlerFlags
    BY <2>3 DEF HandlerFlags, flags
  <2>5. KbdTypeOK'
    BY <1>1, <1>2, <2>1, <2>3 DEF KbdTypeOK, flags, buffer
  <2>6. ~(Shift \subseteq down')
    BY <1>1, <2>1 DEF Shift
  <2>7. Holds(kbd_buffer, kbd_head, kbd_tail, queue)'
    BY <1>1, <2>3 DEF buffer, Holds
  <2> QED
    BY <1>3, <2>3, <2>4, <2>5, <2>6, <2>7 DEF KbdInv
<1> QED
  BY <1>3, <1>4, <1>5

LEMMA RepeatStep ==
    ASSUME KbdInv, ~odd, NEW k \in Key, Repeat(k) PROVE KbdInv'
<1>1. /\ KbdTypeOK /\ ~(Shift \subseteq down) /\ Decodes(wire, due, HandlerFlags, UserFlags)
      /\ Holds(kbd_buffer, kbd_head, kbd_tail, queue)
  BY DEF KbdInv
<1>2. k \in DOMAIN Code
  BY KbdAssumption
<1>3. odd' \in BOOLEAN
  BY DEF Repeat
<1>4. CASE odd'
  BY <1>3, <1>4 DEF KbdInv
<1>5. CASE ~odd'
  <2>1. k \in down /\ k # "caps" /\ UNCHANGED <<down, caps_on>> /\ Make(k)
    BY <1>5 DEF Repeat
  <2>2. UserFlags' = Pressed(k, UserFlags)
    <3>1. UserFlags' = UserFlags /\ (k \in Shift => "shifted" \in UserFlags)
      BY <2>1 DEF UserFlags
    <3> QED
      BY <2>1, <3>1 DEF Pressed
  <2>3. /\ wire' \in Seq(Byte) /\ due' \in Seq(Char) /\ UNCHANGED <<flags, buffer>>
        /\ Decodes(wire', due', HandlerFlags, UserFlags')
    BY <1>1, <1>2, <2>1, <2>2, MakeStep
  <2>4. HandlerFlags' = HandlerFlags
    BY <2>3 DEF HandlerFlags, flags
  <2>5. KbdTypeOK' /\ ~(Shift \subseteq down')
    BY <1>1, <2>1, <2>3 DEF KbdTypeOK, flags, buffer
  <2>6. Holds(kbd_buffer, kbd_head, kbd_tail, queue)'
    BY <1>1, <2>3 DEF buffer, Holds
  <2> QED
    BY <1>3, <2>3, <2>4, <2>5, <2>6 DEF KbdInv
<1> QED
  BY <1>3, <1>4, <1>5

LEMMA ReleaseStep ==
    ASSUME KbdInv, ~odd, NEW k \in Key, Release(k) PROVE KbdInv'
<1> DEFINE v == IF k = "keypad_enter" THEN Append(wire, E0) ELSE wire
<1>1. /\ KbdTypeOK /\ ~(Shift \subseteq down) /\ Decodes(wire, due, HandlerFlags, UserFlags)
      /\ Holds(kbd_buffer, kbd_head, kbd_tail, queue) /\ wire \in Seq(Byte) /\ due \in Seq(Char)
  BY DEF KbdInv, KbdTypeOK
<1>2. k \in DOMAIN Code
  BY KbdAssumption
<1>3. /\ k \in down /\ down' = down \ {k} /\ Send(k, <<F0, Code[k]>>)
      /\ UNCHANGED <<caps_on, due, odd, flags, buffer>>
  BY DEF Release
<1>4. wire' = Append(Append(v, F0), Code[k]) /\ v \in Seq(Byte)
  BY <1>1, <1>2, <1>3, SendBreak, PrefixFacts
<1>5. wire' \in Seq(Byte)
  BY <1>2, <1>4, CodeFacts, PrefixFacts
<1>6. UserFlags' = IF k \in Shift THEN UserFlags \ {"shifted"} ELSE UserFlags
  <2>1. k \in Shift => down' \cap Shift = {}
    BY <1>1, <1>3 DEF Shift
  <2>2. k \notin Shift => down' \cap Shift = down \cap Shift
    BY <1>3
  <2> QED
    BY <1>3, <2>1, <2>2 DEF UserFlags
<1>7. Decodes(wire', due, HandlerFlags, UserFlags')
  BY <1>1, <1>2, <1>4, <1>6, BreakSent, UserFlagsType
<1>8. HandlerFlags' = HandlerFlags
  BY <1>3 DEF HandlerFlags, flags
<1>9. KbdTypeOK' /\ ~(Shift \subseteq down')
  BY <1>1, <1>3, <1>5 DEF KbdTypeOK, flags, buffer
<1>10. Holds(kbd_buffer, kbd_head, kbd_tail, queue)'
  BY <1>1, <1>3 DEF buffer, Holds
<1> QED
  BY <1>3, <1>7, <1>8, <1>9, <1>10 DEF KbdInv

LEMMA HandlerFlagsFacts ==
    /\ HandlerFlags \in SUBSET Flag
    /\ "shifted" \in HandlerFlags <=> is_shifted
    /\ "caps" \in HandlerFlags <=> is_caps
    /\ "break" \in HandlerFlags <=> is_break
    /\ "extended" \in HandlerFlags <=> is_extended
  BY DEF HandlerFlags, Flag

LEMMA HandlerFlagsFactsNext ==
    /\ HandlerFlags' \in SUBSET Flag
    /\ "shifted" \in HandlerFlags' <=> is_shifted'
    /\ "caps" \in HandlerFlags' <=> is_caps'
    /\ "break" \in HandlerFlags' <=> is_break'
    /\ "extended" \in HandlerFlags' <=> is_extended'
  BY DEF HandlerFlags, Flag

(* What the handler does to the flags is After, and it puts out Sym. *)
LEMMA HandlerIsAfter ==
    ASSUME KbdTypeOK, Handler
    PROVE  LET b == Head(wire) IN
           /\ HandlerFlags' = After(b, HandlerFlags)
           /\ ~Emits(b, HandlerFlags) => UNCHANGED <<buffer, due>>
           /\ Emits(b, HandlerFlags) => PushChar(Sym(b, HandlerFlags)) /\ kbd_tail' = kbd_tail
           /\ is_caps' \in BOOLEAN /\ is_break' \in BOOLEAN
           /\ is_shifted' \in BOOLEAN /\ is_extended' \in BOOLEAN
<1> DEFINE b == Head(wire)
<1>1. wire # <<>> /\ b \in Byte
  BY DEF KbdTypeOK, Handler
<1>2. HandlePrefix(b) \/ HandleBreak(b) \/ HandleModifier(b) \/ HandleChar(b)
  BY DEF Handler
<1> HIDE DEF b
<1>3. /\ E0 = 224 /\ F0 = 240 /\ (IsShift(b) <=> b \in {18, 89}) /\ (IsPrefix(b) <=> b \in {224, 240})
      /\ Code["caps"] = 88
  BY ByteFacts
<1>4. After(b, HandlerFlags) \in SUBSET Flag
  BY <1>1, HandlerFlagsFacts, StepFacts
<1>5. /\ "shifted" \in After(b, HandlerFlags) <=>
            IF IsPrefix(b) THEN is_shifted
            ELSE IF is_break THEN is_shifted /\ ~IsShift(b) ELSE is_shifted \/ IsShift(b)
      /\ "caps" \in After(b, HandlerFlags) <=>
            IF IsPrefix(b) \/ is_break THEN is_caps ELSE ~(is_caps <=> b = 88)
      /\ "break" \in After(b, HandlerFlags) <=> IsPrefix(b) /\ (is_break \/ b = F0)
      /\ "extended" \in After(b, HandlerFlags) <=>
            IF IsPrefix(b) THEN is_extended \/ b = E0
            ELSE ~is_break /\ (IsShift(b) \/ b = 88) /\ is_extended
  BY <1>3, HandlerFlagsFacts DEF After
<1>6. /\ is_shifted \in BOOLEAN /\ is_caps \in BOOLEAN /\ is_break \in BOOLEAN /\ is_extended \in BOOLEAN
  BY DEF KbdTypeOK
<1>7. Emits(b, HandlerFlags) <=> b \in {28, 90} /\ ~is_break
  BY HandlerFlagsFacts DEF Emits
<1>8. CASE HandlePrefix(b)
  <2>1. /\ is_shifted' = is_shifted /\ is_caps' = is_caps
        /\ is_extended' <=> (is_extended \/ b = E0)
        /\ is_break' <=> (is_break \/ b = F0)
        /\ IsPrefix(b) /\ UNCHANGED <<buffer, due>>
        /\ is_caps' \in BOOLEAN /\ is_break' \in BOOLEAN /\ is_shifted' \in BOOLEAN /\ is_extended' \in BOOLEAN
    BY <1>6, <1>8 DEF HandlePrefix
  <2>2. HandlerFlags' = After(b, HandlerFlags)
    BY <1>4, <1>5, <2>1, HandlerFlagsFactsNext, SameHandlerFlags DEF Flag
  <2>3. ~Emits(b, HandlerFlags)
    BY <1>3, <1>7, <2>1
  <2> QED
    BY <2>1, <2>2, <2>3 DEF b
<1>9. CASE HandleBreak(b)
  <2>1. /\ is_shifted' <=> (is_shifted /\ ~IsShift(b))
        /\ is_caps' = is_caps /\ ~is_extended' /\ ~is_break'
        /\ ~IsPrefix(b) /\ is_break /\ UNCHANGED <<buffer, due>>
        /\ is_caps' \in BOOLEAN /\ is_break' \in BOOLEAN /\ is_shifted' \in BOOLEAN /\ is_extended' \in BOOLEAN
    BY <1>6, <1>9 DEF HandleBreak
  <2>2. HandlerFlags' = After(b, HandlerFlags)
    BY <1>4, <1>5, <2>1, HandlerFlagsFactsNext, SameHandlerFlags DEF Flag
  <2>3. ~Emits(b, HandlerFlags)
    BY <1>7, <2>1
  <2> QED
    BY <2>1, <2>2, <2>3 DEF b
<1>10. CASE HandleModifier(b)
  <2>1. /\ is_shifted' <=> (is_shifted \/ IsShift(b))
        /\ is_caps' <=> ~(is_caps <=> b = 88)
        /\ is_extended' = is_extended /\ is_break' = is_break
        /\ ~is_break /\ (IsShift(b) \/ b = 88) /\ UNCHANGED <<buffer, due>>
        /\ is_caps' \in BOOLEAN /\ is_break' \in BOOLEAN /\ is_shifted' \in BOOLEAN /\ is_extended' \in BOOLEAN
    <3>1. is_caps' = (is_caps # (b = 88)) /\ is_shifted' = (is_shifted \/ IsShift(b))
      BY <1>3, <1>10 DEF HandleModifier
    <3>2. (is_caps' <=> ~(is_caps <=> b = 88)) /\ is_caps' \in BOOLEAN
      BY <1>6, <3>1
    <3>3. (is_shifted' <=> (is_shifted \/ IsShift(b))) /\ is_shifted' \in BOOLEAN
      BY <1>6, <3>1
    <3>4. UNCHANGED <<is_break, is_extended, buffer, due>> /\ ~is_break /\ (IsShift(b) \/ b = 88)
      BY <1>3, <1>10 DEF HandleModifier
    <3> QED
      BY <1>6, <3>2, <3>3, <3>4
  <2>2. ~IsPrefix(b) /\ b \notin {28, 90}
    BY <1>3, <2>1
  <2>3. HandlerFlags' = After(b, HandlerFlags)
    BY <1>4, <1>5, <2>1, <2>2, HandlerFlagsFactsNext, SameHandlerFlags DEF Flag
  <2> QED
    BY <1>7, <2>1, <2>2, <2>3 DEF b
<1>11. CASE HandleChar(b)
  <2>1. /\ is_shifted' = is_shifted /\ is_caps' = is_caps /\ is_break' = is_break /\ ~is_extended'
        /\ ~is_break /\ ~IsPrefix(b) /\ ~IsShift(b) /\ b # 88 /\ kbd_tail' = kbd_tail
        /\ is_caps' \in BOOLEAN /\ is_break' \in BOOLEAN /\ is_shifted' \in BOOLEAN /\ is_extended' \in BOOLEAN
    BY <1>3, <1>6, <1>11 DEF HandleChar
  <2>2. HandlerFlags' = After(b, HandlerFlags)
    BY <1>4, <1>5, <2>1, HandlerFlagsFactsNext, SameHandlerFlags DEF Flag
  <2> DEFINE c == Ascii(b, is_shifted # is_caps)
  <2>3. c # "none" <=> b \in {28, 90}
    BY DEF Ascii
  <2>4. b \in {28, 90} => c = Sym(b, HandlerFlags)
    BY <1>6, HandlerFlagsFacts DEF Ascii, Sym
  <2>5. IF c # "none" THEN PushChar(c) ELSE UNCHANGED <<kbd_buffer, kbd_head, queue, due>>
    BY <1>11 DEF HandleChar
  <2> HIDE DEF c
  <2>6. /\ Emits(b, HandlerFlags) => PushChar(Sym(b, HandlerFlags))
        /\ ~Emits(b, HandlerFlags) => UNCHANGED <<buffer, due>>
    BY <1>7, <2>1, <2>3, <2>4, <2>5 DEF buffer
  <2> QED
    BY <2>1, <2>2, <2>6 DEF b
<1> QED
  BY <1>2, <1>8, <1>9, <1>10, <1>11

LEMMA HandlerStep ==
    ASSUME KbdInv, ~odd, Handler PROVE KbdInv'
<1> DEFINE b == Head(wire)
           y == HandlerFlags
<1>1. /\ KbdTypeOK /\ ~(Shift \subseteq down) /\ Decodes(wire, due, y, UserFlags)
      /\ Holds(kbd_buffer, kbd_head, kbd_tail, queue) /\ wire \in Seq(Byte) /\ due \in Seq(Char)
  BY DEF KbdInv, KbdTypeOK
<1>2. /\ wire # <<>> /\ wire' = Tail(wire) /\ UNCHANGED <<down, caps_on, odd>>
  BY DEF Handler
<1>3. /\ HandlerFlags' = After(b, y)
      /\ ~Emits(b, y) => UNCHANGED <<buffer, due>>
      /\ Emits(b, y) => PushChar(Sym(b, y)) /\ kbd_tail' = kbd_tail
      /\ is_caps' \in BOOLEAN /\ is_break' \in BOOLEAN
      /\ is_shifted' \in BOOLEAN /\ is_extended' \in BOOLEAN
  BY <1>1, HandlerIsAfter
<1>4. UserFlags' = UserFlags
  BY <1>2 DEF UserFlags
<1>5. wire' \in Seq(Byte) /\ b \in Byte
  BY <1>1, <1>2
<1>6. /\ Emits(b, y) => due # <<>> /\ Head(due) = Sym(b, y) /\ Decodes(Tail(wire), Tail(due), After(b, y), UserFlags)
      /\ ~Emits(b, y) => Decodes(Tail(wire), due, After(b, y), UserFlags)
  BY <1>1, <1>2, ByteHandled
<1> HIDE DEF b, y
<1>7. CASE ~Emits(b, y)
  <2>1. UNCHANGED <<buffer, due>>
    BY <1>3, <1>7
  <2>2. KbdTypeOK'
    BY <1>1, <1>2, <1>3, <1>5, <2>1 DEF KbdTypeOK, buffer
  <2>3. Decodes(wire', due', HandlerFlags', UserFlags')
    BY <1>2, <1>3, <1>4, <1>6, <1>7, <2>1
  <2>4. Holds(kbd_buffer, kbd_head, kbd_tail, queue)'
    BY <1>1, <2>1 DEF buffer, Holds
  <2> QED
    BY <1>1, <1>2, <2>2, <2>3, <2>4 DEF KbdInv
<1>8. CASE Emits(b, y)
  <2>1. /\ due' = Tail(due) /\ due' \in Seq(Char) /\ kbd_tail' = kbd_tail
        /\ Decodes(wire', due', HandlerFlags', UserFlags')
    <3>1. due' = Tail(due) /\ kbd_tail' = kbd_tail
      BY <1>3, <1>8 DEF PushChar
    <3>2. due' \in Seq(Char)
      BY <1>1, <1>6, <1>8, <3>1
    <3> QED
      BY <1>2, <1>3, <1>4, <1>6, <1>8, <3>1, <3>2
  <2> DEFINE c == Sym(b, y)
  <2>2. c \in Char /\ Head(due) = c
    BY <1>5, <1>6, <1>8, HandlerFlagsFacts, StepFacts DEF y
  <2>3. PushChar(c)
    BY <1>3, <1>8
  <2> HIDE DEF c
  <2>4. CASE Wrap(kbd_head) # kbd_tail
    <3>1. /\ kbd_buffer' = [kbd_buffer EXCEPT ![kbd_head] = c] /\ kbd_head' = Wrap(kbd_head)
          /\ queue' = Append(queue, c)
      BY <2>2, <2>3, <2>4 DEF PushChar
    <3>2. /\ kbd_head \in Place /\ kbd_tail \in Place /\ kbd_buffer \in [Place -> Char \cup {"none"}]
          /\ queue \in Seq(Char)
      BY <1>1 DEF KbdTypeOK
    <3>3. Holds(kbd_buffer, kbd_head, kbd_tail, queue)'
      <4>1. Holds([kbd_buffer EXCEPT ![kbd_head] = c], Wrap(kbd_head), kbd_tail, Append(queue, c))
        BY <1>1, <2>2, <2>4, <3>2, RingPush
      <4> QED
        BY <2>1, <3>1, <4>1 DEF Holds
    <3>4. kbd_head' \in Place /\ queue' \in Seq(Char) /\ kbd_buffer' \in [Place -> Char \cup {"none"}]
      BY <2>2, <3>1, <3>2, WrapFacts
    <3>5. KbdTypeOK'
      BY <1>1, <1>2, <1>3, <1>5, <2>1, <3>4 DEF KbdTypeOK
    <3> QED
      BY <1>1, <1>2, <2>1, <3>3, <3>5 DEF KbdInv
  <2>5. CASE Wrap(kbd_head) = kbd_tail
    <3>1. UNCHANGED <<kbd_buffer, kbd_head, kbd_tail, queue>>
      BY <2>1, <2>3, <2>5 DEF PushChar
    <3>2. Holds(kbd_buffer, kbd_head, kbd_tail, queue)'
      BY <1>1, <3>1 DEF Holds
    <3>3. KbdTypeOK'
      BY <1>1, <1>2, <1>3, <1>5, <2>1, <3>1 DEF KbdTypeOK
    <3> QED
      BY <1>1, <1>2, <2>1, <3>2, <3>3 DEF KbdInv
  <2> QED
    BY <2>4, <2>5
<1> QED
  BY <1>7, <1>8

LEMMA PopStep ==
    ASSUME KbdInv, ~odd, PopChar PROVE KbdInv'
<1>1. /\ KbdTypeOK /\ ~(Shift \subseteq down) /\ Decodes(wire, due, HandlerFlags, UserFlags)
      /\ Holds(kbd_buffer, kbd_head, kbd_tail, queue)
      /\ kbd_head \in Place /\ kbd_tail \in Place /\ queue \in Seq(Char)
  BY DEF KbdInv, KbdTypeOK
<1>2. /\ kbd_head # kbd_tail /\ kbd_tail' = Wrap(kbd_tail) /\ queue' = Tail(queue)
      /\ UNCHANGED <<keyboard, flags, kbd_buffer, kbd_head>>
  BY DEF PopChar
<1>3. queue # <<>> /\ Holds(kbd_buffer, kbd_head, Wrap(kbd_tail), Tail(queue))
  BY <1>1, <1>2, RingPop
<1>4. Holds(kbd_buffer, kbd_head, kbd_tail, queue)'
  BY <1>2, <1>3 DEF Holds
<1>5. kbd_tail' \in Place /\ queue' \in Seq(Char)
  BY <1>1, <1>2, <1>3, WrapFacts
<1>6. KbdTypeOK'
  BY <1>1, <1>2, <1>5 DEF KbdTypeOK, keyboard, flags
<1>7. Decodes(wire', due', HandlerFlags', UserFlags')
  BY <1>1, <1>2 DEF HandlerFlags, UserFlags, keyboard, flags
<1> QED
  BY <1>1, <1>2, <1>4, <1>6, <1>7 DEF KbdInv, keyboard

(* KeysAsTyped for a ring of any size, whatever keys are used and however   *)
(* many bytes are on the wire.                                              *)
THEOREM KeysAreAsTyped == KbdInit /\ [][KbdNext]_kbdvars => []KeysAsTyped
<1>1. KbdInv /\ [KbdNext]_kbdvars => KbdInv'
  <2> SUFFICES ASSUME KbdInv, [KbdNext]_kbdvars PROVE KbdInv'
    OBVIOUS
  <2>1. CASE UNCHANGED kbdvars
    BY <2>1 DEF KbdInv, KbdTypeOK, HandlerFlags, UserFlags, kbdvars, keyboard, flags, buffer, Holds
  <2>2. CASE KbdNext
    BY <2>2, PressStep, RepeatStep, ReleaseStep, HandlerStep, PopStep DEF KbdNext
  <2> QED
    BY <2>1, <2>2
<1>2. KbdInv => KeysAsTyped
  <2> SUFFICES ASSUME KbdInv, ~odd PROVE KeysAsTyped
    BY DEF KeysAsTyped
  <2> DEFINE N == KBD_BUF_SIZE
  <2>1. /\ KbdTypeOK /\ Decodes(wire, due, HandlerFlags, UserFlags)
        /\ Holds(kbd_buffer, kbd_head, kbd_tail, queue)
        /\ kbd_head \in Place /\ kbd_tail \in Place /\ queue \in Seq(Char) /\ due \in Seq(Char)
    BY DEF KbdInv, KbdTypeOK
  <2>2. N \in Nat /\ N > 1 /\ kbd_head \in 0 .. N - 1 /\ kbd_tail \in 0 .. N - 1
    BY <2>1, KbdAssumption DEF Place
  <2>3. /\ (kbd_head - kbd_tail) % N = Len(queue) /\ Len(queue) \in 0 .. N - 1
    <3>1. (kbd_head - kbd_tail) % N = Gap(N, kbd_head, kbd_tail) /\ Gap(N, kbd_head, kbd_tail) \in 0 .. N - 1
      <4>1. Gap(N, kbd_head, kbd_tail) \in 0 .. N - 1
        BY <2>2, GapFacts
      <4>2. (kbd_head - kbd_tail) % N = Gap(N, kbd_head, kbd_tail)
        BY <2>2, RingFacts DEF Gap
      <4> QED
        BY <4>1, <4>2
    <3> QED
      BY <2>1, <3>1 DEF Holds
  <2>4. ASSUME NEW n \in 1 .. Len(queue)
        PROVE  kbd_buffer[(kbd_tail + n - 1) % N] = queue[n]
    <3>1. n - 1 \in 0 .. N - 1 /\ kbd_tail + n - 1 = kbd_tail + (n - 1)
      BY <2>2, <2>3
    <3>2. (kbd_tail + (n - 1)) % N = Cell(N, kbd_tail, n - 1)
      BY <2>2, <3>1, RingFacts DEF Cell
    <3>3. kbd_buffer[Cell(N, kbd_tail, n - 1)] = queue[n]
      BY <2>1 DEF Holds
    <3> QED
      BY <3>1, <3>2, <3>3
  <2>5. Unpopped = queue
    BY <2>1, <2>3, <2>4 DEF Unpopped
  <2>6. ASSUME wire = <<>>
        PROVE  /\ due = <<>> /\ is_shifted = (down \cap Shift # {}) /\ is_caps = caps_on
               /\ ~is_break /\ ~is_extended
    <3>1. due = <<>> /\ HandlerFlags = UserFlags
      BY <2>1, <2>6, NothingSent
    <3>2. /\ "shifted" \in UserFlags <=> down \cap Shift # {}
          /\ "caps" \in UserFlags <=> caps_on
          /\ "break" \notin UserFlags /\ "extended" \notin UserFlags
      BY DEF UserFlags
    <3>3. /\ is_shifted <=> down \cap Shift # {}
          /\ is_caps <=> caps_on
          /\ ~is_break /\ ~is_extended
      BY <3>1, <3>2, HandlerFlagsFacts
    <3>4. is_shifted \in BOOLEAN /\ is_caps \in BOOLEAN /\ caps_on \in BOOLEAN
      BY <2>1 DEF KbdTypeOK
    <3> QED
      BY <3>1, <3>3, <3>4
  <2> QED
    BY <2>5, <2>6 DEF KeysAsTyped
<1> QED
  BY KbdInitInv, <1>1, <1>2, PTL
=============================================================================
