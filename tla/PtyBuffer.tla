----------------------------- MODULE PtyBuffer ------------------------------
(***************************************************************************)
(* The output of one terminal, src/src/ptySessions.ts: a ring buffer of    *)
(* UTF-8 bytes addressed by absolute cursors, a client that follows it     *)
(* with terminal_read, and a call of terminal_wait_for.                    *)
(*                                                                         *)
(* A byte is what the code can tell of it: the first of a character        *)
(* ("lead"), a continuation byte ("cont"), or a one-byte character that    *)
(* is the awaited pattern ("hit").  A waiter that is woken runs before any *)
(* further event of the terminal or timer (its promise is a microtask).    *)
(***************************************************************************)
EXTENDS Naturals, Sequences, FiniteSetsExt

CONSTANTS
  PTY_BUFFER_BYTES,    \* the ring keeps at most this many bytes
  PTY_READ_MAX_BYTES,  \* a read returns about this many at most
  MaxWidth,            \* bytes of the widest character: 4 in UTF-8
  StreamBound          \* bound: bytes the terminal prints in all

ASSUME BufferAssumption ==
  /\ PTY_READ_MAX_BYTES \in Nat \ {0} /\ MaxWidth \in Nat \ {0} /\ StreamBound \in Nat
  /\ PTY_BUFFER_BYTES \in Nat /\ PTY_BUFFER_BYTES >= MaxWidth

VARIABLES
  stream,   \* all the bytes printed so far; the ring is its end
  base,     \* view.buffer_base_cursor; view.next_cursor is Len(stream)
  over,     \* the end of the shell: "no", "givenUp" (by the close timer), "reported"
  reader,   \* the client's terminal_read: "idle", "asleep" in `waiters`, "woken"
  cursor,   \* the cursor the client follows
  told,     \* the client was once told missed_output
  skipped,  \* bytes the client knows of that it was not sent: from - its cursor
  received, \* bytes the client received since it began to follow
  reply,    \* the last reply to the client
  waiter,   \* terminal_wait_for: "none", "woken", "asleep", "matched", "exited", "timeout"
  search,   \* the call of terminal_wait_for: its start cursor and its byte limit
  expired   \* the deadline of that call has passed

readerVars == <<reader, cursor, told, skipped, received, reply>>
waiterVars == <<waiter, search, expired>>
bufVars    == <<stream, base, over, reader, cursor, told, skipped, received, reply, waiter, search, expired>>

Cursors == 0 .. StreamBound
Limits  == 1 .. PTY_READ_MAX_BYTES
Reply   == [from : Cursors, size : Cursors, to : Cursors, missed : BOOLEAN, more : BOOLEAN]

BufTypeOK ==
  /\ stream \in Seq({"lead", "cont", "hit"}) /\ Len(stream) \in Cursors
  /\ base \in 0 .. Len(stream) /\ Len(stream) - base <= PTY_BUFFER_BYTES
  /\ over \in {"no", "givenUp", "reported"}
  /\ reader \in {"idle", "asleep", "woken"}
  /\ {cursor, received, skipped} \subseteq 0 .. Len(stream)
  /\ told \in BOOLEAN /\ expired \in BOOLEAN
  /\ reply \in Reply
  /\ waiter \in {"none", "woken", "asleep", "matched", "exited", "timeout"}
  /\ search \in [start : Cursors, limit : Limits]

NoSearch == [start |-> 0, limit |-> 1]

BufInit ==
  /\ stream = <<>> /\ base = 0 /\ over = "no"
  /\ reader = "idle" /\ cursor = 0 /\ told = FALSE /\ received = 0 /\ skipped = 0
  /\ reply = [from |-> 0, size |-> 0, to |-> 0, missed |-> FALSE, more |-> FALSE]
  /\ waiter = "none" /\ search = NoSearch /\ expired = FALSE

-----------------------------------------------------------------------------
\* A character begins, or the stream ends, at absolute cursor c.
Boundary(bytes, c) == c = Len(bytes) \/ bytes[c + 1] # "cont"

Chars == {<<"hit">>} \cup {[i \in 1 .. w |-> IF i = 1 THEN "lead" ELSE "cont"] : w \in 1 .. MaxWidth}
Drained == reader # "woken" /\ waiter # "woken"

\* Fault: the cut may fall inside a character.
CutAnywhere(bytes) ==
  IF Len(bytes) - base > PTY_BUFFER_BYTES THEN Len(bytes) - PTY_BUFFER_BYTES ELSE base

\* Where the ring begins after the append: the oldest characters go until it fits.
Cut(bytes) ==
  IF Len(bytes) - base > PTY_BUFFER_BYTES
  THEN Min({c \in Len(bytes) - PTY_BUFFER_BYTES .. Len(bytes) : Boundary(bytes, c)})
  ELSE base

Wake(state) == IF state = "asleep" THEN "woken" ELSE state

\* Fault: an append wakes nobody.
AppendOutputSilently ==
  \E first \in Chars, second \in Chars \cup {<<>>} :
    LET bytes == stream \o first \o second IN
    /\ Drained /\ Len(bytes) <= StreamBound
    /\ stream' = bytes
    /\ base' = Cut(bytes)
    /\ UNCHANGED <<over, readerVars, waiterVars>>

\* appendOutput: one or two characters arrive and every waiter is woken.
AppendOutput ==
  \E first \in Chars, second \in Chars \cup {<<>>} :
    LET bytes == stream \o first \o second IN
    /\ Drained /\ Len(bytes) <= StreamBound
    /\ stream' = bytes
    /\ base' = Cut(bytes)
    /\ reader' = Wake(reader) /\ waiter' = Wake(waiter)
    /\ UNCHANGED <<over, cursor, told, skipped, received, reply, search, expired>>

\* onExit wakes every waiter.
EndEvent ==
  /\ Drained /\ over # "reported"
  /\ over' = "reported"
  /\ reader' = Wake(reader) /\ waiter' = Wake(waiter)
  /\ UNCHANGED <<stream, base, cursor, told, skipped, received, reply, search, expired>>

\* The close timer gives the shell up, and wakes nobody.
GiveUp ==
  /\ Drained /\ over = "no"
  /\ over' = "givenUp"
  /\ UNCHANGED <<stream, base, readerVars, waiterVars>>

-----------------------------------------------------------------------------
\* Fault: a chunk ends at the limit, also when the output ends before.
ChunkEndAtLimit(from, limit) == from + limit

\* The chunk is cut back to whole characters, or extended to one whole character.
ChunkEnd(from, limit) ==
  LET back == Max({from} \cup {e \in from .. from + limit : e <= Len(stream) /\ Boundary(stream, e)})
  IN  IF back > from \/ from = Len(stream)
      THEN back ELSE Min({e \in from + 1 .. Len(stream) : Boundary(stream, e)})

\* readPtySessionInternal: where the chunk begins, its bytes, and the next cursor.
Slice(requested, limit) ==
  LET from == IF requested < base THEN base ELSE requested
      size == ChunkEnd(from, limit) - from
      to   == from + size
  IN  [from |-> from, size |-> size, to |-> to, missed |-> requested < base, more |-> to < Len(stream)]

\* The client takes a reply and follows its next_cursor.
Deliver(limit) ==
  LET r == Slice(cursor, limit) IN
  /\ reply' = r
  /\ cursor' = r.to
  /\ told' = (told \/ r.missed)
  /\ received' = received + r.size
  /\ skipped' = skipped + (r.from - cursor)
  /\ reader' = "idle"
  /\ UNCHANGED <<stream, base, over, waiterVars>>

\* terminal_read, and terminal_read with wait_ms when there is nothing to wait for.
Read == Drained /\ reader = "idle" /\ \E limit \in Limits : Deliver(limit)

\* terminal_read with wait_ms when all was read and the shell lives.
Sleep ==
  /\ Drained /\ reader = "idle" /\ cursor = Len(stream) /\ over = "no"
  /\ reader' = "asleep"
  /\ UNCHANGED <<stream, base, over, cursor, told, skipped, received, reply, waiterVars>>

\* Fault: the wait has no timer of its own.
SleepTimerNever == FALSE /\ UNCHANGED bufVars

\* wait_ms have passed.
SleepTimer ==
  /\ Drained /\ reader = "asleep"
  /\ reader' = "woken"
  /\ UNCHANGED <<stream, base, over, cursor, told, skipped, received, reply, waiterVars>>

WokenRead == reader = "woken" /\ \E limit \in Limits : Deliver(limit)

-----------------------------------------------------------------------------
\* terminal_wait_for, from the start of the ring or from the client's cursor.
WaitFor ==
  /\ Drained /\ waiter = "none"
  /\ waiter' = "woken" /\ expired' = FALSE
  /\ \E start \in {base, cursor}, limit \in Limits : search' = [start |-> start, limit |-> limit]
  /\ UNCHANGED <<stream, base, over, readerVars>>

\* tryMatch looks at one slice, from the start cursor up to the limit.
Matches ==
  LET s == Slice(search.start, search.limit) IN \E i \in s.from + 1 .. s.from + s.size : stream[i] = "hit"

\* A call that has returned leaves nothing behind.
Settle ==
  /\ search'  = IF waiter' = "asleep" THEN search ELSE NoSearch
  /\ expired' = (expired /\ waiter' = "asleep")
  /\ UNCHANGED <<stream, base, over, readerVars>>

\* One round of the loop in waitForPtyPattern.
Try ==
  /\ waiter = "woken"
  /\ waiter' = IF Matches THEN "matched" ELSE IF over # "no" THEN "exited"
               ELSE IF expired THEN "timeout" ELSE "asleep"
  /\ Settle

Deadline ==
  /\ waiter \in {"asleep", "woken"} /\ ~expired
  /\ expired' = TRUE
  /\ UNCHANGED <<stream, base, over, readerVars, waiter, search>>

\* The timer of one wait: the remaining time, or thirty seconds if that is less.
WaitTimer ==
  /\ Drained /\ waiter = "asleep"
  /\ waiter' = "woken"
  /\ UNCHANGED <<stream, base, over, readerVars, search, expired>>

BufNext ==
  \/ AppendOutput \/ EndEvent \/ GiveUp
  \/ Read \/ Sleep \/ SleepTimer \/ WokenRead
  \/ WaitFor \/ Try \/ Deadline \/ WaitTimer

(***************************************************************************)
(* Continuations run and time passes.  A timer that is due fires although  *)
(* other calls keep the event loop busy (strong fairness).  Nothing is     *)
(* assumed of the shell nor of the client.                                 *)
(***************************************************************************)
BufFairness ==
  /\ SF_bufVars(SleepTimer) /\ SF_bufVars(WaitTimer)
  /\ WF_bufVars(WokenRead) /\ WF_bufVars(Try) /\ WF_bufVars(Deadline)

BufSpec == BufInit /\ [][BufNext]_bufVars /\ BufFairness

-----------------------------------------------------------------------------
\* A client that follows the output gets all of it, in whole characters: wherever the
\* ring was cut and whatever the read limits, a chunk begins and ends between two
\* characters, so decoding it never makes up a replacement character; every byte up
\* to the client's cursor was sent to it once, or left out where a reply said
\* missed_output, which none says without a gap; and a client that is told there is
\* more makes progress with every read.
OutputFollowed ==
  /\ Boundary(stream, base) /\ Boundary(stream, reply.from) /\ Boundary(stream, reply.to)
  /\ received + skipped = cursor /\ (told <=> skipped > 0)
  /\ reply.more => reply.to > reply.from

\* Nobody sleeps on what he waits for: a long poll sleeps only when everything was
\* read, a pattern wait only when the bytes it searches do not match, and neither
\* when the end of the shell was reported.
NoLostWakeup ==
  /\ reader = "asleep" => cursor = Len(stream) /\ over # "reported"
  /\ waiter = "asleep" => ~Matches /\ over # "reported"

\* Every wait ends, also when the shell hangs or was given up without an exit event.
WaitsEnd ==
  /\ reader = "asleep" ~> reader = "idle"
  /\ waiter = "asleep" ~> waiter \in {"matched", "exited", "timeout"}
=============================================================================
