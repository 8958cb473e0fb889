-------------------------- MODULE ConsoleReadiness ---------------------------
(***************************************************************************)
(* Reading the Windows console (mod windows_transport of                   *)
(* src/src/tokio_session/readiness.rs): a thread waits for input records,  *)
(* translates them and sends the bytes over a bounded channel; the session *)
(* receives them, pauses the thread while a child owns the console         *)
(* (run_detached of tokio_session.rs), starts another, and joins it in the *)
(* end.                                                                    *)
(*                                                                         *)
(* Every call of the session that the thread can observe is a step, and so *)
(* is every call of the thread that the session can observe.               *)
(***************************************************************************)
EXTENDS ConsoleInput, MouseReports

CONSTANTS
  Scripts,          \* the sequences of records the console may deliver
  RECORD_BATCH,
  CHANNEL_CAPACITY,
  MaxBuffer,        \* bound: size of the buffer read is called with
  MaxJobs           \* bound: run_detached calls

ASSUME CapacityAssumption ==
  RECORD_BATCH \in Nat \ {0} /\ CHANNEL_CAPACITY \in Nat \ {0} /\ MaxBuffer \in Nat \ {0}

VARIABLES
  coming,   \* records the console has not delivered yet
  console,  \* records in the console's buffer
  broken,   \* the console has failed: "no", "error", or "eof" (reads of zero records)
  waker,    \* the manual-reset event is set
  channel,  \* chunks sent and not received
  receiver, \* the transport holds the receiving end
  worker,   \* "none", or what the thread does: "wait", "read", "send", "tail", "done"
  reader,   \* the thread's ConsoleInputReader
  held,     \* the chunk the thread is sending
  leftover, \* received and not yet returned
  session,  \* what the session's thread does
  ending,   \* the session is being dropped
  jobs,     \* run_detached calls so far
  returned, \* what read has returned since this thread was started
  at_eof,   \* read has returned zero
  taken,    \* records this thread has read
  tail_due  \* this thread has flushed a high surrogate at the end of input

terminal == <<coming, console, broken>>
thread   == <<worker, reader, held, taken, tail_due>>
app      == <<jobs, returned, at_eof>>
control  == <<session, ending>>
vars     == <<terminal, waker, channel, receiver, thread, leftover, control, app>>

\* spawn_worker: a fresh channel and a fresh reader.
spawn_worker ==
  /\ worker' = "wait" /\ reader' = ConsoleInputReader /\ held' = <<>>
  /\ taken' = <<>> /\ tail_due' = FALSE
  /\ channel' = <<>> /\ receiver' = TRUE

Init ==
  /\ coming \in Scripts /\ console = <<>> /\ broken = "no"
  /\ waker = FALSE /\ channel = <<>> /\ receiver = TRUE
  /\ worker = "wait" /\ reader = ConsoleInputReader /\ held = <<>>
  /\ taken = <<>> /\ tail_due = FALSE
  /\ leftover = <<>> /\ session = "idle"
  /\ ending = FALSE /\ jobs = 0 /\ returned = <<>> /\ at_eof = FALSE

-----------------------------------------------------------------------------
\* The console delivers a record, or breaks.
Deliver ==
  /\ coming # <<>> /\ broken = "no"
  /\ console' = Append(console, Head(coming)) /\ coming' = Tail(coming)
  /\ UNCHANGED <<broken, waker, channel, receiver, thread, leftover, control, app>>

Break ==
  /\ broken = "no"
  /\ broken' \in {"error", "eof"}
  /\ UNCHANGED <<coming, console, waker, channel, receiver, thread, leftover, control, app>>

-----------------------------------------------------------------------------
(***************************************************************************)
(* worker_loop.  Of two signalled objects the wait reports the first, the  *)
(* console.                                                                *)
(***************************************************************************)
input_ready == console # <<>> \/ broken # "no"

Wait ==
  /\ worker = "wait"
  /\ \/ input_ready /\ worker' = "read"
     \/ ~ input_ready /\ waker /\ worker' = "done"
  /\ UNCHANGED << terminal, waker, channel, receiver, reader, held, taken, tail_due,
                  leftover, control, app >>

Read ==
  /\ worker = "read" /\ console # <<>> /\ broken # "error"
  /\ LET count == IF Len(console) < RECORD_BATCH THEN Len(console) ELSE RECORD_BATCH
         translated == translate_records(reader, SubSeq(console, 1, count))
     IN /\ console' = SubSeq(console, count + 1, Len(console))
        /\ taken' = taken \o SubSeq(console, 1, count)
        /\ reader' = take_pending(translated)
        /\ held' = translated.pending
        /\ worker' = IF translated.pending = <<>> THEN "wait" ELSE "send"
  /\ UNCHANGED <<coming, broken, waker, channel, receiver, tail_due, leftover, control, app>>

ReadError ==
  /\ worker = "read" /\ broken = "error"
  /\ worker' = "done"
  /\ UNCHANGED << terminal, waker, channel, receiver, reader, held, taken, tail_due,
                  leftover, control, app >>

ReadNothing ==
  /\ worker = "read" /\ console = <<>> /\ broken = "eof"
  /\ LET flushed == flush_carry(reader)
     IN /\ reader' = take_pending(flushed)
        /\ held' = flushed.pending
        /\ tail_due' = (flushed.pending # <<>>)
        /\ worker' = IF flushed.pending = <<>> THEN "done" ELSE "tail"
  /\ UNCHANGED <<terminal, waker, channel, receiver, taken, leftover, control, app>>

(***************************************************************************)
(* blocking_send waits for room and fails without a receiver.  After the   *)
(* tail the loop ends whatever the outcome.                                *)
(***************************************************************************)
Send ==
  /\ worker \in {"send", "tail"}
  /\ \/ /\ receiver /\ Len(channel) < CHANNEL_CAPACITY
        /\ channel' = Append(channel, held)
        /\ worker' = IF worker = "send" THEN "wait" ELSE "done"
     \/ /\ ~ receiver
        /\ worker' = "done" /\ UNCHANGED channel
  /\ held' = <<>>
  /\ UNCHANGED <<terminal, waker, receiver, reader, taken, tail_due, leftover, control, app>>

-----------------------------------------------------------------------------
(***************************************************************************)
(* read.  The await in recv is its only cancellation point, and a call     *)
(* dropped there has changed nothing.                                      *)
(***************************************************************************)
\* Mutant: what does not fit in the caller's buffer is dropped.
take_leftover_once(bytes, size) ==
  [ copied |-> SubSeq(bytes, 1, IF size < Len(bytes) THEN size ELSE Len(bytes)),
    rest |-> <<>> ]

take_leftover(bytes, size) ==
  LET count == IF size < Len(bytes) THEN size ELSE Len(bytes)
  IN [copied |-> SubSeq(bytes, 1, count), rest |-> SubSeq(bytes, count + 1, Len(bytes))]

read(size) ==
  /\ session = "idle"
  /\ \/ /\ leftover # <<>>
        /\ LET got == take_leftover(leftover, size)
           IN returned' = returned \o got.copied /\ leftover' = got.rest
        /\ UNCHANGED <<channel, at_eof>>
     \/ /\ leftover = <<>> /\ receiver /\ channel # <<>>
        /\ LET got == take_leftover(Head(channel), size)
           IN returned' = returned \o got.copied /\ leftover' = got.rest
        /\ channel' = Tail(channel)
        /\ UNCHANGED at_eof
     \/ /\ leftover = <<>> /\ receiver /\ channel = <<>> /\ worker = "done"
        /\ at_eof' = TRUE
        /\ UNCHANGED <<channel, leftover, returned>>
  /\ UNCHANGED <<terminal, waker, receiver, thread, control, jobs>>

(***************************************************************************)
(* After a resume that failed there is no receiver: read expects one.      *)
(***************************************************************************)
ReadPanics ==
  /\ session = "idle" /\ leftover = <<>> /\ ~ receiver
  /\ session' = "panicked"
  /\ UNCHANGED <<terminal, waker, channel, receiver, thread, leftover, ending, app>>

(***************************************************************************)
(* run_detached: leave, which may fail, then pause.  Drop ends the same    *)
(* way as a pause.                                                         *)
(***************************************************************************)
RunDetached ==
  /\ session = "idle" /\ jobs < MaxJobs
  /\ jobs' = jobs + 1
  /\ session' \in {"signal", "idle"}
  /\ UNCHANGED << terminal, waker, channel, receiver, thread, leftover, ending, returned,
                  at_eof >>

DropSession ==
  /\ session = "idle"
  /\ session' = "signal" /\ ending' = TRUE
  /\ UNCHANGED <<terminal, waker, channel, receiver, thread, leftover, app>>

SetEvent ==
  /\ session = "signal"
  /\ waker' = TRUE
  /\ session' = "hang_up"
  /\ UNCHANGED <<terminal, channel, receiver, thread, leftover, ending, app>>

\* Mutant: the receiver is kept until the thread has ended.
HangUpAfterJoin ==
  /\ session = "hang_up" /\ worker \in {"none", "done"}
  /\ receiver' = FALSE /\ channel' = <<>>
  /\ session' = "join"
  /\ UNCHANGED <<terminal, waker, thread, leftover, ending, app>>

HangUp ==
  /\ session = "hang_up"
  /\ receiver' = FALSE /\ channel' = <<>>
  /\ session' = "join"
  /\ UNCHANGED <<terminal, waker, thread, leftover, ending, app>>

\* Mutant: the thread is not waited for.
JoinNot ==
  /\ session = "join"
  /\ session' = IF ending THEN "dropped" ELSE "child"
  /\ leftover' = IF ending THEN leftover ELSE <<>>
  /\ UNCHANGED <<terminal, waker, channel, receiver, thread, ending, app>>

Join ==
  /\ session = "join" /\ worker \in {"none", "done"}
  /\ worker' = "none"
  /\ session' = IF ending THEN "dropped" ELSE "child"
  /\ leftover' = IF ending THEN leftover ELSE <<>>
  /\ UNCHANGED << terminal, waker, channel, receiver, reader, held, taken, tail_due,
                  ending, app >>

\* The child reads what it likes of the console, and returns.
ChildReads ==
  /\ session = "child" /\ console # <<>>
  /\ console' = Tail(console)
  /\ UNCHANGED << coming, broken, waker, channel, receiver, thread, leftover, control,
                  app >>

ChildReturns ==
  /\ session = "child"
  /\ session' = "reset"
  /\ UNCHANGED <<terminal, waker, channel, receiver, thread, leftover, ending, app>>

(***************************************************************************)
(* resume: reset the event, then spawn.  Either may fail, and run_detached *)
(* returns the error.                                                      *)
(***************************************************************************)
\* Mutant: the event stays set.
ResetEventNot ==
  /\ session = "reset"
  /\ session' \in {"spawn", "idle"}
  /\ UNCHANGED <<terminal, waker, channel, receiver, thread, leftover, ending, app>>

ResetEvent ==
  /\ session = "reset"
  /\ \/ waker' = FALSE /\ session' = "spawn"
     \/ UNCHANGED waker /\ session' = "idle"
  /\ UNCHANGED <<terminal, channel, receiver, thread, leftover, ending, app>>

Respawn ==
  /\ session = "spawn"
  /\ session' = "idle"
  /\ \/ spawn_worker /\ returned' = <<>> /\ at_eof' = FALSE
     \/ UNCHANGED <<channel, receiver, thread, returned, at_eof>>
  /\ UNCHANGED <<terminal, waker, leftover, ending, jobs>>

-----------------------------------------------------------------------------
Worker == Wait \/ Read \/ ReadError \/ ReadNothing \/ Send

Job == SetEvent \/ HangUp \/ Join \/ ResetEvent \/ Respawn

Next ==
  \/ Deliver \/ Break
  \/ Worker
  \/ \E size \in 1 .. MaxBuffer : read(size)
  \/ ReadPanics
  \/ RunDetached \/ DropSession
  \/ Job
  \/ ChildReads \/ ChildReturns

Spec == Init /\ [][Next]_vars

(***************************************************************************)
(* Both threads run.  Nothing makes the application read, the child return *)
(* or the console deliver.                                                 *)
(***************************************************************************)
FairSpec == Spec /\ WF_vars(Worker) /\ WF_vars(Job)

-----------------------------------------------------------------------------
TypeOK ==
  /\ broken \in {"no", "error", "eof"}
  /\ waker \in BOOLEAN /\ receiver \in BOOLEAN /\ ending \in BOOLEAN
  /\ Len(channel) <= CHANNEL_CAPACITY
  /\ worker \in {"none", "wait", "read", "send", "tail", "done"}
  /\ session \in { "idle", "signal", "hang_up", "join", "child", "reset", "spawn",
                   "dropped", "panicked" }
  /\ jobs \in 0 .. MaxJobs

(***************************************************************************)
(* No record is read by the thread while a child owns the console or after *)
(* the session is gone, and two threads never read it at once: a thread    *)
(* that may still read exists only while the session has its receiver or   *)
(* waits for it to end.                                                    *)
(***************************************************************************)
OneReader ==
  worker \in {"wait", "read", "send", "tail"} =>
    IF receiver THEN session \in {"idle", "signal", "hang_up"} ELSE session = "join"

(***************************************************************************)
(* read returns zero only when the console is broken: a thread that was    *)
(* freed for a job is not taken for the end of input, nor is a thread that *)
(* starts with the event of the last pause still set.                      *)
(***************************************************************************)
NoFalseEof == at_eof => broken # "no"

(***************************************************************************)
(* Setting the event and dropping the receiver frees the thread wherever   *)
(* it is, so that pause and Drop return (FM-A1).                           *)
(***************************************************************************)
TeardownEnds == session \in {"signal", "hang_up", "join"} ~> session \in {"child", "dropped"}

(***************************************************************************)
(* What read has returned, and what is on its way, is the text and the     *)
(* reports of the records this thread has read, in their order, whatever   *)
(* the batches, chunks and buffers; nothing of an earlier thread.  Of a    *)
(* pair of surrogates, the halves may come in two batches with reports     *)
(* between them.                                                           *)
(***************************************************************************)
units(records) ==
  FlattenSeq([i \in DOMAIN records |->
    CASE records[i].type = "resize" -> <<records[i]>>
      [] records[i].type = "key" /\ records[i].unit # NoUnit
           /\ (records[i].down \/ records[i].menu) ->
           [n \in 1 .. records[i].repeat |-> [type |-> "unit"] @@ records[i].unit]
      [] OTHER -> <<>>])

text(records, tail) ==
  LET stream == units(records)
      isUnit(i) == stream[i].type = "unit"
      before(i) == {j \in 1 .. i - 1 : isUnit(j)}
      opened(i) == \E j \in before(i) : stream[j].class = "high" /\ \A k \in before(i) : k <= j
      last(i) == stream[CHOOSE j \in before(i) : \A k \in before(i) : k <= j]
      glyphs(i) ==
        CASE ~ isUnit(i) -> synthesize_resize(stream[i])
          [] isUnit(i) /\ stream[i].class = "low" ->
               << IF opened(i) THEN combine_surrogates(last(i), stream[i]) ELSE Replacement >>
          [] isUnit(i) /\ stream[i].class # "low" ->
               (IF opened(i) THEN <<Replacement>> ELSE <<>>)
                 \o (IF stream[i].class = "bmp" THEN << <<"char", stream[i].n>> >> ELSE <<>>)
  IN FlattenSeq([i \in DOMAIN stream |-> glyphs(i)]) \o (IF tail THEN <<Replacement>> ELSE <<>>)

in_order == returned \o leftover \o FlattenSeq(channel) \o held

isMouse(glyph) == glyph[1] = "mouse"

InputInOrder ==
  receiver => SelectSeq(in_order, LAMBDA g : ~ isMouse(g)) = text(taken, tail_due)

(***************************************************************************)
(* An application that follows the presses and releases it is told of      *)
(* knows which buttons are down, and every move names one of them, if they *)
(* changed one at a time and none was down when the thread started.        *)
(***************************************************************************)
states(records) ==
  SelectSeq(records, LAMBDA r : r.type = "mouse" /\ r.flag \notin {"wheel", "hwheel"})

one_at_a_time(mouse) ==
  \A i \in DOMAIN mouse :
    LET prev == IF i = 1 THEN {} ELSE mouse[i - 1].buttons
        changed == (mouse[i].buttons \ prev) \cup (prev \ mouse[i].buttons)
    IN Cardinality(changed) = IF mouse[i].flag = "button" THEN 1 ELSE 0

button_of(bit) ==
  CASE bit = 1 -> <<"Left">> [] bit = 2 -> <<"Right">> [] bit = 4 -> <<"Middle">>
    [] bit = 8 -> <<"Other", 8>> [] bit = 16 -> <<"Other", 9>>

heard(glyphs) ==
  LET reports == SelectSeq(glyphs, isMouse)
  IN [i \in DOMAIN reports |-> decode_sgr(reports[i])]

followed(events) ==
  LET step(down, e) ==
        CASE e.kind = <<"Press">> -> down \cup {e.button}
          [] e.kind = <<"Release">> -> down \ {e.button}
          [] OTHER -> down
  IN FoldLeft(step, {}, events)

ButtonsAreFollowed ==
  LET mouse == states(taken)
      events == heard(in_order)
      before(i) == followed(SubSeq(events, 1, i - 1))
  IN receiver /\ mouse # <<>> /\ one_at_a_time(mouse) =>
       /\ followed(events) = {button_of(bit) : bit \in mouse[Len(mouse)].buttons}
       /\ \A i \in DOMAIN events :
            events[i].kind = <<"Moved">> =>
              IF before(i) = {} THEN events[i].button = <<"None">>
              ELSE events[i].button \in before(i)

=============================================================================
