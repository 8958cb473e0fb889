---------------------------- MODULE ThreadProofs -----------------------------
(***************************************************************************)
(* Theorems about the two places of the code where threads share memory:   *)
(* the double-buffered teardown blob, for every set of readers and any     *)
(* number of publications, and the console's reader thread, for every      *)
(* script, capacity, batch and buffer size and any number of jobs.         *)
(***************************************************************************)
EXTENDS DoubleBuffered, ConsoleReadiness, TLAPS

(***************************************************************************)
(* Types are preserved.                                                    *)
(***************************************************************************)
LEMMA CellTypeStep == CellInv /\ [CellNext]_cell_vars => CellTypeOK'
<1> SUFFICES ASSUME CellInv, [CellNext]_cell_vars PROVE CellTypeOK'
    OBVIOUS
<1> USE ThreadsAreDistinct DEF CellInv, CellTypeOK, PublishedIsWhole, Rendering, Locking, Reading,
      Buffer, inactive, free, swapped, publisher
<1>1. ASSUME StartPublish PROVE CellTypeOK'
  BY <1>1 DEF StartPublish
<1>2. ASSUME LockTarget PROVE CellTypeOK'
  BY <1>2 DEF LockTarget
<1>3. ASSUME Render PROVE CellTypeOK'
  BY <1>3 DEF Render
<1>4. ASSUME FinishRender PROVE CellTypeOK'
  BY <1>4 DEF FinishRender
<1>5. ASSUME Swap PROVE CellTypeOK'
  BY <1>5 DEF Swap
<1>6. ASSUME NEW r \in Reader, LoadActive(r) PROVE CellTypeOK'
  BY <1>6 DEF LoadActive
<1>7. ASSUME NEW r \in Reader, LockSource(r) PROVE CellTypeOK'
  BY <1>7 DEF LockSource
<1>8. ASSUME NEW r \in Reader, ReadHalf(r) PROVE CellTypeOK'
  BY <1>8 DEF ReadHalf
<1>9. ASSUME NEW r \in Reader, FinishRead(r) PROVE CellTypeOK'
  BY <1>9 DEF FinishRead
<1>10. ASSUME UNCHANGED cell_vars PROVE CellTypeOK'
  BY <1>10 DEF cell_vars
<1> QED
  BY <1>1, <1>2, <1>3, <1>4, <1>5, <1>6, <1>7, <1>8, <1>9, <1>10 DEF CellNext

(***************************************************************************)
(* The active buffer is never the one being rendered.                      *)
(***************************************************************************)
LEMMA WholeStep == CellInv /\ [CellNext]_cell_vars => PublishedIsWhole'
<1> SUFFICES ASSUME CellInv, [CellNext]_cell_vars PROVE PublishedIsWhole'
    OBVIOUS
<1> USE ThreadsAreDistinct DEF CellInv, CellTypeOK, PublishedIsWhole, Rendering, Locking, Reading,
      Buffer, inactive, free, swapped, publisher
<1>1. ASSUME StartPublish PROVE PublishedIsWhole'
  BY <1>1 DEF StartPublish
<1>2. ASSUME LockTarget PROVE PublishedIsWhole'
  BY <1>2 DEF LockTarget
<1>3. ASSUME Render PROVE PublishedIsWhole'
  BY <1>3 DEF Render
<1>4. ASSUME FinishRender PROVE PublishedIsWhole'
  BY <1>4 DEF FinishRender
<1>5. ASSUME Swap PROVE PublishedIsWhole'
  BY <1>5 DEF Swap
<1>6. ASSUME NEW r \in Reader, LoadActive(r) PROVE PublishedIsWhole'
  BY <1>6 DEF LoadActive
<1>7. ASSUME NEW r \in Reader, LockSource(r) PROVE PublishedIsWhole'
  BY <1>7 DEF LockSource
<1>8. ASSUME NEW r \in Reader, ReadHalf(r) PROVE PublishedIsWhole'
  BY <1>8 DEF ReadHalf
<1>9. ASSUME NEW r \in Reader, FinishRead(r) PROVE PublishedIsWhole'
  BY <1>9 DEF FinishRead
<1>10. ASSUME UNCHANGED cell_vars PROVE PublishedIsWhole'
  BY <1>10 DEF cell_vars
<1> QED
  BY <1>1, <1>2, <1>3, <1>4, <1>5, <1>6, <1>7, <1>8, <1>9, <1>10 DEF CellNext

(***************************************************************************)
(* The rendered buffer fills up with the blob being published, and nothing *)
(* else changes a buffer.                                                  *)
(***************************************************************************)
LEMMA RenderingStep == CellInv /\ [CellNext]_cell_vars => Rendering'
<1> SUFFICES ASSUME CellInv, [CellNext]_cell_vars PROVE Rendering'
    OBVIOUS
<1> USE ThreadsAreDistinct DEF CellInv, CellTypeOK, PublishedIsWhole, Rendering, Locking, Reading,
      Buffer, inactive, free, swapped, publisher
<1>1. ASSUME StartPublish PROVE Rendering'
  BY <1>1 DEF StartPublish
<1>2. ASSUME LockTarget PROVE Rendering'
  BY <1>2 DEF LockTarget
<1>3. ASSUME Render PROVE Rendering'
  BY <1>3 DEF Render
<1>4. ASSUME FinishRender PROVE Rendering'
  BY <1>4 DEF FinishRender
<1>5. ASSUME Swap PROVE Rendering'
  BY <1>5 DEF Swap
<1>6. ASSUME NEW r \in Reader, LoadActive(r) PROVE Rendering'
  BY <1>6 DEF LoadActive
<1>7. ASSUME NEW r \in Reader, LockSource(r) PROVE Rendering'
  BY <1>7 DEF LockSource
<1>8. ASSUME NEW r \in Reader, ReadHalf(r) PROVE Rendering'
  BY <1>8 DEF ReadHalf
<1>9. ASSUME NEW r \in Reader, FinishRead(r) PROVE Rendering'
  BY <1>9 DEF FinishRead
<1>10. ASSUME UNCHANGED cell_vars PROVE Rendering'
  BY <1>10 DEF cell_vars
<1> QED
  BY <1>1, <1>2, <1>3, <1>4, <1>5, <1>6, <1>7, <1>8, <1>9, <1>10 DEF CellNext

(***************************************************************************)
(* A lock has one holder, and it is where the code says.                   *)
(***************************************************************************)
LEMMA LockingStep == CellInv /\ [CellNext]_cell_vars => Locking'
<1> SUFFICES ASSUME CellInv, [CellNext]_cell_vars PROVE Locking'
    OBVIOUS
<1> USE ThreadsAreDistinct DEF CellInv, CellTypeOK, PublishedIsWhole, Rendering, Locking, Reading,
      Buffer, inactive, free, swapped, publisher
<1>1. ASSUME StartPublish PROVE Locking'
  BY <1>1 DEF StartPublish
<1>2. ASSUME LockTarget PROVE Locking'
  BY <1>2 DEF LockTarget
<1>3. ASSUME Render PROVE Locking'
  BY <1>3 DEF Render
<1>4. ASSUME FinishRender PROVE Locking'
  BY <1>4 DEF FinishRender
<1>5. ASSUME Swap PROVE Locking'
  BY <1>5 DEF Swap
<1>6. ASSUME NEW r \in Reader, LoadActive(r) PROVE Locking'
  BY <1>6 DEF LoadActive
<1>7. ASSUME NEW r \in Reader, LockSource(r) PROVE Locking'
  BY <1>7 DEF LockSource
<1>8. ASSUME NEW r \in Reader, ReadHalf(r) PROVE Locking'
  BY <1>8 DEF ReadHalf
<1>9. ASSUME NEW r \in Reader, FinishRead(r) PROVE Locking'
  BY <1>9 DEF FinishRead
<1>10. ASSUME UNCHANGED cell_vars PROVE Locking'
  BY <1>10 DEF cell_vars
<1> QED
  BY <1>1, <1>2, <1>3, <1>4, <1>5, <1>6, <1>7, <1>8, <1>9, <1>10 DEF CellNext

(***************************************************************************)
(* A buffer never holds an older blob than before, and a locked one does   *)
(* not change.                                                             *)
(***************************************************************************)
LEMMA ReadingStep == CellInv /\ [CellNext]_cell_vars => Reading'
<1> SUFFICES ASSUME CellInv, [CellNext]_cell_vars PROVE Reading'
    OBVIOUS
<1> USE ThreadsAreDistinct DEF CellInv, CellTypeOK, PublishedIsWhole, Rendering, Locking, Reading,
      Buffer, inactive, free, swapped, publisher
<1>1. ASSUME StartPublish PROVE Reading'
  BY <1>1 DEF StartPublish
<1>2. ASSUME LockTarget PROVE Reading'
  BY <1>2 DEF LockTarget
<1>3. ASSUME Render PROVE Reading'
  BY <1>3 DEF Render
<1>4. ASSUME FinishRender PROVE Reading'
  BY <1>4 DEF FinishRender
<1>5. ASSUME Swap PROVE Reading'
  BY <1>5 DEF Swap
<1>6. ASSUME NEW r \in Reader, LoadActive(r) PROVE Reading'
  BY <1>6 DEF LoadActive
<1>7. ASSUME NEW r \in Reader, LockSource(r) PROVE Reading'
  BY <1>7 DEF LockSource
<1>8. ASSUME NEW r \in Reader, ReadHalf(r) PROVE Reading'
  BY <1>8 DEF ReadHalf
<1>9. ASSUME NEW r \in Reader, FinishRead(r) PROVE Reading'
  BY <1>9 DEF FinishRead
<1>10. ASSUME UNCHANGED cell_vars PROVE Reading'
  BY <1>10 DEF cell_vars
<1> QED
  BY <1>1, <1>2, <1>3, <1>4, <1>5, <1>6, <1>7, <1>8, <1>9, <1>10 DEF CellNext

(***************************************************************************)
(* CellInv is an inductive invariant of the cell.                             *)
(***************************************************************************)
THEOREM CellInvariant == CellSpec => []CellInv
<1>1. CellInit => CellInv
  BY ThreadsAreDistinct DEF CellInit, CellInv, CellTypeOK, PublishedIsWhole, Rendering, Locking, Reading,
     Buffer, inactive
<1>2. CellInv /\ [CellNext]_cell_vars => CellInv'
  BY CellTypeStep, WholeStep, RenderingStep, LockingStep, ReadingStep DEF CellInv
<1> QED
  BY <1>1, <1>2, PTL DEF CellSpec

(***************************************************************************)
(* The cell is type-correct: the active index stays an index.              *)
(***************************************************************************)
THEOREM CellTypeCorrect == CellSpec => []CellTypeOK
<1>1. CellInv => CellTypeOK
  BY DEF CellInv
<1> QED
  BY <1>1, CellInvariant, PTL

(***************************************************************************)
(* At every moment of publish the active buffer is a whole published blob. *)
(***************************************************************************)
THEOREM ActiveIsWhole == CellSpec => []PublishedIsWhole
<1>1. CellInv => PublishedIsWhole
  BY DEF CellInv
<1> QED
  BY <1>1, CellInvariant, PTL

(***************************************************************************)
(* read_current never returns a torn mix of two blobs.                     *)
(***************************************************************************)
THEOREM ReadsAreNeverTorn == CellSpec => []NeverTorn
<1>1. CellInv => NeverTorn
  BY DEF CellInv, Reading, NeverTorn
<1> QED
  BY <1>1, CellInvariant, PTL

(***************************************************************************)
(* The two buffers and their locks implement the abstract cell: a read     *)
(* returns one whole blob, published no earlier than the one that was      *)
(* current when it began.                                                  *)
(***************************************************************************)
THEOREM CellRefinement == CellSpec => ImplementsTeardownBlob
<1>1. CellInit => Abstract!Init
  BY DEF CellInit, Abstract!Init
<1>2. CellInv /\ [CellNext]_cell_vars => [Abstract!Next]_(Abstract!vars)
  <2> SUFFICES ASSUME CellInv, [CellNext]_cell_vars PROVE [Abstract!Next]_(Abstract!vars)
      OBVIOUS
  <2> USE ThreadsAreDistinct DEF CellInv, Abstract!vars
  <2>1. CASE StartPublish
    BY <2>1 DEF StartPublish, Rendering, Abstract!Next, Abstract!Begin
  <2>2. CASE LockTarget
    BY <2>2 DEF LockTarget
  <2>3. CASE Render
    BY <2>3 DEF Render
  <2>4. CASE FinishRender
    BY <2>4 DEF FinishRender
  <2>5. CASE Swap
    BY <2>5 DEF Swap, Abstract!Next, Abstract!Finish
  <2>6. ASSUME NEW r \in Reader, LoadActive(r) PROVE Abstract!Next
    <3>1. Abstract!StartRead(r)
      BY <2>6 DEF LoadActive, Reading, Abstract!StartRead, publisher
    <3> QED
      BY <3>1 DEF Abstract!Next
  <2>7. ASSUME NEW r \in Reader, LockSource(r) PROVE UNCHANGED Abstract!vars
    BY <2>7 DEF LockSource, publisher
  <2>8. ASSUME NEW r \in Reader, ReadHalf(r) PROVE UNCHANGED Abstract!vars
    BY <2>8 DEF ReadHalf, publisher
  <2>9. ASSUME NEW r \in Reader, FinishRead(r) PROVE Abstract!Next
    <3> DEFINE n == first[r]
    <3> DEFINE s == source[r]
    <3>1. reading[r] = "finish" /\ s \in Buffer /\ owner[s] = r /\ r # Publisher
      BY <2>9 DEF FinishRead, CellTypeOK, Locking
    <3>2. ~ (publishing \in {"render", "finish"} /\ s = target)
      BY <3>1 DEF Locking
    <3>3. buffers[s][1] = buffers[s][2] /\ n = buffers[s][1]
      BY <3>1, <3>2 DEF Rendering, Reading
    <3>4. n \in Nat /\ begun \in Nat /\ oldest[r] \in Nat
      BY DEF CellTypeOK
    <3>5. oldest[r] <= n /\ n <= begun
      BY <3>1, <3>3 DEF Rendering, Reading
    <3>6. n \in oldest[r] .. begun
      BY <3>4, <3>5
    <3>7. got' = [got EXCEPT ![r] = n]
      BY <2>9, <3>3 DEF FinishRead
    <3>8. Abstract!EndRead(r)
      BY <2>9, <3>6, <3>7 DEF FinishRead, Reading, Abstract!EndRead, publisher
    <3> QED
      BY <3>8 DEF Abstract!Next
  <2>10. CASE UNCHANGED cell_vars
    BY <2>10 DEF cell_vars
  <2> QED
    BY <2>1, <2>2, <2>3, <2>4, <2>5, <2>6, <2>7, <2>8, <2>9, <2>10 DEF CellNext
<1> QED
  BY <1>1, <1>2, CellInvariant, PTL DEF CellSpec, ImplementsTeardownBlob, Abstract!Spec

-----------------------------------------------------------------------------
(***************************************************************************)
(* The console worker.  The thread and a child are never both readers of   *)
(* the console, and read reports the end of input of a broken console only.*)
(***************************************************************************)
Active == {"wait", "read", "send", "tail"}

\* Without a receiver from the moment the session hangs up until it respawns.
HungUp == session \in {"join", "child", "reset", "spawn", "dropped", "panicked"} => ~ receiver

\* While the session listens to a thread, the event of the last pause is reset.
EventIsFresh ==
  /\ receiver /\ waker => session = "hang_up"
  /\ session = "spawn" => ~ waker

\* A thread that ended while the session may read from it met a broken console.
EndsForCause ==
  /\ worker = "tail" => broken # "no"
  /\ worker = "done" /\ receiver /\ session # "hang_up" => broken # "no"

IInv == HungUp /\ EventIsFresh /\ EndsForCause /\ OneReader /\ NoFalseEof

-----------------------------------------------------------------------------
LEMMA InitHolds == Init => IInv
BY DEF Init, IInv, HungUp, EventIsFresh, EndsForCause, OneReader, NoFalseEof

LEMMA StepKeeps == IInv /\ [Next]_vars => IInv'
<1> SUFFICES ASSUME IInv, [Next]_vars PROVE IInv'
  OBVIOUS
<1> USE DEF IInv, HungUp, EventIsFresh, EndsForCause, OneReader, NoFalseEof
<1>1. CASE Deliver
  BY <1>1 DEF Deliver, thread, control, app
<1>2. CASE Break
  BY <1>2 DEF Break, thread, control, app
<1>3. CASE Wait
  BY <1>3 DEF Wait, input_ready, terminal, control, app
<1>4. CASE Read
  <2>1. worker = "read" /\ worker' \in {"wait", "send"}
    BY <1>4 DEF Read
  <2> QED
    BY <1>4, <2>1 DEF Read, control, app
<1>5. CASE ReadError
  BY <1>5 DEF ReadError, terminal, control, app
<1>6. CASE ReadNothing
  <2>1. /\ worker = "read" /\ worker' \in {"done", "tail"} /\ broken = "eof"
        /\ UNCHANGED <<terminal, waker, receiver, control, app>>
    BY <1>6 DEF ReadNothing
  <2> QED
    BY <2>1 DEF terminal, control, app
<1>7. CASE Send
  <2>1. /\ worker \in {"send", "tail"} /\ worker' \in {"wait", "done"}
        /\ UNCHANGED <<terminal, waker, receiver, control, app>>
    BY <1>7 DEF Send
  <2>2. worker' = "done" => worker = "tail" \/ ~ receiver
    BY <1>7 DEF Send
  <2> QED
    BY <2>1, <2>2 DEF terminal, control, app
<1>8. CASE \E size \in 1 .. MaxBuffer : read(size)
  <2>1. /\ session = "idle" /\ UNCHANGED <<terminal, waker, receiver, worker, control>>
        /\ at_eof' # at_eof => receiver /\ worker = "done"
    BY <1>8 DEF read, thread
  <2> QED
    BY <2>1 DEF terminal, control
<1>9. CASE ReadPanics
  BY <1>9 DEF ReadPanics, terminal, thread, app
<1>10. CASE RunDetached
  BY <1>10 DEF RunDetached, terminal, thread
<1>11. CASE DropSession
  BY <1>11 DEF DropSession, terminal, thread, app
<1>12. CASE SetEvent
  BY <1>12 DEF SetEvent, terminal, thread, app
<1>13. CASE HangUp
  BY <1>13 DEF HangUp, terminal, thread, app
<1>14. CASE Join
  BY <1>14 DEF Join, terminal, app
<1>15. CASE ResetEvent
  BY <1>15 DEF ResetEvent, terminal, thread, app
<1>16. CASE Respawn
  <2>1. CASE spawn_worker /\ at_eof' = FALSE
    BY <1>16, <2>1 DEF Respawn, spawn_worker, terminal
  <2>2. CASE UNCHANGED <<receiver, thread, at_eof>>
    BY <1>16, <2>2 DEF Respawn, terminal, thread
  <2> QED
    BY <1>16, <2>1, <2>2 DEF Respawn
<1>17. CASE ChildReads
  BY <1>17 DEF ChildReads, thread, control, app
<1>18. CASE ChildReturns
  BY <1>18 DEF ChildReturns, terminal, thread, app
<1>19. CASE UNCHANGED vars
  BY <1>19 DEF vars, terminal, thread, control, app
<1> QED
  BY <1>1, <1>2, <1>3, <1>4, <1>5, <1>6, <1>7, <1>8, <1>9, <1>10, <1>11, <1>12, <1>13,
     <1>14, <1>15, <1>16, <1>17, <1>18, <1>19 DEF Next, Worker, Job

\* IInv is an invariant of the transport (mod windows_transport of readiness.rs).
THEOREM InductiveInvariant == Spec => []IInv
<1>1. Init => IInv
  BY InitHolds
<1>2. IInv /\ [Next]_vars => IInv'
  BY StepKeeps
<1> QED
  BY <1>1, <1>2, PTL DEF Spec

\* pause joins the thread before it returns, and Drop does (readiness.rs:482):
\* whoever reads the console, only one does.
THEOREM OnlyOneReads == Spec => []OneReader
<1>1. IInv => OneReader
  BY DEF IInv
<1> QED
  BY <1>1, InductiveInvariant, PTL

\* resume resets the event before it spawns (readiness.rs:508), so no thread
\* ends of a pause that is over, and recv returns None for a broken console.
THEOREM EofIsReal == Spec => []NoFalseEof
<1>1. IInv => NoFalseEof
  BY DEF IInv
<1> QED
  BY <1>1, InductiveInvariant, PTL

=============================================================================
