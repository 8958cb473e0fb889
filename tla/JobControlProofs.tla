-------------------------- MODULE JobControlProofs ---------------------------
(***************************************************************************)
(* What JobControl promises of the terminal and of the descriptor, for any *)
(* modes and threads, any number of tries, and any number of jobs.         *)
(*                                                                         *)
(* The session inside a job keeps the invariant of SessionLifecycle, whose *)
(* proof is used here; the other program's changes keep it too.  To that   *)
(* come the control of a job (what each step says of the session and of    *)
(* the owner), the descriptor (who has set its flags), and the replay (the *)
(* entries applied so far are on).                                         *)
(***************************************************************************)
EXTENDS JobControl, TLAPS

Lifecycle == INSTANCE SessionLifecycleProofs

JobType ==
  /\ job \in {"none", "open", "suspend", "resume", "detach", "close"}
  /\ at \in { "none", "entering", "backing_out", "sleeping", "flags", "size",
              "leaving", "child" }
  /\ attempt \in 1 .. Retries
  /\ failed \in BOOLEAN
  /\ owner \in {"session", "shell", "child"}
  /\ flags \in {"original", "nonblocking", "other"}
  /\ registered \in BOOLEAN
  /\ handed_back \in BOOLEAN /\ disturbed \in BOOLEAN

\* The steps of each job, and who owns the terminal at them.
Steps ==
  /\ job = "none" <=> at = "none"
  /\ job \in {"suspend", "close"} => at = "leaving"
  /\ job = "open" => at = "entering"
  /\ at = "sleeping" => retrying /\ attempt < Retries
  /\ at = "backing_out" => retrying
  /\ owner = "child" <=> at = "child"
  /\ owner = "shell" => job = "none"
  /\ at = "child" => job = "detach"

\* What the session is doing at each step.
Standing ==
  /\ at \in {"leaving", "backing_out"} => ~ entered /\ pc \in {"idle", "undoing", "dropped"}
  /\ at = "sleeping" \/ owner # "session" => ~ entered /\ pc = "idle"
  /\ pc \in {"applying", "arming"} => at = "entering"
  /\ at = "entering" => pc \in {"applying", "arming", "idle"} /\ (pc = "idle" => entered)
  /\ at \in {"flags", "size"} => pc = "idle"
  /\ at = "size" \/ (at = "flags" /\ job = "resume") => entered
  /\ pc = "enabling" => at = "none"
  /\ pc = "dropped" => job = "close"

\* Who has set the flags of the shared descriptor.
Descriptor ==
  /\ ~ registered => flags # "nonblocking"
  /\ owner = "child" => ~ registered
  /\ job = "close" => flags # "nonblocking"
  /\ at = "size" => registered /\ flags = "nonblocking"
  /\ job = "detach" /\ at \in {"entering", "backing_out", "sleeping"} =>
       registered /\ flags = "nonblocking"

\* With nobody in between, what the ledger says is on, and covered.
Replaying ==
  ~ disturbed =>
    /\ pc = "applying" /\ ~ failed => \A i \in DOMAIN ledger : i < pos => level[ledger[i]] > 0
    /\ pc = "arming" /\ ~ failed => \A i \in DOMAIN ledger : level[ledger[i]] > 0
    /\ entered /\ pc \in {"idle", "enabling"} /\ ~ (at = "entering" /\ failed) =>
         /\ HasHandle => armed
         /\ \A i \in DOMAIN ledger : level[ledger[i]] > 0
    /\ pc = "enabling" => level[cur] > 0

IInv == Session!IInv /\ JobType /\ Steps /\ Standing /\ Descriptor /\ Replaying

-----------------------------------------------------------------------------
(***************************************************************************)
(* The two instances of SessionLifecycle are one.                          *)
(***************************************************************************)
LEMMA SameAssumption == Lifecycle!KindsAreDistinct
BY SessionAssumption DEF Lifecycle!KindsAreDistinct, Session!KindsAreDistinct,
   Lifecycle!Kind, Lifecycle!Protocol, Session!Kind, Session!Protocol

LEMMA SameInvariant == Lifecycle!IInv <=> Session!IInv
BY DEF Lifecycle!IInv, Lifecycle!TypeOK, Lifecycle!Control, Lifecycle!Claiming,
   Lifecycle!Recording, Lifecycle!Loose, Lifecycle!Undoing, Lifecycle!recorded,
   Lifecycle!will_reset, Lifecycle!in_force, Lifecycle!Kind, Lifecycle!Protocol,
   Session!IInv, Session!TypeOK, Session!Control, Session!Claiming,
   Session!Recording, Session!Loose, Session!Undoing, Session!recorded,
   Session!will_reset, Session!in_force, Session!Kind, Session!Protocol

LEMMA SameInvariantNext == Lifecycle!IInv' <=> Session!IInv'
BY SameInvariant, PTL

LEMMA SameNext == [Session!Next]_session => [Lifecycle!Next]_(Lifecycle!vars)
BY DEF Lifecycle!Next, Session!Next, session, Lifecycle!vars, Session!Enter,
   Session!Applied, Session!Arm, Session!ApplyEntry, Session!EnableWrite,
   Session!EnableForgotten, Session!TrackMode, Session!Reset, Session!Leave,
   Session!Undone, Session!DropDevice, Session!UndoEntry, Session!HookClaim,
   Session!HookWrite, Session!HookMode, Session!shared, Session!recorded,
   Session!record, Session!protocol_undo_bytes, Session!claims, Session!in_force,
   Session!Excuse, Session!pushed_twice, Session!apply_level, Session!undo_level,
   Session!published, Session!Kind, Session!Protocol, Lifecycle!Enter,
   Lifecycle!Applied, Lifecycle!Arm, Lifecycle!ApplyEntry, Lifecycle!EnableWrite,
   Lifecycle!EnableForgotten, Lifecycle!TrackMode, Lifecycle!Reset, Lifecycle!Leave,
   Lifecycle!Undone, Lifecycle!DropDevice, Lifecycle!UndoEntry, Lifecycle!HookClaim,
   Lifecycle!HookWrite, Lifecycle!HookMode, Lifecycle!shared, Lifecycle!recorded,
   Lifecycle!record, Lifecycle!protocol_undo_bytes, Lifecycle!claims,
   Lifecycle!in_force, Lifecycle!Excuse, Lifecycle!pushed_twice, Lifecycle!apply_level,
   Lifecycle!undo_level, Lifecycle!published, Lifecycle!Kind, Lifecycle!Protocol

LEMMA SessionStep == Session!IInv /\ [Session!Next]_session => Session!IInv'
BY Lifecycle!StepKeeps, SameAssumption, SameInvariant, SameInvariantNext, SameNext

-----------------------------------------------------------------------------
(***************************************************************************)
(* Every step but the other program's is a step of the session or none.    *)
(***************************************************************************)
LEMMA SessionMoves ==
  ASSUME [Next]_vars, ~ Meddle
  PROVE  [Session!Next]_session
<1> USE DEF enter_call, leave_call, back_out
<1>1. CASE Replay
  BY <1>1 DEF Replay, Session!Next
<1>2. CASE BackOut \/ Wake \/ Suspend \/ Resume \/ RunDetached \/ Close
  BY <1>2 DEF BackOut, Wake, Suspend, Resume, RunDetached, Close, Session!Next
<1>3. CASE ReassertNonblocking
  BY <1>3 DEF ReassertNonblocking, Session!Next
<1>4. CASE ChangeModes
  BY <1>4 DEF ChangeModes, Session!Next
<1>5. CASE PanicHook
  BY <1>5 DEF PanicHook, Session!Next
<1>6. CASE Drop
  BY <1>6 DEF Drop, Session!Next
<1>7. CASE \/ Opened \/ Stop \/ NotStopped \/ Reentered \/ Sleep \/ GiveUp
           \/ StepFails \/ HandBack \/ NotDetached \/ Detach
           \/ Continue \/ Reattach \/ ReattachFails \/ UNCHANGED vars
  BY <1>7 DEF Opened, Stop, NotStopped, Reentered, Sleep, GiveUp, StepFails, HandBack,
     NotDetached, Detach, Continue, Reattach, ReattachFails, vars
<1> QED
  BY <1>1, <1>2, <1>3, <1>4, <1>5, <1>6, <1>7 DEF Next, OwnStep

LEMMA SessionKeeps == IInv /\ [Next]_vars => Session!IInv'
<1> SUFFICES ASSUME IInv, [Next]_vars PROVE Session!IInv'
  OBVIOUS
<1>1. CASE Meddle
  <2> USE <1>1, SessionAssumption
      DEF Meddle, IInv, Steps, Standing, Session!KindsAreDistinct,
          Session!IInv, Session!Kind, Session!Protocol
  <2>1. pc = "idle" /\ ~ entered
    OBVIOUS
  <2>2. Session!TypeOK'
    BY DEF Session!TypeOK
  <2>3. Session!Control' /\ Session!Claiming'
    BY DEF Session!Control, Session!Claiming
  <2>4. Session!recorded' = Session!recorded
    BY DEF Session!recorded
  <2>5. Session!Recording'
    BY <2>4 DEF Session!Recording, Session!TypeOK
  <2>6. Session!Loose'
    BY <2>1 DEF Session!Loose, Session!in_force, Session!will_reset, Session!TypeOK
  <2>7. Session!Undoing'
    BY <2>1 DEF Session!Undoing
  <2> QED
    BY <2>2, <2>3, <2>5, <2>6, <2>7
<1>2. CASE ~ Meddle
  BY <1>2, SessionMoves, SessionStep DEF IInv
<1> QED
  BY <1>1, <1>2

-----------------------------------------------------------------------------
LEMMA JobTypeKeeps == IInv /\ [Next]_vars => JobType'
<1> SUFFICES ASSUME IInv, [Next]_vars PROVE JobType'
  OBVIOUS
<1> USE DEF IInv, JobType, Steps, session, progress, transport, Start, End,
      Reach, replayed, retrying, idle
<1>1. CASE Replay
  BY <1>1 DEF Replay
<1>2. CASE Opened
  BY <1>2 DEF Opened
<1>3. CASE Stop
  BY <1>3 DEF Stop
<1>4. CASE NotStopped
  BY <1>4 DEF NotStopped
<1>5. CASE Reentered
  BY <1>5 DEF Reentered
<1>6. CASE BackOut
  BY <1>6 DEF BackOut, back_out, leave_call
<1>7. CASE Sleep
  BY <1>7 DEF Sleep, tries_left
<1>8. CASE Wake
  <2>1. attempt' \in 1 .. Retries
    BY <1>8, RetriesAssumption DEF Wake, next_attempt
  <2>2. disturbed' \in BOOLEAN
    BY <1>8 DEF Wake, enter_call
  <2> QED
    BY <1>8, <2>1, <2>2 DEF Wake
<1>9. CASE GiveUp
  BY <1>9 DEF GiveUp
<1>10. CASE ReassertNonblocking
  <2>1. attempt' \in 1 .. Retries
    BY <1>10, RetriesAssumption DEF ReassertNonblocking
  <2>2. disturbed' \in BOOLEAN
    BY <1>10 DEF ReassertNonblocking, enter_call
  <2> QED
    BY <1>10, <2>1, <2>2 DEF ReassertNonblocking, reasserted_flags
<1>11. CASE StepFails
  BY <1>11 DEF StepFails
<1>12. CASE HandBack
  BY <1>12 DEF HandBack
<1>13. CASE NotDetached
  BY <1>13 DEF NotDetached
<1>14. CASE Detach
  BY <1>14 DEF Detach, restored_flags
<1>15. CASE Drop
  BY <1>15 DEF Drop
<1>16. CASE Suspend
  BY <1>16 DEF Suspend, leave_call
<1>17. CASE Resume
  <2>1. attempt' \in 1 .. Retries
    BY <1>17, RetriesAssumption DEF Resume
  <2>2. disturbed' \in BOOLEAN
    BY <1>17 DEF Resume, enter_call
  <2> QED
    BY <1>17, <2>1, <2>2 DEF Resume
<1>18. CASE RunDetached
  BY <1>18 DEF RunDetached, leave_call
<1>19. CASE Close
  BY <1>19 DEF Close, restored_flags, unwinds, leave_call
<1>20. CASE Meddle
  BY <1>20 DEF Meddle
<1>21. CASE Continue
  BY <1>21 DEF Continue
<1>22. CASE Reattach
  BY <1>22 DEF Reattach
<1>23. CASE ReattachFails
  BY <1>23 DEF ReattachFails
<1>24. CASE ChangeModes
  BY <1>24 DEF ChangeModes
<1>25. CASE PanicHook
  BY <1>25 DEF PanicHook
<1>26. CASE UNCHANGED vars
  BY <1>26 DEF vars
<1> QED
  BY <1>1, <1>2, <1>3, <1>4, <1>5, <1>6, <1>7, <1>8, <1>9, <1>10, <1>11,
     <1>12, <1>13, <1>14, <1>15, <1>16, <1>17, <1>18, <1>19, <1>20, <1>21,
     <1>22, <1>23, <1>24, <1>25, <1>26 DEF Next, OwnStep

LEMMA StepsKeep == IInv /\ [Next]_vars => Steps'
<1> SUFFICES ASSUME IInv, [Next]_vars PROVE Steps'
  OBVIOUS
<1> USE DEF IInv, JobType, Steps, session, progress, transport, Start, End,
      Reach, replayed, retrying, idle
<1>1. CASE Replay
  BY <1>1 DEF Replay
<1>2. CASE Opened
  BY <1>2 DEF Opened
<1>3. CASE Stop
  BY <1>3 DEF Stop
<1>4. CASE NotStopped
  BY <1>4 DEF NotStopped
<1>5. CASE Reentered
  BY <1>5 DEF Reentered
<1>6. CASE BackOut
  BY <1>6 DEF BackOut, back_out, leave_call
<1>7. CASE Sleep
  BY <1>7 DEF Sleep, tries_left
<1>8. CASE Wake
  BY <1>8 DEF Wake, next_attempt, enter_call, tries_left
<1>9. CASE GiveUp
  BY <1>9 DEF GiveUp
<1>10. CASE ReassertNonblocking
  BY <1>10 DEF ReassertNonblocking, enter_call
<1>11. CASE StepFails
  BY <1>11 DEF StepFails
<1>12. CASE HandBack
  BY <1>12 DEF HandBack
<1>13. CASE NotDetached
  BY <1>13 DEF NotDetached
<1>14. CASE Detach
  BY <1>14 DEF Detach, restored_flags
<1>15. CASE Drop
  BY <1>15 DEF Drop
<1>16. CASE Suspend
  BY <1>16 DEF Suspend, leave_call
<1>17. CASE Resume
  BY <1>17 DEF Resume, enter_call
<1>18. CASE RunDetached
  BY <1>18 DEF RunDetached, leave_call
<1>19. CASE Close
  BY <1>19 DEF Close, restored_flags, unwinds, leave_call
<1>20. CASE Meddle
  BY <1>20 DEF Meddle
<1>21. CASE Continue
  BY <1>21 DEF Continue
<1>22. CASE Reattach
  BY <1>22 DEF Reattach
<1>23. CASE ReattachFails
  BY <1>23 DEF ReattachFails
<1>24. CASE ChangeModes
  BY <1>24 DEF ChangeModes
<1>25. CASE PanicHook
  BY <1>25 DEF PanicHook
<1>26. CASE UNCHANGED vars
  BY <1>26 DEF vars
<1> QED
  BY <1>1, <1>2, <1>3, <1>4, <1>5, <1>6, <1>7, <1>8, <1>9, <1>10, <1>11,
     <1>12, <1>13, <1>14, <1>15, <1>16, <1>17, <1>18, <1>19, <1>20, <1>21,
     <1>22, <1>23, <1>24, <1>25, <1>26 DEF Next, OwnStep

LEMMA StandingKeeps == IInv /\ [Next]_vars => Standing'
<1> SUFFICES ASSUME IInv, [Next]_vars PROVE Standing'
  OBVIOUS
<1> USE DEF IInv, JobType, Steps, Standing, session, progress, transport,
      Start, End, Reach, replayed, retrying, idle
<1>1. CASE Replay
  <2>1. /\ job' = job /\ at' = at /\ owner' = owner
        /\ job # "none"
    BY <1>1 DEF Replay
  <2>2. CASE \E effect \in BOOLEAN : Session!ApplyEntry(effect)
    BY <2>1, <2>2 DEF Session!ApplyEntry
  <2>3. CASE \E effect \in BOOLEAN : Session!UndoEntry(effect)
    BY <2>1, <2>3 DEF Session!UndoEntry
  <2>4. CASE Session!Applied
    BY <2>1, <2>4 DEF Session!Applied
  <2>5. CASE Session!Arm
    BY <2>1, <2>5 DEF Session!Arm, Session!IInv, Session!Control
  <2>6. CASE Session!Undone
    BY <2>1, <2>6 DEF Session!Undone
  <2> QED
    BY <1>1, <2>2, <2>3, <2>4, <2>5, <2>6 DEF Replay
<1>2. CASE Opened
  BY <1>2 DEF Opened
<1>3. CASE Stop
  BY <1>3 DEF Stop
<1>4. CASE NotStopped
  BY <1>4 DEF NotStopped
<1>5. CASE Reentered
  BY <1>5 DEF Reentered
<1>6. CASE BackOut
  BY <1>6 DEF BackOut, back_out, leave_call, Session!Leave, Session!shared
<1>7. CASE Sleep
  BY <1>7 DEF Sleep, tries_left
<1>8. CASE Wake
  BY <1>8 DEF Wake, next_attempt, enter_call, tries_left, Session!Enter,
     Session!shared
<1>9. CASE GiveUp
  BY <1>9 DEF GiveUp
<1>10. CASE ReassertNonblocking
  BY <1>10 DEF ReassertNonblocking, reasserted_flags, enter_call,
     Session!Enter, Session!shared
<1>11. CASE StepFails
  BY <1>11 DEF StepFails
<1>12. CASE HandBack
  BY <1>12 DEF HandBack
<1>13. CASE NotDetached
  BY <1>13 DEF NotDetached
<1>14. CASE Detach
  BY <1>14 DEF Detach, restored_flags
<1>15. CASE Drop
  BY <1>15 DEF Drop, Session!DropDevice, Session!shared
<1>16. CASE Suspend
  BY <1>16 DEF Suspend, leave_call, Session!Leave, Session!shared
<1>17. CASE Resume
  BY <1>17 DEF Resume, enter_call, Session!Enter, Session!shared
<1>18. CASE RunDetached
  BY <1>18 DEF RunDetached, leave_call, Session!Leave, Session!shared
<1>19. CASE Close
  BY <1>19 DEF Close, restored_flags, unwinds, leave_call, Session!Leave,
     Session!shared
<1>20. CASE Meddle
  BY <1>20 DEF Meddle
<1>21. CASE Continue
  BY <1>21 DEF Continue
<1>22. CASE Reattach
  BY <1>22 DEF Reattach
<1>23. CASE ReattachFails
  BY <1>23 DEF ReattachFails
<1>24. CASE ChangeModes
  BY <1>24 DEF ChangeModes, Session!EnableWrite, Session!EnableForgotten,
     Session!TrackMode, Session!Reset, Session!shared
<1>25. CASE PanicHook
  <2>1. UNCHANGED <<progress, owner, entered, pc>>
    BY <1>25 DEF PanicHook, Session!HookClaim, Session!HookWrite, Session!HookMode
  <2> QED
    BY <2>1
<1>26. CASE UNCHANGED vars
  BY <1>26 DEF vars
<1> QED
  BY <1>1, <1>2, <1>3, <1>4, <1>5, <1>6, <1>7, <1>8, <1>9, <1>10, <1>11,
     <1>12, <1>13, <1>14, <1>15, <1>16, <1>17, <1>18, <1>19, <1>20, <1>21,
     <1>22, <1>23, <1>24, <1>25, <1>26 DEF Next, OwnStep

LEMMA DescriptorKeeps == IInv /\ [Next]_vars => Descriptor'
<1> SUFFICES ASSUME IInv, [Next]_vars PROVE Descriptor'
  OBVIOUS
<1> USE DEF IInv, JobType, Steps, Standing, Descriptor, session, progress,
      transport, Start, End, Reach, replayed, retrying, idle
<1>1. CASE Replay
  BY <1>1 DEF Replay
<1>2. CASE Opened
  BY <1>2 DEF Opened
<1>3. CASE Stop
  BY <1>3 DEF Stop
<1>4. CASE NotStopped
  BY <1>4 DEF NotStopped
<1>5. CASE Reentered
  BY <1>5 DEF Reentered
<1>6. CASE BackOut
  BY <1>6 DEF BackOut, back_out, leave_call
<1>7. CASE Sleep
  BY <1>7 DEF Sleep, tries_left
<1>8. CASE Wake
  BY <1>8 DEF Wake, next_attempt, enter_call, tries_left
<1>9. CASE GiveUp
  BY <1>9 DEF GiveUp
<1>10. CASE ReassertNonblocking
  BY <1>10 DEF ReassertNonblocking, reasserted_flags, enter_call
<1>11. CASE StepFails
  BY <1>11 DEF StepFails
<1>12. CASE HandBack
  BY <1>12 DEF HandBack
<1>13. CASE NotDetached
  BY <1>13 DEF NotDetached
<1>14. CASE Detach
  BY <1>14 DEF Detach, restored_flags
<1>15. CASE Drop
  BY <1>15 DEF Drop
<1>16. CASE Suspend
  BY <1>16 DEF Suspend, leave_call
<1>17. CASE Resume
  BY <1>17 DEF Resume, enter_call
<1>18. CASE RunDetached
  BY <1>18 DEF RunDetached, leave_call
<1>19. CASE Close
  BY <1>19 DEF Close, restored_flags, unwinds, leave_call
<1>20. CASE Meddle
  BY <1>20 DEF Meddle
<1>21. CASE Continue
  BY <1>21 DEF Continue
<1>22. CASE Reattach
  BY <1>22 DEF Reattach
<1>23. CASE ReattachFails
  BY <1>23 DEF ReattachFails
<1>24. CASE ChangeModes
  BY <1>24 DEF ChangeModes
<1>25. CASE PanicHook
  BY <1>25 DEF PanicHook
<1>26. CASE UNCHANGED vars
  BY <1>26 DEF vars
<1> QED
  BY <1>1, <1>2, <1>3, <1>4, <1>5, <1>6, <1>7, <1>8, <1>9, <1>10, <1>11,
     <1>12, <1>13, <1>14, <1>15, <1>16, <1>17, <1>18, <1>19, <1>20, <1>21,
     <1>22, <1>23, <1>24, <1>25, <1>26 DEF Next, OwnStep

LEMMA NothingApplied == Session!IInv => \A i \in DOMAIN ledger : ~ i < 1
BY DEF Session!IInv, Session!TypeOK

LEMMA ReplayingKeeps == IInv /\ [Next]_vars => Replaying'
<1> SUFFICES ASSUME IInv, [Next]_vars PROVE Replaying'
  OBVIOUS
<1> USE DEF IInv, JobType, Steps, Standing, Replaying, session, progress,
      transport, Start, End, Reach, replayed, retrying, idle
<1>1. CASE Replay
  <2> USE DEF Session!IInv, Session!TypeOK
  <2>1. job' = job /\ at' = at /\ disturbed' = disturbed
    BY <1>1 DEF Replay
  <2>2. ASSUME NEW effect \in BOOLEAN, Session!ApplyEntry(effect),
               failed' = (failed \/ ~ effect) \/ failed' = TRUE
        PROVE  Replaying'
    <3>1. /\ pc = "applying" /\ pc' = "applying" /\ pos \in DOMAIN ledger
          /\ pos' = pos + 1 /\ ledger' = ledger
      BY <2>2 DEF Session!ApplyEntry
    <3>2. ASSUME ~ failed' /\ ~ disturbed, NEW i \in DOMAIN ledger, i < pos'
          PROVE  level'[ledger[i]] > 0
      <4>1. effect = TRUE /\ ~ failed
        BY <2>2, <3>2
      <4>2. level' = [level EXCEPT ![ledger[pos]] = Session!apply_level(ledger[pos])]
        BY <2>2, <4>1 DEF Session!ApplyEntry
      <4>3. Session!apply_level(ledger[pos]) > 0
        BY <3>1 DEF Session!apply_level
      <4>4. i < pos \/ i = pos
        BY <3>1, <3>2
      <4> QED
        BY <3>1, <3>2, <4>1, <4>2, <4>3, <4>4
    <3> QED
      BY <2>1, <3>1, <3>2
  <2>3. ASSUME NEW effect \in BOOLEAN, Session!UndoEntry(effect)
        PROVE  Replaying'
    BY <2>3 DEF Session!UndoEntry
  <2>4. ASSUME Session!Applied, failed' = failed
        PROVE  Replaying'
    <3>1. \A i \in DOMAIN ledger : i < pos
      BY <2>4 DEF Session!Applied
    <3> QED
      BY <2>1, <2>4, <3>1 DEF Session!Applied
  <2>5. ASSUME Session!Arm, failed' = failed
        PROVE  Replaying'
    BY <2>1, <2>5 DEF Session!Arm, Session!shared
  <2>6. ASSUME Session!Undone
        PROVE  Replaying'
    BY <2>1, <2>6 DEF Session!Undone, Session!Control
  <2> QED
    BY <1>1, <2>2, <2>3, <2>4, <2>5, <2>6 DEF Replay
<1>2. CASE Opened
  BY <1>2 DEF Opened
<1>3. CASE Stop
  BY <1>3 DEF Stop
<1>4. CASE NotStopped
  BY <1>4 DEF NotStopped
<1>5. CASE Reentered
  BY <1>5 DEF Reentered
<1>6. CASE BackOut
  BY <1>6 DEF BackOut, back_out, leave_call, Session!Leave, Session!shared
<1>7. CASE Sleep
  BY <1>7 DEF Sleep, tries_left
<1>8. CASE Wake
  <2>1. CASE ~ entered /\ Session!Enter
    BY <1>8, <2>1, NothingApplied DEF Wake, Session!Enter, Session!shared
  <2>2. CASE entered /\ UNCHANGED <<session, disturbed>>
    BY <1>8, <2>2 DEF Wake
  <2> QED
    BY <1>8, <2>1, <2>2 DEF Wake, enter_call
<1>9. CASE GiveUp
  BY <1>9 DEF GiveUp
<1>10. CASE ReassertNonblocking
  <2>1. CASE UNCHANGED <<session, disturbed>>
    BY <1>10, <2>1 DEF ReassertNonblocking
  <2>2. CASE ~ entered /\ Session!Enter
    BY <1>10, <2>2, NothingApplied DEF ReassertNonblocking, Session!Enter, Session!shared
  <2> QED
    BY <1>10, <2>1, <2>2 DEF ReassertNonblocking, enter_call
<1>11. CASE StepFails
  BY <1>11 DEF StepFails
<1>12. CASE HandBack
  BY <1>12 DEF HandBack
<1>13. CASE NotDetached
  BY <1>13 DEF NotDetached
<1>14. CASE Detach
  BY <1>14 DEF Detach, restored_flags
<1>15. CASE Drop
  BY <1>15 DEF Drop, Session!DropDevice, Session!shared
<1>16. CASE Suspend
  BY <1>16 DEF Suspend, leave_call, Session!Leave, Session!shared
<1>17. CASE Resume
  <2>1. CASE ~ entered /\ Session!Enter
    BY <1>17, <2>1, NothingApplied DEF Resume, Session!Enter, Session!shared
  <2>2. CASE entered /\ UNCHANGED <<session, disturbed>>
    BY <1>17, <2>2 DEF Resume
  <2> QED
    BY <1>17, <2>1, <2>2 DEF Resume, enter_call
<1>18. CASE RunDetached
  BY <1>18 DEF RunDetached, leave_call, Session!Leave, Session!shared
<1>19. CASE Close
  BY <1>19 DEF Close, restored_flags, unwinds, leave_call, Session!Leave,
     Session!shared
<1>20. CASE Meddle
  BY <1>20 DEF Meddle
<1>21. CASE Continue
  BY <1>21 DEF Continue
<1>22. CASE Reattach
  BY <1>22 DEF Reattach
<1>23. CASE ReattachFails
  BY <1>23 DEF ReattachFails
<1>24. CASE ChangeModes
  <2> USE DEF Session!IInv, Session!TypeOK, Session!shared
  <2>1. job' = job /\ at' = at /\ failed' = failed /\ at = "none"
    BY <1>24 DEF ChangeModes
  <2>2. ASSUME NEW k \in Session!Protocol, Session!EnableWrite(k), UNCHANGED disturbed
        PROVE  Replaying'
    <3>1. level' = [level EXCEPT ![k] = Session!apply_level(k)] /\ k \in Session!Kind
      BY <2>2 DEF Session!EnableWrite, Session!Kind
    <3>2. Session!apply_level(k) > 0
      BY <3>1 DEF Session!apply_level
    <3>3. \A j \in Session!Kind : level[j] > 0 => level'[j] > 0
      BY <3>1, <3>2
    <3>4. level'[k] > 0
      BY <3>1, <3>2
    <3> QED
      BY <2>1, <2>2, <3>3, <3>4 DEF Session!EnableWrite
  <2>3. ASSUME Session!EnableForgotten, UNCHANGED disturbed
        PROVE  Replaying'
    BY <2>1, <2>3 DEF Session!EnableForgotten
  <2>4. ASSUME Session!TrackMode, UNCHANGED disturbed
        PROVE  Replaying'
    <3>1. /\ pc = "enabling" /\ pc' = "idle" /\ level' = level /\ armed' = armed
          /\ entered' = entered /\ ledger' = Session!record(cur)
      BY <2>4 DEF Session!TrackMode
    <3>2. cur \in Session!Kind
      BY <3>1, SessionAssumption
         DEF Session!Control, Session!Kind, Session!KindsAreDistinct
    <3>3. ASSUME NEW i \in DOMAIN ledger'
          PROVE  ledger'[i] = cur \/ \E j \in DOMAIN ledger : ledger'[i] = ledger[j]
      BY <3>1, <3>2, <3>3 DEF Session!record
    <3> QED
      BY <2>1, <2>4, <3>1, <3>3
  <2>5. ASSUME disturbed' = TRUE
        PROVE  Replaying'
    BY <2>5
  <2> QED
    BY <1>24, <2>2, <2>3, <2>4, <2>5 DEF ChangeModes
<1>25. CASE PanicHook
  BY <1>25 DEF PanicHook
<1>26. CASE UNCHANGED vars
  BY <1>26 DEF vars
<1> QED
  BY <1>1, <1>2, <1>3, <1>4, <1>5, <1>6, <1>7, <1>8, <1>9, <1>10, <1>11,
     <1>12, <1>13, <1>14, <1>15, <1>16, <1>17, <1>18, <1>19, <1>20, <1>21,
     <1>22, <1>23, <1>24, <1>25, <1>26 DEF Next, OwnStep

LEMMA StepKeeps == IInv /\ [Next]_vars => IInv'
BY SessionKeeps, JobTypeKeeps, StepsKeep, StandingKeeps, DescriptorKeeps, ReplayingKeeps
   DEF IInv

LEMMA InitHolds == Init => IInv
<1> SUFFICES ASSUME Init PROVE IInv
  OBVIOUS
<1>1. Lifecycle!Init
  BY DEF Init, Session!Init, Lifecycle!Init, Session!Kind, Session!Protocol,
     Lifecycle!Kind, Lifecycle!Protocol
<1>2. Session!IInv
  BY <1>1, Lifecycle!InitHolds, SameAssumption, SameInvariant
<1>3. JobType
  <2>1. 1 \in 1 .. Retries
    BY RetriesAssumption
  <2> QED
    BY <2>1 DEF Init, JobType
<1>4. Steps /\ Standing /\ Descriptor
  BY DEF Init, Session!Init, Steps, Standing, Descriptor, retrying
<1>5. Replaying
  BY DEF Init, Session!Init, Replaying
<1> QED
  BY <1>2, <1>3, <1>4, <1>5 DEF IInv

-----------------------------------------------------------------------------
(***************************************************************************)
(* IInv is an invariant of the job control of tokio_session.rs.            *)
(***************************************************************************)
THEOREM InductiveInvariant == Spec => []IInv
<1>1. Init => IInv
  BY InitHolds
<1>2. IInv /\ [Next]_vars => IInv'
  BY StepKeeps
<1> QED
  BY <1>1, <1>2, PTL DEF Spec

(***************************************************************************)
(* Every variable keeps its type; no try is made beyond the last.          *)
(***************************************************************************)
THEOREM TypeCorrect == Spec => []TypeOK
<1>1. IInv => TypeOK
  BY DEF IInv, JobType, TypeOK, Session!IInv
<1> QED
  BY <1>1, InductiveInvariant, PTL

(***************************************************************************)
(* suspend and run_detached leave before they give the terminal away, and  *)
(* reenter_with_retry backs out of a failed try before it sleeps           *)
(* (tokio_session.rs:1807): what the session turned on is off, whichever   *)
(* writes failed before, but for the kinds that no path undoes.            *)
(***************************************************************************)
THEOREM AnotherFindsItClean == Spec => []AwayIsClean
<1>1. IInv => AwayIsClean
  <2> SUFFICES ASSUME IInv, owner # "session" \/ at = "sleeping"
               PROVE  /\ ~ armed
                      /\ owner = "child" => ~ registered
                      /\ Session!quiet => \A k \in Session!Kind : level[k] > 0 => k \in excused
    BY DEF AwayIsClean
  <2>1. ~ entered /\ pc = "idle"
    BY DEF IInv, Standing
  <2>2. ~ armed
    BY <2>1 DEF IInv, Session!IInv, Session!Control
  <2>3. owner = "child" => ~ registered
    BY DEF IInv, Descriptor
  <2>4. Session!quiet => \A k \in Session!Kind : level[k] > 0 => k \in excused
    BY <2>1 DEF IInv, Session!IInv, Session!Loose, Session!in_force, Session!quiet,
       Session!will_reset
  <2> QED
    BY <2>2, <2>3, <2>4
<1> QED
  BY <1>1, InductiveInvariant, PTL

(***************************************************************************)
(* Detach puts the flags back before the child runs, and Close before the  *)
(* session is gone, whichever step of a job before them failed.            *)
(***************************************************************************)
THEOREM FlagsStayHome == Spec => []FlagsNeverLeak
<1>1. IInv => FlagsNeverLeak
  BY DEF IInv, Standing, Descriptor, FlagsNeverLeak
<1> QED
  BY <1>1, InductiveInvariant, PTL

(***************************************************************************)
(* resume and run_detached return Ok only with the ledger replayed and the *)
(* handle armed, over a registered, non-blocking descriptor, whatever the  *)
(* tries before (tokio_session.rs:2096).                                   *)
(***************************************************************************)
THEOREM OkMeansBack == Spec => HandBackIsComplete
<1>1. IInv /\ [Next]_vars =>
        (~ handed_back /\ handed_back' =>
           /\ registered /\ flags = "nonblocking"
           /\ entered
           /\ ~ disturbed =>
                /\ HasHandle => armed
                /\ \A k \in Session!recorded : level[k] > 0)
  <2> SUFFICES ASSUME IInv, [Next]_vars, ~ handed_back, handed_back'
               PROVE  /\ registered /\ flags = "nonblocking"
                      /\ entered
                      /\ ~ disturbed =>
                           /\ HasHandle => armed
                           /\ \A k \in Session!recorded : level[k] > 0
    OBVIOUS
  <2>1. at = "size"
    BY DEF Next, OwnStep, Replay, Opened, Stop, NotStopped, Reentered, BackOut, Sleep,
       Wake, GiveUp, ReassertNonblocking, StepFails, HandBack, NotDetached, Detach, Drop,
       Suspend, Resume, RunDetached, Close, Meddle, Continue, Reattach, ReattachFails,
       ChangeModes, PanicHook, vars
  <2>2. registered /\ flags = "nonblocking" /\ entered /\ pc = "idle"
    BY <2>1 DEF IInv, Standing, Descriptor
  <2>3. ~ disturbed => (HasHandle => armed) /\ \A i \in DOMAIN ledger : level[ledger[i]] > 0
    BY <2>1, <2>2 DEF IInv, Replaying
  <2> QED
    BY <2>2, <2>3 DEF Session!recorded
<1> QED
  BY <1>1, InductiveInvariant, PTL DEF Spec, HandBackIsComplete

=============================================================================
