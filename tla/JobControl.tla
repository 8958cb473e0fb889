----------------------------- MODULE JobControl ------------------------------
(***************************************************************************)
(* Handing the terminal to another program and taking it back: suspend,    *)
(* resume and run_detached of TokioTerminalSession                         *)
(* (src/src/tokio_session.rs), with the open and the drop of the session   *)
(* around them, over the session of SessionLifecycle and the readiness     *)
(* transport of tokio_session/readiness.rs.                                *)
(*                                                                         *)
(* The enter and leave inside a job are those of SessionLifecycle, step by *)
(* step; what is added here is who owns the terminal, the status flags of  *)
(* the shared file description, the reactor's registration, and whether    *)
(* the replay of the ledger reported an error.                             *)
(***************************************************************************)
EXTENDS Naturals, Sequences

CONSTANTS
  Raw, Kitty, Mode, Thread, HasHandle, WritesFail, NoKind, MaxLevel,
  Retries   \* RESUME_REENTER_RETRIES

ASSUME RetriesAssumption == Retries \in Nat \ {0}

VARIABLES
  entered, ledger, pc, pos, cur, armed, blob, hook, level, restores, excused,
  job,         \* the operation in progress
  at,          \* the step it has reached
  attempt,     \* re-enters begun
  failed,      \* the current replay of the ledger has reported an error
  owner,       \* who uses the terminal: the session, the shell, or a child
  flags,       \* status flags: as captured, O_NONBLOCK on top, or another's
  registered,  \* readiness is Some: the descriptor is with the reactor
  handed_back, \* the last job gave the terminal back and returned Ok
  disturbed    \* a hook or the application has turned a mode off since the
               \* ledger was last replayed

Session == INSTANCE SessionLifecycle

ASSUME SessionAssumption == Session!KindsAreDistinct

session == <<entered, ledger, pc, pos, cur, armed, blob, hook, level, restores, excused>>
progress == <<job, at, attempt, failed>>
transport == <<flags, registered>>
vars == <<session, progress, owner, transport, handed_back, disturbed>>

Init ==
  /\ Session!Init
  /\ job = "open" /\ at = "entering" /\ attempt = 1 /\ failed = FALSE
  /\ owner = "session"
  /\ flags = "original" /\ registered = FALSE
  /\ handed_back = FALSE /\ disturbed = FALSE

Start(operation, step) == job' = operation /\ at' = step /\ failed' = FALSE

End == job' = "none" /\ at' = "none" /\ UNCHANGED <<attempt, failed>>

Reach(step) == at' = step /\ UNCHANGED <<job, attempt, failed>>

(***************************************************************************)
(* TerminalSession::enter and leave, as a job calls them: nothing happens  *)
(* when the session is already entered, or already left.                   *)
(***************************************************************************)
enter_call ==
  \/ ~ entered /\ Session!Enter /\ disturbed' = FALSE
  \/ entered /\ UNCHANGED <<session, disturbed>>

leave_call ==
  /\ \/ entered /\ Session!Leave
     \/ ~ entered /\ UNCHANGED session
  /\ UNCHANGED disturbed

\* The replay that the call started is over.
replayed(step) == at = step /\ pc = "idle"

\* One step of it.  A write that fails may have taken effect.
Replay ==
  /\ job # "none"
  /\ \/ \E effect \in BOOLEAN :
          /\ Session!ApplyEntry(effect) \/ Session!UndoEntry(effect)
          /\ \/ failed' = (failed \/ ~ effect)
             \/ WritesFail /\ failed' = TRUE
     \/ /\ Session!Applied \/ Session!Arm \/ Session!Undone
        /\ UNCHANGED failed
  /\ UNCHANGED <<job, at, attempt, owner, transport, handed_back, disturbed>>

-----------------------------------------------------------------------------
(***************************************************************************)
(* from_session: the entered session's descriptor is made non-blocking and *)
(* registered.  When that or the enter fails, the session is dropped.      *)
(***************************************************************************)
Opened ==
  /\ job = "open" /\ replayed("entering") /\ ~ failed
  /\ flags' = "nonblocking" /\ registered' = TRUE
  /\ End
  /\ UNCHANGED <<session, owner, handed_back, disturbed>>

idle == job = "none" /\ pc = "idle" /\ owner = "session"

(***************************************************************************)
(* suspend: leave, then the process-group guard and the stop signal.  The  *)
(* flags stay as they are.                                                 *)
(***************************************************************************)
Suspend ==
  /\ idle
  /\ leave_call
  /\ Start("suspend", "leaving")
  /\ handed_back' = FALSE
  /\ UNCHANGED <<attempt, owner, transport>>

Stop ==
  /\ job = "suspend" /\ replayed("leaving") /\ ~ failed
  /\ owner' = "shell"
  /\ End
  /\ UNCHANGED <<session, transport, handed_back, disturbed>>

\* The undo reported an error, or the process group is degenerate.
NotStopped ==
  /\ job = "suspend" /\ replayed("leaving")
  /\ End
  /\ UNCHANGED <<session, owner, transport, handed_back, disturbed>>

(***************************************************************************)
(* The shell, or the child, does what it likes with the modes and flags.   *)
(* What it leaves on is not for the session to undo.                       *)
(***************************************************************************)
Meddle ==
  /\ owner # "session"
  /\ \/ \E k \in Session!Kind, n \in {0, 1} :
          /\ k = Kitty => n = 0
          /\ level' = [level EXCEPT ![k] = n]
          /\ excused' = IF n = 0 THEN excused ELSE excused \cup {k}
          /\ UNCHANGED flags
     \/ flags' = "other" /\ UNCHANGED <<level, excused>>
  /\ UNCHANGED << entered, ledger, pc, pos, cur, armed, blob, hook, restores,
                  progress, owner, registered, handed_back, disturbed >>

Continue ==
  /\ owner = "shell"
  /\ owner' = "session"
  /\ UNCHANGED <<session, progress, transport, handed_back, disturbed>>

-----------------------------------------------------------------------------
(***************************************************************************)
(* resume: re-enter, then the flags, then the optional flush of stale      *)
(* input, then the size.                                                   *)
(***************************************************************************)
Resume ==
  /\ idle
  /\ enter_call
  /\ Start("resume", "entering") /\ attempt' = 1
  /\ handed_back' = FALSE
  /\ UNCHANGED <<owner, transport>>

(***************************************************************************)
(* reenter_with_retry: a failed enter counts as entered, so the session is *)
(* left again before the next try.  The sleep is where a future that is    *)
(* dropped ends.                                                           *)
(***************************************************************************)
retrying == job \in {"resume", "detach"}

Reentered ==
  /\ retrying /\ replayed("entering") /\ ~ failed
  /\ Reach(IF job = "resume" THEN "flags" ELSE "size")
  /\ UNCHANGED <<session, owner, transport, handed_back, disturbed>>

\* Mutant: the next try follows without a leave.
retry_entered == UNCHANGED <<session, disturbed>>

back_out == leave_call

BackOut ==
  /\ retrying /\ replayed("entering") /\ failed
  /\ back_out
  /\ Reach("backing_out")
  /\ UNCHANGED <<owner, transport, handed_back>>

\* Mutant: one try too many.
tries_left_or_equal == attempt <= Retries

tries_left == attempt < Retries

Sleep ==
  /\ replayed("backing_out") /\ tries_left
  /\ Reach("sleeping")
  /\ UNCHANGED <<session, owner, transport, handed_back, disturbed>>

\* Mutant: the tries are not counted.
same_attempt == attempt

next_attempt == attempt + 1

Wake ==
  /\ at = "sleeping"
  /\ enter_call
  /\ Start(job, "entering") /\ attempt' = next_attempt
  /\ UNCHANGED <<owner, transport, handed_back>>

\* The tries are used up, or the future is dropped in the sleep.
GiveUp ==
  /\ \/ replayed("backing_out") /\ attempt = Retries
     \/ at = "sleeping"
  /\ End
  /\ UNCHANGED <<session, owner, transport, handed_back, disturbed>>

\* Mutant: the flags are taken to be as they were left.
flags_trusted == flags

reasserted_flags == "nonblocking"

(***************************************************************************)
(* reassert_nonblocking: in resume after the re-enter, in run_detached     *)
(* before it.                                                              *)
(***************************************************************************)
ReassertNonblocking ==
  /\ at = "flags" /\ registered
  /\ flags' = reasserted_flags
  /\ \/ /\ job = "resume"
        /\ Reach("size")
        /\ UNCHANGED <<session, disturbed>>
     \/ /\ job = "detach"
        /\ enter_call
        /\ Start("detach", "entering") /\ attempt' = 1
  /\ UNCHANGED <<owner, registered, handed_back>>

\* Reading or setting the flags, the flush, or reading the size fails.
StepFails ==
  /\ at \in {"flags", "size"}
  /\ at = "flags" => registered
  /\ End
  /\ UNCHANGED <<session, owner, transport, handed_back, disturbed>>

\* The synthetic resize is queued and the call returns Ok.
HandBack ==
  /\ at = "size"
  /\ End
  /\ handed_back' = TRUE
  /\ UNCHANGED <<session, owner, transport, disturbed>>

-----------------------------------------------------------------------------
(***************************************************************************)
(* run_detached: leave, put the flags back, release the registration, and  *)
(* run the child; then register anew and go on as above.                   *)
(***************************************************************************)
RunDetached ==
  /\ idle
  /\ leave_call
  /\ Start("detach", "leaving")
  /\ handed_back' = FALSE
  /\ UNCHANGED <<attempt, owner, transport>>

NotDetached ==
  /\ job = "detach" /\ replayed("leaving") /\ failed
  /\ End
  /\ UNCHANGED <<session, owner, transport, handed_back, disturbed>>

\* Mutant: the flags are left to the drop.
flags_kept == flags

restored_flags == IF registered THEN "original" ELSE flags

Detach ==
  /\ job = "detach" /\ replayed("leaving") /\ ~ failed /\ registered
  /\ flags' = restored_flags
  /\ registered' = FALSE
  /\ owner' = "child"
  /\ Reach("child")
  /\ UNCHANGED <<session, handed_back, disturbed>>

Reattach ==
  /\ at = "child"
  /\ registered' = TRUE
  /\ owner' = "session"
  /\ Reach("flags")
  /\ UNCHANGED <<session, flags, handed_back, disturbed>>

\* The descriptor is closed and the session keeps no registration.
ReattachFails ==
  /\ at = "child"
  /\ owner' = "session"
  /\ End
  /\ UNCHANGED <<session, transport, handed_back, disturbed>>

-----------------------------------------------------------------------------
(***************************************************************************)
(* leave(self) and drop: the flags first, then the session's leave, then   *)
(* the device.  A failed open, a panic of the child's closure, and a use   *)
(* of the registration that is not there end the same way.                 *)
(***************************************************************************)
unwinds ==
  \/ job = "open" /\ replayed("entering")
  \/ at = "child"
  \/ at = "flags" /\ ~ registered
  \/ job = "detach" /\ replayed("leaving") /\ ~ failed /\ ~ registered

Close ==
  /\ idle \/ unwinds
  /\ flags' = restored_flags
  /\ leave_call
  /\ Start("close", "leaving")
  /\ owner' = "session"
  /\ handed_back' = FALSE
  /\ UNCHANGED <<attempt, registered>>

Drop ==
  /\ job = "close" /\ replayed("leaving")
  /\ Session!DropDevice
  /\ UNCHANGED <<progress, owner, transport, handed_back, disturbed>>

-----------------------------------------------------------------------------
(***************************************************************************)
(* What the application does between jobs.                                 *)
(***************************************************************************)
ChangeModes ==
  /\ job = "none" /\ owner = "session" /\ registered
  /\ \/ \E k \in Session!Protocol : Session!EnableWrite(k) /\ UNCHANGED disturbed
     \/ (Session!EnableForgotten \/ Session!TrackMode) /\ UNCHANGED disturbed
     \/ \E k \in Mode : Session!Reset(k) /\ disturbed' = TRUE
  /\ UNCHANGED <<progress, owner, transport, handed_back>>

\* A panic hook of another thread; a stopped process runs none.
PanicHook ==
  /\ owner # "shell"
  /\ \E t \in Thread :
       \/ Session!HookClaim(t)
       \/ \E out \in SUBSET blob : Session!HookWrite(t, out)
       \/ Session!HookMode(t)
  /\ disturbed' = TRUE
  /\ UNCHANGED <<progress, owner, transport, handed_back>>

OwnStep ==
  \/ Replay \/ Opened
  \/ Stop \/ NotStopped
  \/ Reentered \/ BackOut \/ Sleep \/ Wake \/ GiveUp
  \/ ReassertNonblocking \/ StepFails \/ HandBack
  \/ NotDetached \/ Detach \/ Drop

Next ==
  \/ OwnStep
  \/ Suspend \/ Resume \/ RunDetached \/ Close
  \/ Meddle \/ Continue \/ Reattach \/ ReattachFails
  \/ ChangeModes \/ PanicHook

Spec == Init /\ [][Next]_vars

(***************************************************************************)
(* The session's thread goes on with the job it has begun, and the timer   *)
(* of the sleep fires; nobody else is bound to do anything.                *)
(***************************************************************************)
FairSpec == Spec /\ WF_vars(OwnStep) /\ WF_vars(unwinds /\ Close)

-----------------------------------------------------------------------------
TypeOK ==
  /\ Session!TypeOK
  /\ job \in {"none", "open", "suspend", "resume", "detach", "close"}
  /\ at \in { "none", "entering", "backing_out", "sleeping", "flags", "size",
              "leaving", "child" }
  /\ attempt \in 1 .. Retries
  /\ failed \in BOOLEAN
  /\ owner \in {"session", "shell", "child"}
  /\ flags \in {"original", "nonblocking", "other"}
  /\ registered \in BOOLEAN
  /\ handed_back \in BOOLEAN /\ disturbed \in BOOLEAN

(***************************************************************************)
(* While another program uses the terminal, and while a retry sleeps (where *)
(* the future may be dropped), the terminal is as the session found it but *)
(* for the excused kinds, and no panic hook can claim a restoration; a     *)
(* child reads through a descriptor the reactor does not watch.            *)
(***************************************************************************)
AwayIsClean ==
  owner # "session" \/ at = "sleeping" =>
    /\ ~ armed
    /\ owner = "child" => ~ registered
    /\ Session!quiet => \A k \in Session!Kind : level[k] > 0 => k \in excused

(***************************************************************************)
(* When resume or run_detached returns Ok, every recorded mode is on again *)
(* and covered by the armed handle, whatever the other program did and     *)
(* however many tries it took, and the reactor watches a non-blocking      *)
(* descriptor; unless a hook or the application has come in between.       *)
(***************************************************************************)
HandBackIsComplete ==
  [][ ~ handed_back /\ handed_back' =>
        /\ registered /\ flags = "nonblocking"
        /\ entered
        /\ ~ disturbed =>
             /\ HasHandle => armed
             /\ \A k \in Session!recorded : level[k] > 0 ]_vars

(***************************************************************************)
(* The session's O_NONBLOCK never reaches a child and never outlives the   *)
(* session, whichever step failed before.                                  *)
(***************************************************************************)
FlagsNeverLeak ==
  /\ owner = "child" => flags # "nonblocking"
  /\ pc = "dropped" => flags # "nonblocking"

(***************************************************************************)
(* A job ends: with the terminal taken back, given away, or an error after *)
(* a bounded number of tries.  (A replay that would push the keyboard      *)
(* flags beyond the bound of the model goes no further.)                   *)
(***************************************************************************)
at_bound == pc = "applying" /\ level[Kitty] = MaxLevel

EveryJobEnds ==
  (job # "none" /\ owner = "session") ~>
    (job = "none" \/ owner # "session" \/ pc = "dropped" \/ at_bound)

=============================================================================
