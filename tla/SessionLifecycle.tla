-------------------------- MODULE SessionLifecycle ---------------------------
(***************************************************************************)
(* The mode ledger of TerminalSession and the paths that undo it:          *)
(* enter, leave and drop on the session's own thread (src/src/session.rs,  *)
(* session/ledger.rs), and the panic-safe RestoreHandle, which any thread's *)
(* panic hook may call at any moment (session/restore.rs).                 *)
(*                                                                         *)
(* The terminal is described by a level for each kind of mode: 0 when it   *)
(* is as the session found it.  A set or reset has level 1 or 0; the kitty *)
(* keyboard flags are a stack, and their level is its depth.               *)
(*                                                                         *)
(* Every device write and every access to the state the threads share is a *)
(* step of its own.  A write may fail, with or without taking effect.      *)
(***************************************************************************)
EXTENDS Naturals, Sequences

CONSTANTS
  Raw,         \* ModeKind::Raw, the device mode
  Kitty,       \* ModeKind::KittyKeyboard
  Mode,        \* the kinds that are set and reset
  Thread,      \* the threads whose panic hook holds the restore handle
  HasHandle,   \* session.restore is Some (from_terminal), or None (from_device)
  WritesFail,  \* whether the terminal may fail a write
  NoKind,
  MaxLevel     \* bound: depth of the kitty keyboard stack

Protocol == Mode \cup {Kitty}   \* the kinds whose actions are bytes
Kind     == Protocol \cup {Raw}

ASSUME KindsAreDistinct ==
  /\ Raw \notin Protocol
  /\ NoKind \notin Kind
  /\ HasHandle \in BOOLEAN /\ WritesFail \in BOOLEAN
  /\ HasHandle = FALSE => Thread = {}

VARIABLES
  entered,   \* TerminalSession.entered
  ledger,    \* ModeLedger.entries: the kinds in order of first enablement
  pc,        \* what the session's thread is doing
  pos,       \* the ledger entry it applies or undoes next
  cur,       \* the kind it has written and not yet recorded
  armed,     \* RestoreCore.armed
  blob,      \* the kinds the published teardown blob resets
  hook,      \* what each panic hook is doing
  level,     \* the terminal
  restores,  \* restorations begun since the session was last entered
  excused    \* kinds that no path is bound to undo, see Excuse

shared == <<armed, blob>>
vars == <<entered, ledger, pc, pos, cur, armed, blob, hook, level, restores, excused>>

(***************************************************************************)
(* Applying and undoing a ledger entry.                                    *)
(***************************************************************************)
apply_level(k) == IF k = Kitty THEN level[k] + 1 ELSE 1

undo_level(k) == IF k = Kitty /\ level[k] > 0 THEN level[k] - 1 ELSE 0

recorded == {ledger[i] : i \in DOMAIN ledger}

\* Mutant: the mode is written and published, and never recorded.
record_nothing(k) == ledger

record(k) == IF k \in recorded THEN ledger ELSE Append(ledger, k)

(***************************************************************************)
(* protocol_undo_bytes: every entry whose undo is bytes.                   *)
(***************************************************************************)
\* Mutant: the keyboard entry is left to the orderly path.
undo_bytes_without_kitty(kinds) == kinds \ {Raw, Kitty}

\* Mutant: the device mode is taken for bytes.
undo_bytes_with_raw(kinds) == kinds

protocol_undo_bytes(kinds) == kinds \ {Raw}

(***************************************************************************)
(* RestoreCore::disarm: whether this caller claims the restoration.        *)
(***************************************************************************)
\* Mutant: the flag is cleared but not read.
claims_always == TRUE

claims == armed

(***************************************************************************)
(* A kind is excused while no path promises to undo it: it was written     *)
(* while the session was left or its handle already claimed, or never      *)
(* recorded, or pushed on top of itself, or the write that was to undo it  *)
(* failed.                                                                 *)
(***************************************************************************)
in_force == entered /\ (HasHandle => armed)

Excuse(kinds) == excused' = excused \cup kinds

pushed_twice(k) == k = Kitty /\ level[k] > 0

-----------------------------------------------------------------------------
\* A session is born entering: from_terminal and from_device record raw mode
\* and enter before the caller has it.
Init ==
  /\ entered = FALSE
  /\ ledger = <<Raw>>
  /\ pc = "applying" /\ pos = 1 /\ cur = NoKind
  /\ armed = FALSE /\ blob = {}
  /\ hook = [t \in Thread |-> "idle"]
  /\ level = [k \in Kind |-> 0]
  /\ restores = 0
  /\ excused = {}

(***************************************************************************)
(* enter: apply every entry, whatever fails; then publish, then arm.       *)
(***************************************************************************)
Enter ==
  /\ pc = "idle"
  /\ ~ entered
  /\ pc' = "applying" /\ pos' = 1
  /\ UNCHANGED <<entered, ledger, cur, shared, hook, level, excused, restores>>

ApplyEntry(effect) ==
  /\ effect \/ WritesFail
  /\ pc = "applying"
  /\ pos \in DOMAIN ledger
  /\ level[ledger[pos]] < MaxLevel
  /\ pos' = pos + 1
  /\ level' = IF effect THEN [level EXCEPT ![ledger[pos]] = apply_level(ledger[pos])] ELSE level
  /\ Excuse(IF effect /\ pushed_twice(ledger[pos]) THEN {Kitty} ELSE {})
  /\ UNCHANGED <<entered, ledger, pc, cur, shared, hook, restores>>

Applied ==
  /\ pc = "applying"
  /\ pos = Len(ledger) + 1
  /\ entered' = TRUE
  /\ restores' = 0
  /\ pc' = IF HasHandle THEN "arming" ELSE "idle"
  /\ blob' = IF HasHandle THEN protocol_undo_bytes(recorded) ELSE blob
  /\ UNCHANGED <<ledger, pos, cur, armed, hook, level, excused>>

Arm ==
  /\ pc = "arming"
  /\ armed' = TRUE
  /\ pc' = "idle"
  /\ UNCHANGED <<entered, ledger, pos, cur, blob, hook, level, excused, restores>>

(***************************************************************************)
(* enable_mode and the record_* calls of the Tokio session: write, then    *)
(* record and publish.  Nothing asks whether the session is entered.       *)
(***************************************************************************)
EnableWrite(k) ==
  /\ pc = "idle"
  /\ level[k] < MaxLevel
  /\ level' = [level EXCEPT ![k] = apply_level(k)]
  /\ Excuse(IF in_force /\ ~ pushed_twice(k) THEN {} ELSE {k})
  /\ pc' = "enabling" /\ cur' = k
  /\ UNCHANGED <<entered, ledger, pos, shared, hook, restores>>

\* The write failed although the terminal saw it, or (the keyboard flags only)
\* the terminal reported no grant: nothing is recorded.
EnableForgotten ==
  /\ pc = "enabling"
  /\ cur = Kitty \/ WritesFail
  /\ Excuse({cur})
  /\ pc' = "idle" /\ cur' = NoKind
  /\ UNCHANGED <<entered, ledger, pos, shared, hook, level, restores>>

\* Mutant: the emergency blob is refreshed only by the next enter.
publish_on_enter_only == blob

published == IF HasHandle THEN protocol_undo_bytes(recorded \cup {cur}) ELSE blob

TrackMode ==
  /\ pc = "enabling"
  /\ ledger' = record(cur)
  /\ blob' = published
  /\ pc' = "idle" /\ cur' = NoKind
  /\ UNCHANGED <<entered, pos, armed, hook, level, excused, restores>>

\* show_cursor and the like: an explicit reset is not recorded.
Reset(k) ==
  /\ pc = "idle"
  /\ level' = [level EXCEPT ![k] = 0]
  /\ UNCHANGED <<entered, ledger, pc, pos, cur, shared, hook, excused, restores>>

(***************************************************************************)
(* leave: nothing to do when a hook has claimed the restoration; otherwise *)
(* undo every entry in reverse order, whatever fails.                      *)
(***************************************************************************)
Leave ==
  /\ pc = "idle"
  /\ entered
  /\ entered' = FALSE
  /\ armed' = FALSE
  /\ IF HasHandle => claims
     THEN pc' = "undoing" /\ pos' = Len(ledger) /\ restores' = restores + 1
     ELSE UNCHANGED <<pc, pos, restores>>
  /\ UNCHANGED <<ledger, cur, blob, hook, level, excused>>

UndoEntry(effect) ==
  /\ effect \/ WritesFail
  /\ pc = "undoing"
  /\ pos \in DOMAIN ledger
  /\ pos' = pos - 1
  /\ level' = IF effect THEN [level EXCEPT ![ledger[pos]] = undo_level(ledger[pos])] ELSE level
  /\ Excuse(IF effect THEN {} ELSE {ledger[pos]})
  /\ UNCHANGED <<entered, ledger, pc, cur, shared, hook, restores>>

Undone ==
  /\ pc = "undoing"
  /\ pos = 0
  /\ pc' = "idle"
  /\ excused' = {k \in excused : level[k] > 0}
  /\ UNCHANGED <<entered, ledger, pos, cur, shared, hook, level, restores>>

\* Drop of the session, after its leave: the device restores cooked mode.
DropDevice ==
  /\ pc = "idle"
  /\ ~ entered
  /\ level' = [level EXCEPT ![Raw] = 0]
  /\ pc' = "dropped"
  /\ UNCHANGED <<entered, ledger, pos, cur, shared, hook, excused, restores>>

(***************************************************************************)
(* RestoreHandle::restore, from any thread: claim, write the current blob  *)
(* (some of it, if the terminal blocks), restore the captured mode.        *)
(***************************************************************************)
HookClaim(t) ==
  /\ hook[t] = "idle"
  /\ claims
  /\ armed' = FALSE
  /\ hook' = [hook EXCEPT ![t] = "writing"]
  /\ restores' = restores + 1
  /\ Excuse(IF pc = "enabling" THEN {cur} ELSE {})
  /\ UNCHANGED <<entered, ledger, pc, pos, cur, blob, level>>

HookWrite(t, out) ==
  /\ hook[t] = "writing"
  /\ out \subseteq blob /\ (out = blob \/ WritesFail)
  /\ level' = [k \in Kind |-> IF k \in out THEN 0 ELSE level[k]]
  /\ hook' = [hook EXCEPT ![t] = "mode"]
  /\ Excuse(blob \ out)
  /\ UNCHANGED <<entered, ledger, pc, pos, cur, shared, restores>>

HookMode(t) ==
  /\ hook[t] = "mode"
  /\ level' = [level EXCEPT ![Raw] = 0]
  /\ hook' = [hook EXCEPT ![t] = "idle"]
  /\ UNCHANGED <<entered, ledger, pc, pos, cur, shared, excused, restores>>

Next ==
  \/ Enter \/ Applied \/ Arm
  \/ \E effect \in BOOLEAN : ApplyEntry(effect)
  \/ \E k \in Protocol : EnableWrite(k)
  \/ EnableForgotten
  \/ TrackMode
  \/ \E k \in Mode : Reset(k)
  \/ Leave \/ Undone \/ DropDevice
  \/ \E effect \in BOOLEAN : UndoEntry(effect)
  \/ \E t \in Thread : HookClaim(t)
  \/ \E t \in Thread, out \in SUBSET blob : HookWrite(t, out)
  \/ \E t \in Thread : HookMode(t)

Spec == Init /\ [][Next]_vars

-----------------------------------------------------------------------------
TypeOK ==
  /\ entered \in BOOLEAN /\ armed \in BOOLEAN
  /\ ledger \in Seq(Kind)
  /\ pc \in {"idle", "applying", "arming", "enabling", "undoing", "dropped"}
  /\ pos \in Nat
  /\ cur \in Protocol \cup {NoKind}
  /\ blob \subseteq Protocol
  /\ hook \in [Thread -> {"idle", "writing", "mode"}]
  /\ level \in [Kind -> Nat]
  /\ restores \in Nat
  /\ excused \subseteq Kind

(***************************************************************************)
(* Once the session is left and no hook is at work, the terminal is as the *)
(* session found it, but for the excused kinds: of the panic hooks and the *)
(* orderly leave, whichever claims the restoration carries it through, and *)
(* the one that does not may skip it.                                      *)
(***************************************************************************)
quiet == \A t \in Thread : hook[t] = "idle"

CleanAfterLeave ==
  (~ entered /\ pc \in {"idle", "dropped"} /\ quiet) =>
    \A k \in Kind : level[k] > 0 => k \in excused

(***************************************************************************)
(* While the handle is armed, a panic this very moment would find every    *)
(* mode the session has turned on in the published blob, or the captured   *)
(* device mode; only the one being enabled is not there yet.               *)
(***************************************************************************)
EmergencyCovers ==
  armed => \A k \in Kind : level[k] > 0 => k \in blob \cup {Raw, cur} \cup excused

(***************************************************************************)
(* Restoration runs at most once per entered period: whichever of the      *)
(* panic hooks and the orderly leave is first wins, and the others skip.   *)
(***************************************************************************)
RestoredOncePerPeriod == restores <= 1

-----------------------------------------------------------------------------
(***************************************************************************)
(* The inductive invariant.                                                *)
(***************************************************************************)
\* A hook that has claimed the restoration and will still reset kind k.
will_reset(k) ==
  \E t \in Thread : hook[t] = "writing" \/ (k = Raw /\ hook[t] = "mode")

\* The control state: when the handle is armed, and what pc implies.
Control ==
  /\ armed => HasHandle /\ entered /\ pc \in {"idle", "enabling"}
  /\ pc = "arming" => HasHandle /\ entered
  /\ pc \in {"applying", "undoing", "dropped"} => ~ entered
  /\ cur # NoKind <=> pc = "enabling"

\* No restoration has begun while the next one may still be claimed.
Claiming ==
  /\ restores <= 1
  /\ armed \/ pc = "arming" \/ (entered /\ ~ HasHandle) => restores = 0

\* The blob is the ledger's, and what is on is recorded, or about to be.
Recording ==
  /\ HasHandle => blob = recorded \ {Raw}
  /\ \A k \in Kind : level[k] > 0 => k \in recorded \cup {cur} \cup excused
  /\ level[Kitty] > 1 => Kitty \in excused

\* With nobody bound to undo it, what is on is excused or being reset.
Loose ==
  (pc \in {"idle", "enabling", "dropped"} /\ ~ in_force) =>
     /\ \A k \in Kind : level[k] > 0 => k \in excused \/ will_reset(k)
     /\ pc = "enabling" => cur \in excused

\* The entries undone so far stay undone.
Undoing ==
  pc = "undoing" =>
     /\ pos \in 0 .. Len(ledger)
     /\ \A k \in Kind : level[k] > 0 =>
          k \in excused \/ will_reset(k) \/ \E i \in 1 .. pos : ledger[i] = k

IInv == TypeOK /\ Control /\ Claiming /\ Recording /\ Loose /\ Undoing

=============================================================================
