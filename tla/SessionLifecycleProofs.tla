----------------------- MODULE SessionLifecycleProofs ------------------------
(***************************************************************************)
(* Theorems about SessionLifecycle, for every set of modes and of threads, *)
(* with or without a restore handle, and whether or not writes fail.       *)
(***************************************************************************)
EXTENDS SessionLifecycle, TLAPS

(***************************************************************************)
(* Types are preserved; a kind is recorded or excused only while one is    *)
(* being enabled.                                                          *)
(***************************************************************************)
LEMMA TypeStep == IInv /\ [Next]_vars => TypeOK'
<1> SUFFICES ASSUME IInv, [Next]_vars PROVE TypeOK'
    OBVIOUS
<1> USE KindsAreDistinct DEF IInv, TypeOK, shared, Kind, Protocol, recorded, Control
<1>1. ASSUME Enter
      PROVE  TypeOK'
  BY <1>1 DEF Enter
<1>2. ASSUME Applied
      PROVE  TypeOK'
  BY <1>2 DEF Applied, protocol_undo_bytes
<1>3. ASSUME Arm
      PROVE  TypeOK'
  BY <1>3 DEF Arm
<1>4. ASSUME NEW effect \in BOOLEAN, ApplyEntry(effect)
      PROVE  TypeOK'
  BY <1>4 DEF ApplyEntry, Excuse, apply_level, pushed_twice
<1>5. ASSUME NEW k \in Protocol, EnableWrite(k)
      PROVE  TypeOK'
  BY <1>5 DEF EnableWrite, Excuse, apply_level, pushed_twice, in_force
<1>6. ASSUME EnableForgotten
      PROVE  TypeOK'
  BY <1>6 DEF EnableForgotten, Excuse
<1>7. ASSUME TrackMode
      PROVE  TypeOK'
  BY <1>7 DEF TrackMode, published, protocol_undo_bytes, record
<1>8. ASSUME NEW k \in Mode, Reset(k)
      PROVE  TypeOK'
  BY <1>8 DEF Reset
<1>9. ASSUME Leave
      PROVE  TypeOK'
  <2>1. Len(ledger) \in Nat
    OBVIOUS
  <2>2. pc' \in {"idle", "undoing"} /\ pos' \in Nat
    BY <1>9, <2>1 DEF Leave
  <2>3. restores' \in Nat
    BY <1>9 DEF Leave
  <2>4. armed' \in BOOLEAN /\ entered' \in BOOLEAN
    BY <1>9 DEF Leave
  <2> QED
    BY <1>9, <2>2, <2>3, <2>4 DEF Leave
<1>10. ASSUME Undone
      PROVE  TypeOK'
  BY <1>10 DEF Undone
<1>11. ASSUME DropDevice
      PROVE  TypeOK'
  BY <1>11 DEF DropDevice
<1>12. ASSUME NEW effect \in BOOLEAN, UndoEntry(effect)
      PROVE  TypeOK'
  BY <1>12 DEF UndoEntry, Excuse, undo_level
<1>13. ASSUME NEW t \in Thread, HookClaim(t)
      PROVE  TypeOK'
  <2>1. pc = "enabling" => {cur} \subseteq Kind
    OBVIOUS
  <2>2. excused' \subseteq Kind
    BY <1>13, <2>1 DEF HookClaim, Excuse
  <2>3. hook' \in [Thread -> {"idle", "writing", "mode"}]
    BY <1>13 DEF HookClaim
  <2>4. restores' \in Nat
    BY <1>13 DEF HookClaim, claims
  <2>5. armed' \in BOOLEAN
    BY <1>13, Zenon DEF HookClaim
  <2>6. UNCHANGED <<entered, ledger, pc, pos, cur, blob, level>>
    BY <1>13 DEF HookClaim
  <2> QED
    BY <2>2, <2>3, <2>4, <2>5, <2>6
<1>14. ASSUME NEW t \in Thread, NEW out \in SUBSET blob, HookWrite(t, out)
      PROVE  TypeOK'
  BY <1>14 DEF HookWrite, Excuse
<1>15. ASSUME NEW t \in Thread, HookMode(t)
      PROVE  TypeOK'
  BY <1>15 DEF HookMode
<1>16. ASSUME UNCHANGED vars PROVE TypeOK'
  BY <1>16 DEF vars
<1> QED
  BY <1>1, <1>2, <1>3, <1>4, <1>5, <1>6, <1>7, <1>8, <1>9, <1>10, <1>11,
     <1>12, <1>13, <1>14, <1>15, <1>16 DEF Next

(***************************************************************************)
(* The handle is armed only between the end of enter and the next claim,   *)
(* whoever makes it.                                                       *)
(***************************************************************************)
LEMMA ControlStep == IInv /\ [Next]_vars => Control'
<1> SUFFICES ASSUME IInv, [Next]_vars PROVE Control'
    OBVIOUS
<1> USE KindsAreDistinct DEF IInv, TypeOK, shared, Kind, Protocol, recorded, Control
<1>1. ASSUME Enter
      PROVE  Control'
  BY <1>1 DEF Enter
<1>2. ASSUME Applied
      PROVE  Control'
  BY <1>2 DEF Applied, protocol_undo_bytes
<1>3. ASSUME Arm
      PROVE  Control'
  BY <1>3 DEF Arm
<1>4. ASSUME NEW effect \in BOOLEAN, ApplyEntry(effect)
      PROVE  Control'
  BY <1>4 DEF ApplyEntry, Excuse, apply_level, pushed_twice
<1>5. ASSUME NEW k \in Protocol, EnableWrite(k)
      PROVE  Control'
  BY <1>5 DEF EnableWrite, Excuse, apply_level, pushed_twice, in_force
<1>6. ASSUME EnableForgotten
      PROVE  Control'
  BY <1>6 DEF EnableForgotten, Excuse
<1>7. ASSUME TrackMode
      PROVE  Control'
  BY <1>7 DEF TrackMode, published, protocol_undo_bytes, record
<1>8. ASSUME NEW k \in Mode, Reset(k)
      PROVE  Control'
  BY <1>8 DEF Reset
<1>9. ASSUME Leave
      PROVE  Control'
  BY <1>9 DEF Leave, claims
<1>10. ASSUME Undone
      PROVE  Control'
  BY <1>10 DEF Undone
<1>11. ASSUME DropDevice
      PROVE  Control'
  BY <1>11 DEF DropDevice
<1>12. ASSUME NEW effect \in BOOLEAN, UndoEntry(effect)
      PROVE  Control'
  BY <1>12 DEF UndoEntry, Excuse, undo_level
<1>13. ASSUME NEW t \in Thread, HookClaim(t)
      PROVE  Control'
  BY <1>13 DEF HookClaim, Excuse, claims
<1>14. ASSUME NEW t \in Thread, NEW out \in SUBSET blob, HookWrite(t, out)
      PROVE  Control'
  BY <1>14 DEF HookWrite, Excuse
<1>15. ASSUME NEW t \in Thread, HookMode(t)
      PROVE  Control'
  BY <1>15 DEF HookMode
<1>16. ASSUME UNCHANGED vars PROVE Control'
  BY <1>16 DEF vars
<1> QED
  BY <1>1, <1>2, <1>3, <1>4, <1>5, <1>6, <1>7, <1>8, <1>9, <1>10, <1>11,
     <1>12, <1>13, <1>14, <1>15, <1>16 DEF Next

(***************************************************************************)
(* The claim of a restoration is the swap of the armed flag, so the second *)
(* path to come finds it cleared.                                          *)
(***************************************************************************)
LEMMA ClaimingStep == IInv /\ [Next]_vars => Claiming'
<1> SUFFICES ASSUME IInv, [Next]_vars PROVE Claiming'
    OBVIOUS
<1> USE KindsAreDistinct DEF IInv, TypeOK, shared, Kind, Protocol, recorded, Control, Claiming
<1>1. ASSUME Enter
      PROVE  Claiming'
  BY <1>1 DEF Enter
<1>2. ASSUME Applied
      PROVE  Claiming'
  BY <1>2 DEF Applied, protocol_undo_bytes
<1>3. ASSUME Arm
      PROVE  Claiming'
  BY <1>3 DEF Arm
<1>4. ASSUME NEW effect \in BOOLEAN, ApplyEntry(effect)
      PROVE  Claiming'
  BY <1>4 DEF ApplyEntry, Excuse, apply_level, pushed_twice
<1>5. ASSUME NEW k \in Protocol, EnableWrite(k)
      PROVE  Claiming'
  BY <1>5 DEF EnableWrite, Excuse, apply_level, pushed_twice, in_force
<1>6. ASSUME EnableForgotten
      PROVE  Claiming'
  BY <1>6 DEF EnableForgotten, Excuse
<1>7. ASSUME TrackMode
      PROVE  Claiming'
  BY <1>7 DEF TrackMode, published, protocol_undo_bytes, record
<1>8. ASSUME NEW k \in Mode, Reset(k)
      PROVE  Claiming'
  BY <1>8 DEF Reset
<1>9. ASSUME Leave
      PROVE  Claiming'
  BY <1>9 DEF Leave, claims
<1>10. ASSUME Undone
      PROVE  Claiming'
  BY <1>10 DEF Undone
<1>11. ASSUME DropDevice
      PROVE  Claiming'
  BY <1>11 DEF DropDevice
<1>12. ASSUME NEW effect \in BOOLEAN, UndoEntry(effect)
      PROVE  Claiming'
  BY <1>12 DEF UndoEntry, Excuse, undo_level
<1>13. ASSUME NEW t \in Thread, HookClaim(t)
      PROVE  Claiming'
  BY <1>13 DEF HookClaim, Excuse, claims
<1>14. ASSUME NEW t \in Thread, NEW out \in SUBSET blob, HookWrite(t, out)
      PROVE  Claiming'
  BY <1>14 DEF HookWrite, Excuse
<1>15. ASSUME NEW t \in Thread, HookMode(t)
      PROVE  Claiming'
  BY <1>15 DEF HookMode
<1>16. ASSUME UNCHANGED vars PROVE Claiming'
  BY <1>16 DEF vars
<1> QED
  BY <1>1, <1>2, <1>3, <1>4, <1>5, <1>6, <1>7, <1>8, <1>9, <1>10, <1>11,
     <1>12, <1>13, <1>14, <1>15, <1>16 DEF Next

(***************************************************************************)
(* A new ledger entry adds its kind to the recorded ones.                  *)
(***************************************************************************)
LEMMA EntriesOfAppend ==
  ASSUME NEW S, NEW entries \in Seq(S), NEW k \in S
  PROVE  {Append(entries, k)[i] : i \in DOMAIN Append(entries, k)} =
           {entries[i] : i \in DOMAIN entries} \cup {k}
<1>1. /\ Len(entries) \in Nat
      /\ DOMAIN entries = 1 .. Len(entries)
      /\ DOMAIN Append(entries, k) = 1 .. Len(entries) + 1
  OBVIOUS
<1>2. \A i \in 1 .. Len(entries) : Append(entries, k)[i] = entries[i]
  OBVIOUS
<1>3. Append(entries, k)[Len(entries) + 1] = k
  OBVIOUS
<1> QED
  BY <1>1, <1>2, <1>3

(***************************************************************************)
(* Every change of the ledger republishes the blob, and only the keyboard  *)
(* flags pushed on top of themselves go beyond one undo.                   *)
(***************************************************************************)
LEMMA RecordingStep == IInv /\ [Next]_vars => Recording'
<1> SUFFICES ASSUME IInv, [Next]_vars PROVE Recording'
    OBVIOUS
<1> USE KindsAreDistinct DEF IInv, TypeOK, shared, Kind, Protocol, recorded, Control, Recording
<1>1. ASSUME Enter
      PROVE  Recording'
  BY <1>1 DEF Enter
<1>2. ASSUME Applied
      PROVE  Recording'
  BY <1>2 DEF Applied, protocol_undo_bytes
<1>3. ASSUME Arm
      PROVE  Recording'
  BY <1>3 DEF Arm
<1>4. ASSUME NEW effect \in BOOLEAN, ApplyEntry(effect)
      PROVE  Recording'
  BY <1>4 DEF ApplyEntry, Excuse, apply_level, pushed_twice
<1>5. ASSUME NEW k \in Protocol, EnableWrite(k)
      PROVE  Recording'
  BY <1>5 DEF EnableWrite, Excuse, apply_level, pushed_twice, in_force
<1>6. ASSUME EnableForgotten
      PROVE  Recording'
  BY <1>6 DEF EnableForgotten, Excuse
<1>7. ASSUME TrackMode
      PROVE  Recording'
  <2>1. pc = "enabling" /\ cur \in Kind
    BY <1>7 DEF TrackMode
  <2>2. ledger' = record(cur) /\ level' = level /\ excused' = excused
    BY <1>7 DEF TrackMode
  <2>3. recorded' = recorded \cup {cur}
    <3>1. CASE cur \in recorded
      BY <2>2, <3>1 DEF record
    <3>2. CASE cur \notin recorded
      <4>1. ledger' = Append(ledger, cur)
        BY <2>2, <3>2 DEF record
      <4> QED
        BY <2>1, <4>1, EntriesOfAppend
    <3> QED
      BY <3>1, <3>2
  <2>4. HasHandle => blob' = recorded' \ {Raw}
    BY <1>7, <2>3 DEF TrackMode, published, protocol_undo_bytes
  <2>5. \A k \in Kind : level'[k] > 0 => k \in recorded' \cup {cur'} \cup excused'
    BY <2>2, <2>3
  <2>6. level'[Kitty] > 1 => Kitty \in excused'
    BY <2>2
  <2> QED
    BY <2>4, <2>5, <2>6 DEF Recording
<1>8. ASSUME NEW k \in Mode, Reset(k)
      PROVE  Recording'
  BY <1>8 DEF Reset
<1>9. ASSUME Leave
      PROVE  Recording'
  BY <1>9 DEF Leave, claims
<1>10. ASSUME Undone
      PROVE  Recording'
  BY <1>10 DEF Undone
<1>11. ASSUME DropDevice
      PROVE  Recording'
  BY <1>11 DEF DropDevice
<1>12. ASSUME NEW effect \in BOOLEAN, UndoEntry(effect)
      PROVE  Recording'
  BY <1>12 DEF UndoEntry, Excuse, undo_level
<1>13. ASSUME NEW t \in Thread, HookClaim(t)
      PROVE  Recording'
  BY <1>13 DEF HookClaim, Excuse, claims
<1>14. ASSUME NEW t \in Thread, NEW out \in SUBSET blob, HookWrite(t, out)
      PROVE  Recording'
  BY <1>14 DEF HookWrite, Excuse
<1>15. ASSUME NEW t \in Thread, HookMode(t)
      PROVE  Recording'
  BY <1>15 DEF HookMode
<1>16. ASSUME UNCHANGED vars PROVE Recording'
  BY <1>16 DEF vars
<1> QED
  BY <1>1, <1>2, <1>3, <1>4, <1>5, <1>6, <1>7, <1>8, <1>9, <1>10, <1>11,
     <1>12, <1>13, <1>14, <1>15, <1>16 DEF Next

(***************************************************************************)
(* An orderly leave works its way down the ledger; a late hook of an       *)
(* earlier period only resets more.                                        *)
(***************************************************************************)
LEMMA UndoingStep == IInv /\ [Next]_vars => Undoing'
<1> SUFFICES ASSUME IInv, [Next]_vars PROVE Undoing'
    OBVIOUS
<1> USE KindsAreDistinct DEF IInv, TypeOK, shared, Kind, Protocol, recorded, Control, Recording, Undoing, will_reset
<1>1. ASSUME Enter
      PROVE  Undoing'
  BY <1>1 DEF Enter
<1>2. ASSUME Applied
      PROVE  Undoing'
  BY <1>2 DEF Applied, protocol_undo_bytes
<1>3. ASSUME Arm
      PROVE  Undoing'
  BY <1>3 DEF Arm
<1>4. ASSUME NEW effect \in BOOLEAN, ApplyEntry(effect)
      PROVE  Undoing'
  BY <1>4 DEF ApplyEntry, Excuse, apply_level, pushed_twice
<1>5. ASSUME NEW k \in Protocol, EnableWrite(k)
      PROVE  Undoing'
  BY <1>5 DEF EnableWrite, Excuse, apply_level, pushed_twice, in_force
<1>6. ASSUME EnableForgotten
      PROVE  Undoing'
  BY <1>6 DEF EnableForgotten, Excuse
<1>7. ASSUME TrackMode
      PROVE  Undoing'
  BY <1>7 DEF TrackMode, published, protocol_undo_bytes, record
<1>8. ASSUME NEW k \in Mode, Reset(k)
      PROVE  Undoing'
  BY <1>8 DEF Reset
<1>9. ASSUME Leave
      PROVE  Undoing'
  BY <1>9 DEF Leave, claims
<1>10. ASSUME Undone
      PROVE  Undoing'
  BY <1>10 DEF Undone
<1>11. ASSUME DropDevice
      PROVE  Undoing'
  BY <1>11 DEF DropDevice
<1>12. ASSUME NEW effect \in BOOLEAN, UndoEntry(effect)
      PROVE  Undoing'
  BY <1>12 DEF UndoEntry, Excuse, undo_level
<1>13. ASSUME NEW t \in Thread, HookClaim(t)
      PROVE  Undoing'
  BY <1>13 DEF HookClaim, Excuse, claims
<1>14. ASSUME NEW t \in Thread, NEW out \in SUBSET blob, HookWrite(t, out)
      PROVE  Undoing'
  BY <1>14 DEF HookWrite, Excuse
<1>15. ASSUME NEW t \in Thread, HookMode(t)
      PROVE  Undoing'
  BY <1>15 DEF HookMode
<1>16. ASSUME UNCHANGED vars PROVE Undoing'
  BY <1>16 DEF vars
<1> QED
  BY <1>1, <1>2, <1>3, <1>4, <1>5, <1>6, <1>7, <1>8, <1>9, <1>10, <1>11,
     <1>12, <1>13, <1>14, <1>15, <1>16 DEF Next

(***************************************************************************)
(* When the restoration has been claimed or completed, what is still on    *)
(* will be reset by the hook that claimed it. The claim excuses the kind   *)
(* whose enabling it cuts short, and the blob it writes holds all the      *)
(* others.                                                                 *)
(***************************************************************************)
LEMMA LooseStep == IInv /\ [Next]_vars => Loose'
<1> SUFFICES ASSUME IInv, [Next]_vars PROVE Loose'
    OBVIOUS
<1> USE KindsAreDistinct DEF IInv, TypeOK, shared, Kind, Protocol, recorded, Control, Recording, Loose, Undoing, will_reset, in_force
<1>1. ASSUME Enter
      PROVE  Loose'
  BY <1>1 DEF Enter
<1>2. ASSUME Applied
      PROVE  Loose'
  BY <1>2 DEF Applied, protocol_undo_bytes
<1>3. ASSUME Arm
      PROVE  Loose'
  BY <1>3 DEF Arm
<1>4. ASSUME NEW effect \in BOOLEAN, ApplyEntry(effect)
      PROVE  Loose'
  BY <1>4 DEF ApplyEntry, Excuse, apply_level, pushed_twice
<1>5. ASSUME NEW k \in Protocol, EnableWrite(k)
      PROVE  Loose'
  BY <1>5 DEF EnableWrite, Excuse, apply_level, pushed_twice, in_force
<1>6. ASSUME EnableForgotten
      PROVE  Loose'
  BY <1>6 DEF EnableForgotten, Excuse
<1>7. ASSUME TrackMode
      PROVE  Loose'
  BY <1>7 DEF TrackMode, published, protocol_undo_bytes, record
<1>8. ASSUME NEW k \in Mode, Reset(k)
      PROVE  Loose'
  BY <1>8 DEF Reset
<1>9. ASSUME Leave
      PROVE  Loose'
  BY <1>9 DEF Leave, claims
<1>10. ASSUME Undone
      PROVE  Loose'
  BY <1>10 DEF Undone
<1>11. ASSUME DropDevice
      PROVE  Loose'
  BY <1>11 DEF DropDevice
<1>12. ASSUME NEW effect \in BOOLEAN, UndoEntry(effect)
      PROVE  Loose'
  BY <1>12 DEF UndoEntry, Excuse, undo_level
<1>13. ASSUME NEW t \in Thread, HookClaim(t)
      PROVE  Loose'
  BY <1>13 DEF HookClaim, Excuse, claims
<1>14. ASSUME NEW t \in Thread, NEW out \in SUBSET blob, HookWrite(t, out)
      PROVE  Loose'
  BY <1>14 DEF HookWrite, Excuse
<1>15. ASSUME NEW t \in Thread, HookMode(t)
      PROVE  Loose'
  BY <1>15 DEF HookMode
<1>16. ASSUME UNCHANGED vars PROVE Loose'
  BY <1>16 DEF vars
<1> QED
  BY <1>1, <1>2, <1>3, <1>4, <1>5, <1>6, <1>7, <1>8, <1>9, <1>10, <1>11,
     <1>12, <1>13, <1>14, <1>15, <1>16 DEF Next

-----------------------------------------------------------------------------
LEMMA InitHolds == Init => IInv
<1> SUFFICES ASSUME Init PROVE IInv
  OBVIOUS
<1> USE KindsAreDistinct DEF Init, Kind, Protocol
<1>1. ledger \in Seq(Kind) /\ recorded = {Raw}
  BY DEF recorded
<1>2. TypeOK
  BY <1>1 DEF TypeOK
<1>3. Control /\ Claiming
  BY DEF Control, Claiming
<1>4. Recording
  BY <1>1 DEF Recording
<1>5. Loose /\ Undoing
  BY DEF Loose, Undoing
<1> QED
  BY <1>2, <1>3, <1>4, <1>5 DEF IInv

LEMMA StepKeeps == IInv /\ [Next]_vars => IInv'
BY TypeStep, ControlStep, ClaimingStep, RecordingStep, LooseStep, UndoingStep DEF IInv

(***************************************************************************)
(* IInv is an invariant of SessionLifecycle.                               *)
(***************************************************************************)
THEOREM InductiveInvariant == Spec => []IInv
<1>1. Init => IInv
  BY InitHolds
<1>2. IInv /\ [Next]_vars => IInv'
  BY StepKeeps
<1> QED
  BY <1>1, <1>2, PTL DEF Spec

(***************************************************************************)
(* Every variable keeps its type.                                          *)
(***************************************************************************)
THEOREM TypeCorrect == Spec => []TypeOK
<1>1. IInv => TypeOK
  BY DEF IInv
<1> QED
  BY <1>1, InductiveInvariant, PTL

(***************************************************************************)
(* A session that has left, with no hook at work, has left the terminal as *)
(* it found it but for the excused kinds.                                  *)
(***************************************************************************)
THEOREM TerminalIsRestored == Spec => []CleanAfterLeave
<1>1. IInv => CleanAfterLeave
  BY DEF IInv, Loose, in_force, will_reset, CleanAfterLeave, quiet
<1> QED
  BY <1>1, InductiveInvariant, PTL

(***************************************************************************)
(* Whenever the handle is armed, the published blob and the captured       *)
(* device mode cover everything the session has turned on.                 *)
(***************************************************************************)
THEOREM EmergencyIsCovered == Spec => []EmergencyCovers
<1>1. IInv => EmergencyCovers
  BY DEF IInv, Control, Recording, EmergencyCovers
<1> QED
  BY <1>1, InductiveInvariant, PTL

(***************************************************************************)
(* The panic hooks and the orderly leave restore at most once between one  *)
(* enter and the next.                                                     *)
(***************************************************************************)
THEOREM RestorationIsClaimedOnce == Spec => []RestoredOncePerPeriod
<1>1. IInv => RestoredOncePerPeriod
  BY DEF IInv, Claiming, RestoredOncePerPeriod
<1> QED
  BY <1>1, InductiveInvariant, PTL

=============================================================================
