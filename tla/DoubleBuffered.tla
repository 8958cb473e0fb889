--------------------------- MODULE DoubleBuffered ----------------------------
(***************************************************************************)
(* DoubleBuffered of src/src/session/restore.rs: one publisher renders     *)
(* into the inactive of two locked buffers and swaps the active index;     *)
(* readers load the index, lock that buffer and read it.  The index may    *)
(* change between a reader's load and its lock, and again, so that the     *)
(* buffer it locks is one being rendered.                                  *)
(*                                                                         *)
(* A blob is rendered and read in two halves, so that a torn one can be    *)
(* told from a whole one.                                                  *)
(***************************************************************************)
EXTENDS Naturals

CONSTANTS
  Reader,       \* threads whose panic hook reads the blob
  Publisher,    \* the session's thread
  NoOne, NoBlob,
  MaxPublished  \* bound: blobs published

ASSUME ThreadsAreDistinct ==
  /\ Publisher \notin Reader
  /\ NoOne \notin Reader \cup {Publisher}
  /\ NoBlob \notin Nat
  /\ MaxPublished \in Nat

VARIABLES
  active,   \* DoubleBuffered.active
  buffers,  \* contents: the number of the blob in each half
  owner,    \* who holds the lock of each buffer
  publishing, target,     \* the publisher's step, and the buffer it renders
  reading, source, first, \* each reader's step, its buffer and the first half
  begun, published, oldest, got  \* as in TeardownBlob

publisher == <<publishing, target, begun, published>>
cell_vars == <<active, buffers, owner, publishing, target,
          reading, source, first, begun, published, oldest, got>>

Buffer == {0, 1}

CellInit ==
  /\ active = 0
  /\ buffers = [b \in Buffer |-> [h \in {1, 2} |-> 0]]
  /\ owner = [b \in Buffer |-> NoOne]
  /\ publishing = "no" /\ target = 0
  /\ reading = [r \in Reader |-> "no"]
  /\ source = [r \in Reader |-> 0]
  /\ first = [r \in Reader |-> 0]
  /\ begun = 0 /\ published = 0
  /\ oldest = [r \in Reader |-> 0]
  /\ got = [r \in Reader |-> 0]

-----------------------------------------------------------------------------
\* Mutant: the blob is rendered in place.
the_active_one == active

inactive == 1 - active

free(b) == owner[b] = NoOne

\* Mutant: the index is advanced and never wrapped.
advanced == active + 1

\* Mutant: the new blob is rendered and never swapped in.
not_swapped == active

swapped == target

(***************************************************************************)
(* publish, by the session's thread only.                                  *)
(***************************************************************************)
StartPublish ==
  /\ publishing = "no"
  /\ begun < MaxPublished
  /\ begun' = begun + 1
  /\ target' = inactive
  /\ publishing' = "lock"
  /\ UNCHANGED <<active, buffers, owner, reading, source, first, published, oldest, got>>

LockTarget ==
  /\ publishing = "lock"
  /\ free(target)
  /\ owner' = [owner EXCEPT ![target] = Publisher]
  /\ publishing' = "render"
  /\ UNCHANGED <<active, buffers, target, reading, source, first, begun, published, oldest, got>>

Render ==
  /\ publishing = "render"
  /\ buffers' = [buffers EXCEPT ![target][1] = begun]
  /\ publishing' = "finish"
  /\ UNCHANGED <<active, owner, target, reading, source, first, begun, published, oldest, got>>

FinishRender ==
  /\ publishing = "finish"
  /\ buffers' = [buffers EXCEPT ![target][2] = begun]
  /\ owner' = [owner EXCEPT ![target] = NoOne]
  /\ publishing' = "swap"
  /\ UNCHANGED <<active, target, reading, source, first, begun, published, oldest, got>>

Swap ==
  /\ publishing = "swap"
  /\ active' = swapped
  /\ published' = begun
  /\ publishing' = "no"
  /\ UNCHANGED <<buffers, owner, target, reading, source, first, begun, oldest, got>>

(***************************************************************************)
(* read_current.                                                           *)
(***************************************************************************)
LoadActive(r) ==
  /\ reading[r] = "no"
  /\ source' = [source EXCEPT ![r] = active]
  /\ reading' = [reading EXCEPT ![r] = "lock"]
  /\ oldest' = [oldest EXCEPT ![r] = published]
  /\ got' = [got EXCEPT ![r] = NoBlob]
  /\ UNCHANGED <<active, buffers, owner, first, publisher>>

LockSource(r) ==
  /\ reading[r] = "lock"
  /\ free(source[r])
  /\ owner' = [owner EXCEPT ![source[r]] = r]
  /\ reading' = [reading EXCEPT ![r] = "read"]
  /\ UNCHANGED <<active, buffers, source, first, oldest, got, publisher>>

ReadHalf(r) ==
  /\ reading[r] = "read"
  /\ first' = [first EXCEPT ![r] = buffers[source[r]][1]]
  /\ reading' = [reading EXCEPT ![r] = "finish"]
  /\ UNCHANGED <<active, buffers, owner, source, oldest, got, publisher>>

\* A torn blob would read as NoBlob.
FinishRead(r) ==
  /\ reading[r] = "finish"
  /\ got' = [got EXCEPT ![r] = IF buffers[source[r]][2] = first[r] THEN first[r] ELSE NoBlob]
  /\ owner' = [owner EXCEPT ![source[r]] = NoOne]
  /\ reading' = [reading EXCEPT ![r] = "no"]
  /\ UNCHANGED <<active, buffers, source, first, oldest, publisher>>

CellNext ==
  \/ StartPublish \/ LockTarget \/ Render \/ FinishRender \/ Swap
  \/ \E r \in Reader : LoadActive(r) \/ LockSource(r) \/ ReadHalf(r) \/ FinishRead(r)

CellSpec == CellInit /\ [][CellNext]_cell_vars

-----------------------------------------------------------------------------
CellTypeOK ==
  /\ active \in Buffer
  /\ buffers \in [Buffer -> [{1, 2} -> 0 .. MaxPublished]]
  /\ owner \in [Buffer -> Reader \cup {Publisher, NoOne}]
  /\ publishing \in {"no", "lock", "render", "finish", "swap"}
  /\ target \in Buffer
  /\ reading \in [Reader -> {"no", "lock", "read", "finish"}]
  /\ source \in [Reader -> Buffer]
  /\ first \in [Reader -> 0 .. MaxPublished]
  /\ begun \in 0 .. MaxPublished /\ published \in 0 .. begun
  /\ oldest \in [Reader -> 0 .. published]
  /\ got \in [Reader -> 0 .. MaxPublished \cup {NoBlob}]

(***************************************************************************)
(* The active buffer holds the whole of the last published blob at every   *)
(* moment, in the middle of the next publication as well.                  *)
(***************************************************************************)
PublishedIsWhole == \A h \in {1, 2} : buffers[active][h] = published

(***************************************************************************)
(* A completed read has a whole blob: "never a torn mix".                  *)
(***************************************************************************)
NeverTorn == \A r \in Reader : reading[r] = "no" => got[r] # NoBlob

(***************************************************************************)
(* The inductive invariant.                                                *)
(***************************************************************************)
\* Which blob is being published, and how far it is rendered.
Rendering ==
  /\ begun = IF publishing = "no" THEN published ELSE published + 1
  /\ publishing # "no" => target = inactive
  /\ \A b \in Buffer, h \in {1, 2} : buffers[b][h] <= begun
  /\ publishing \in {"finish", "swap"} => buffers[target][1] = begun
  /\ publishing = "swap" => buffers[target][2] = begun
  /\ \A b \in Buffer :
       buffers[b][1] = buffers[b][2] \/ (publishing = "finish" /\ b = target)

\* Who holds which lock.
Locking ==
  \A b \in Buffer :
    /\ owner[b] = Publisher <=> publishing \in {"render", "finish"} /\ b = target
    /\ \A r \in Reader :
         owner[b] = r <=> reading[r] \in {"read", "finish"} /\ b = source[r]

\* What a reader finds in its buffer, however late it locks it.
Reading ==
  \A r \in Reader :
    /\ got[r] = NoBlob <=> reading[r] # "no"
    /\ reading[r] # "no" => \A h \in {1, 2} : oldest[r] <= buffers[source[r]][h]
    /\ reading[r] = "finish" => first[r] = buffers[source[r]][1]

CellInv == CellTypeOK /\ PublishedIsWhole /\ Rendering /\ Locking /\ Reading

(***************************************************************************)
(* The cell implements TeardownBlob.                                       *)
(***************************************************************************)
Abstract == INSTANCE TeardownBlob
              WITH begun <- begun, published <- published, oldest <- oldest, got <- got

ImplementsTeardownBlob == Abstract!Spec

=============================================================================
