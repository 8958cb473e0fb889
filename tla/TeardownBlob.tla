---------------------------- MODULE TeardownBlob -----------------------------
(***************************************************************************)
(* What the double-buffered teardown blob of session/restore.rs promises a *)
(* panic hook: a read returns one whole blob, no older than the one that   *)
(* was published when the read began, and at most as new as the one being  *)
(* published when it ends.  Blobs are numbered in the order of publication.*)
(***************************************************************************)
EXTENDS Naturals

CONSTANTS Reader, NoBlob

VARIABLES
  begun,      \* number of the last blob handed to publish
  published,  \* number of the last blob whose publication is complete
  oldest,     \* for each reader, what was published when its read began
  got         \* what its last completed read returned, NoBlob while it reads

vars == <<begun, published, oldest, got>>

Init ==
  /\ begun = 0 /\ published = 0
  /\ oldest = [r \in Reader |-> 0]
  /\ got = [r \in Reader |-> 0]

Begin ==
  /\ begun = published
  /\ begun' = begun + 1
  /\ UNCHANGED <<published, oldest, got>>

Finish ==
  /\ published' = begun
  /\ UNCHANGED <<begun, oldest, got>>

StartRead(r) ==
  /\ got[r] # NoBlob
  /\ oldest' = [oldest EXCEPT ![r] = published]
  /\ got' = [got EXCEPT ![r] = NoBlob]
  /\ UNCHANGED <<begun, published>>

EndRead(r) ==
  /\ got[r] = NoBlob
  /\ \E n \in oldest[r] .. begun : got' = [got EXCEPT ![r] = n]
  /\ UNCHANGED <<begun, published, oldest>>

Next == Begin \/ Finish \/ \E r \in Reader : StartRead(r) \/ EndRead(r)

Spec == Init /\ [][Next]_vars

=============================================================================
