--------------------------- MODULE MCUploadService ---------------------------
(* Small instances of UploadService: one artifact per package, one dataset,   *)
(* two contents of different size, one idempotency key.                        *)
EXTENDS UploadService, TLC

CONSTANTS c1, c2, d1, p1, p2, k1

MCTotalBytes == (c1 :> 1) @@ (c2 :> 2)

Ask(p, c, k) == [principal |-> p, dataset |-> d1, content |-> c, key |-> k]

\* The same content with and without a key, another content with that key, and a
\* principal that does not own the dataset.
WithKey ==
  {Ask(p1, c1, k1), Ask(p1, c2, k1), Ask(p1, c1, NoKey), Ask(p2, c1, NoKey)}

\* A client that sends the same request again
Twice == {Ask(p1, c1, k1)}

\* The same bytes without a key
Keyless == {Ask(p1, c1, NoKey)}

\* The same bytes with and without a key
KeyOptional == Twice \cup Keyless

\* One that fits a quota of 1 and one that alone exceeds it, the latter with a key
\* and without
SmallAndLarge == {Ask(p1, c1, k1), Ask(p1, c2, k1), Ask(p1, c2, NoKey)}

\* Where an exception leaves something behind until the next start: after the row
\* is committed and before pending_inserted is set, after os.replace and before
\* finalized is set, and in the cleanup itself.
LeakySteps == {"get_pending", "fsync_parent"} \cup CleanupSteps

\* Faults whose traces the next startups are meant to find
RecoverableFaults == {"get_pending", "delete_row", "release_key", "remove_staging"}

\* After the commit, where an exception strands the reservation.
StrandingSteps == {"complete"}

\* Where an exception finds the directory already in its final place
CommitFault == {"commit"}

CleanFaults == BodySteps \ (LeakySteps \cup StrandingSteps)

Symmetry == Permutations(VersionIds)

=============================================================================
