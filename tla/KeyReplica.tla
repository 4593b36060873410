----------------------------- MODULE KeyReplica -----------------------------
(***************************************************************************)
(* What a continuous sync promises about every row of the source, without  *)
(* saying how: a write-back copy.  A change at the source makes the row    *)
(* "stale"; the destination may hold anything for a stale row (an old      *)
(* image, a replayed one); a row is declared "synced" only when the        *)
(* destination holds the source's image, or "abandoned" when the sync has  *)
(* given up on its last change (the writer rejected it).  While a row is   *)
(* not stale nothing touches its copy.                                     *)
(***************************************************************************)
CONSTANTS Key,      \* rows of the replicated namespaces
          Val,      \* row images
          NoRow     \* no such row

VARIABLES src,      \* [Key -> Image]: the source's rows
          dest,     \* [Key -> Image]: the destination's rows
          mark      \* [Key -> Mark]: what is known of each row

vars == <<src, dest, mark>>

Image == Val \cup {NoRow}
Mark == {"stale", "synced", "abandoned"}

Init ==
  /\ src = [k \in Key |-> NoRow]
  /\ dest = [k \in Key |-> NoRow]
  /\ mark = [k \in Key |-> "stale"]

\* The application changes one row of the source.
Change ==
  \E k \in Key, v \in Image :
    /\ src' = [src EXCEPT ![k] = v]
    /\ mark' = [mark EXCEPT ![k] = "stale"]
    /\ UNCHANGED dest

\* The sync writes to the destination, only where the copy is stale.
Write ==
  /\ dest' \in [Key -> Image]
  /\ \A k \in Key : dest'[k] # dest[k] => mark[k] = "stale"
  /\ UNCHANGED <<src, mark>>

\* The sync declares stale rows settled: the copy is right, or given up.
Settle ==
  /\ mark' \in [Key -> Mark]
  /\ \A k \in Key : mark'[k] # mark[k] =>
       /\ mark[k] = "stale"
       /\ mark'[k] = "synced" => dest[k] = src[k]
  /\ UNCHANGED <<src, dest>>

Next == Change \/ Write \/ Settle

Spec == Init /\ [][Next]_vars

(* A row that is declared synced is the same on both sides. *)
SyncedIsEqual == \A k \in Key : mark[k] = "synced" => dest[k] = src[k]
=============================================================================
