---------------------------- MODULE UploadStore ----------------------------
(***************************************************************************)
(* What the resumable upload promises of the disk, without connections,     *)
(* tasks, locks or .meta files: under every path at most one content is     *)
(* being collected, block by block and in order; it may be given up at any  *)
(* time; it is published, at once and as a whole, only when it is complete. *)
(***************************************************************************)
EXTENDS Naturals

CONSTANTS Path, Content, Size, Nothing

VARIABLES
  stored,   \* what stands under the final name: << >> or all blocks of a content
  kept      \* the blocks kept for a resume: of which content, and how many

vars == <<stored, kept>>

None == [md5 |-> Nothing, n |-> 0]

Init ==
  /\ stored = [p \in Path |-> << >>]
  /\ kept = [p \in Path |-> None]

(* The next block of a content that is being collected, or the first one.  *)
Keep(p, m) ==
  /\ kept[p] = None \/ kept[p].md5 = m
  /\ kept[p].n < Size[m]
  /\ kept' = [kept EXCEPT ![p] = [md5 |-> m, n |-> kept[p].n + 1]]
  /\ UNCHANGED stored

GiveUp(p) ==
  /\ kept' = [kept EXCEPT ![p] = None]
  /\ UNCHANGED stored

Publish(p, m) ==
  /\ kept[p] = [md5 |-> m, n |-> Size[m]]
  /\ stored' = [stored EXCEPT ![p] = [i \in 1 .. Size[m] |-> m]]
  /\ kept' = [kept EXCEPT ![p] = None]

Next ==
  \E p \in Path :
    GiveUp(p) \/ \E m \in Content : Keep(p, m) \/ Publish(p, m)

Spec == Init /\ [][Next]_vars

=============================================================================
