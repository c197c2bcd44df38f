---------------------------- MODULE OrderedOnce -----------------------------
(***************************************************************************)
(* What one direction of a paired channel promises for the lifetime of the *)
(* pairing, whatever crashes, reconnects and losses happen in between:     *)
(* every frame sent carries a number above all earlier ones, and what is   *)
(* taken is taken in ascending order and at most once.  Gaps are allowed.  *)
(* One thing can undo a take: a receiver that could not keep its mark and  *)
(* then crashed is back at the mark it last kept, and no further back.     *)
(***************************************************************************)
EXTENDS Integers, FiniteSets, FiniteSetsExt

VARIABLES
  count,   \* how many frames were sent
  top,     \* the highest number a frame was sent with
  taken,   \* how many frames the receiver has accepted as authentic
  got,     \* the receiver's mark: the number it took last
  kept,    \* the mark it would come back with after a crash
  unkept   \* the attempt to keep the newest mark failed, and none succeeded since

Init ==
  /\ count \in Nat /\ top \in Nat /\ taken \in Nat /\ got \in Nat /\ got <= top
  /\ kept = got /\ unkept = FALSE

\* Numbers may be skipped, never used again.  A handler that answers at once sends
\* several frames.
Send ==
  /\ count' > count
  /\ top' - top >= count' - count
  /\ UNCHANGED <<taken, got, kept, unkept>>

\* What is taken is kept, unless keeping it fails.
Take ==
  /\ \E S \in (SUBSET ((got + 1)..top)) \ {{}} :
       /\ got' = Max(S)
       /\ taken' = taken + Cardinality(S)
  /\ kept' = (IF unkept' THEN kept ELSE got')
  /\ UNCHANGED <<count, top>>

\* A later attempt succeeds.
Keep ==
  /\ kept' = got /\ unkept' = FALSE
  /\ UNCHANGED <<count, top, taken, got>>

\* The crash of a receiver whose newest mark is not kept.
Forget ==
  /\ unkept
  /\ got' = kept /\ unkept' = FALSE
  /\ UNCHANGED <<count, top, taken, kept>>

Next == Send \/ Take \/ Keep \/ Forget

Spec == Init /\ [][Next]_<<count, top, taken, got, kept, unkept>>
=============================================================================
