------------------------------ MODULE BlockQueue ------------------------------
(***************************************************************************)
(* What the block processor promises about the order in which blocks are  *)
(* handed to the ledger (spec.md section 4.1 and "Ordering guarantees"):  *)
(* blocks wait in three first-in first-out lanes, a forced lane, a normal *)
(* lane and a verification lane; callers only ever append at the back;    *)
(* the verification stage passes its lane on to the back of the normal    *)
(* lane in order, dropping the blocks that fail; one block at a time is   *)
(* taken for the ledger, from the forced lane while it has any, otherwise *)
(* from the normal lane, and is then done.                                 *)
(***************************************************************************)
EXTENDS Sequences, FiniteSets
LOCAL INSTANCE SequencesExt

CONSTANTS Blocks, NoBlock

VARIABLES
  urgent,    \* the forced lane
  normal,    \* the normal lane
  checking,  \* the verification lane
  taken,     \* the block handed to the ledger, or NoBlock
  done       \* the blocks the ledger has been handed

avars == <<urgent, normal, checking, taken, done>>

Init ==
  /\ urgent = <<>> /\ normal = <<>> /\ checking = <<>>
  /\ taken = NoBlock /\ done = {}

(* Callers append blocks at the back of any of the lanes, nowhere else.   *)
Admit ==
  /\ IsPrefix(urgent, urgent') /\ IsPrefix(normal, normal') /\ IsPrefix(checking, checking')
  /\ <<urgent, normal, checking>> # <<urgent', normal', checking'>>
  /\ UNCHANGED <<taken, done>>

(* The verification stage empties its lane onto the back of the normal    *)
(* lane, keeping the order of the blocks that pass.                        *)
Verify ==
  /\ checking # <<>>
  /\ \E keep \in SUBSET ToSet(checking) :
       normal' = normal \o SelectSeq(checking, LAMBDA b : b \in keep)
  /\ checking' = <<>>
  /\ UNCHANGED <<urgent, taken, done>>

(* The head of the forced lane, or with none forced the head of the       *)
(* normal lane, is taken for the ledger.                                   *)
Take ==
  /\ taken = NoBlock
  /\ \/ /\ urgent # <<>>
        /\ taken' = Head(urgent) /\ urgent' = Tail(urgent)
        /\ UNCHANGED normal
     \/ /\ urgent = <<>> /\ normal # <<>>
        /\ taken' = Head(normal) /\ normal' = Tail(normal)
        /\ UNCHANGED urgent
  /\ UNCHANGED <<checking, done>>

Finish ==
  /\ taken # NoBlock
  /\ done' = done \cup {taken}
  /\ taken' = NoBlock
  /\ UNCHANGED <<urgent, normal, checking>>

Next == Admit \/ Verify \/ Take \/ Finish

Spec == Init /\ [][Next]_avars

=============================================================================
