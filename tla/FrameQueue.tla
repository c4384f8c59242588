----------------------------- MODULE FrameQueue -----------------------------
(***************************************************************************)
(* What a descriptor ring promises: a first-in first-out queue of         *)
(* frames.  None is lost, duplicated, reordered or overwritten between its *)
(* two ends; only the frames that its reader refuses are thrown away, when *)
(* it is their turn.                                                       *)
(***************************************************************************)
EXTENDS Naturals, Sequences

CONSTANT Frame

VARIABLES q,        \* the frames in the ring
          out,      \* the frame taken out last
          refused   \* the frames its reader refuses

Init == /\ q = <<>>
        /\ out \notin Frame
        /\ refused \subseteq Frame

Put(f) == /\ q' = Append(q, f)
          /\ UNCHANGED out

Get == /\ q # <<>>
       /\ Head(q) \notin refused
       /\ out' = Head(q)
       /\ q' = Tail(q)

Drop == /\ q # <<>>
        /\ Head(q) \in refused
        /\ q' = Tail(q)
        /\ UNCHANGED out

Next == /\ (\E f \in Frame : Put(f)) \/ Get \/ Drop
        /\ UNCHANGED refused

Spec == Init /\ [][Next]_<<q, out, refused>>

=============================================================================
