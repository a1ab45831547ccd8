----------------------------- MODULE MCAnimator -----------------------------
(* Animator with every client spelled in lower case.  animate() misbehaves  *)
(* when two animations end in one frame; SpacedSpec keeps their ends apart.  *)
EXTENDS Animator

\* A destination beyond the screen with no scale, one on it with a scale below zero,
\* and none.
MCTargets == {[size |-> 2, scale |-> Unspecified], [size |-> 1, scale |-> -1],
              [size |-> Unspecified, scale |-> Unspecified]}

Same == [n \in Names |-> n]

EndsDiffer ==
    \A i, j \in DOMAIN animations :
        animations[i].delay + animations[i].left = animations[j].delay + animations[j].left
          => i = j

SpacedSpec == Init /\ [][Next /\ EndsDiffer']_vars

SpacedFairSpec == SpacedSpec /\ WF_vars(Animate)

Symmetry == Permutations(Names) \cup Permutations(Compositors)

=============================================================================
