-------------------------- MODULE MCNodeReconciler --------------------------
(***************************************************************************)
(* Instances of NodeReconciler for TLC.                                    *)
(***************************************************************************)
EXTENDS NodeReconciler

\* Any set of resources, every name claimed, and none.
MCAnyList == Resources

MCAllClaimed == {r \in Resources : \A n \in Names : r[n] # None}

=============================================================================
