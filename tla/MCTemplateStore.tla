---------------------------- MODULE MCTemplateStore ----------------------------
(* Instances of TemplateStore for TLC: threads of one process.         *)
EXTENDS TemplateStore, TLC

CONSTANTS a, b, nan, proc

MCEmbedding == {a, b, nan}
MCBundles == {<<a>>, <<nan>>}
MCLegacy == {[templates |-> <<>>, rgb |-> <<b>>, ir |-> <<a>>]}
MCProcessOf == [t \in Threads |-> proc]

(* Neither inodes nor threads have an order, and no liveness is checked.   *)
Symmetry == Permutations(Inode) \cup Permutations(Threads)

===============================================================================
