---------------------------- MODULE MCBuildStore ----------------------------
(* Values for the constants of BuildStore.                                 *)
EXTENDS BuildStore

CONSTANTS standard, x86, arm

OnePair == {<<standard, x86>>}
TwoArchs == {<<standard, x86>>, <<standard, arm>>}

\* Nothing disabled, one architecture, or all.
OnlyX86 == {[repository |-> Every, arch |-> x86]}
Everything == {[repository |-> Every, arch |-> Every]}
NothingDisabled == {{}}
SomeDisabled == {{}, OnlyX86, Everything}

\* Sets that TLC may permute: nothing tells their elements apart.
NameSymmetry == Permutations(Projects) \cup Permutations(PackageNames)
=============================================================================
