----------------------------- MODULE MCARPCache -----------------------------
\* ARPCache with two rows for three hosts and small ages.
EXTENDS ARPCache, TLC

CONSTANTS self, router, hostA, remote, everyone, m1, m2, m3

MCIps == {router, hostA, self, remote, everyone}
MCMacs == {m1, m2, m3}
TwoMacs == {m1, m2}
MCOnNet == {self, router, hostA}
MCFixedMac == {everyone}
Symmetry == Permutations(MCMacs)
=============================================================================
