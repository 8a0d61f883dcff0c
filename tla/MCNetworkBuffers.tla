-------------------------- MODULE MCNetworkBuffers --------------------------
\* NetworkBuffers with the IP task, two application tasks and two descriptors.
EXTENDS NetworkBuffers, TLC

CONSTANTS ipTask, appA, appB, d1, d2

MCTasks == {ipTask, appA, appB}
MCBlocking == {appA, appB}
MCDescriptors == {d1, d2}
Symmetry == Permutations(MCDescriptors) \cup Permutations(MCBlocking)
=============================================================================
