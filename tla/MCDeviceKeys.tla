---------------------------- MODULE MCDeviceKeys ----------------------------
EXTENDS DeviceKeys, TLC

\* Keys, processes and inodes are interchangeable.
Symmetry == Permutations(Keys) \cup Permutations(Procs) \cup Permutations(Inodes)

=============================================================================
