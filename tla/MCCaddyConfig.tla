---------------------------- MODULE MCCaddyConfig ----------------------------
EXTENDS CaddyConfig, TLC

Symmetry == Permutations(Routes) \cup Permutations(Domains) \cup Permutations(Targets)
            \cup Permutations(Procs)
=============================================================================
