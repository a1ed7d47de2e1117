------------------------------ MODULE MC_Socket ------------------------------
EXTENDS Socket, TLC

CONSTANTS s1, s2, s3, h1, h2, UNIX

MCSockets == {s1, s2, s3}
MCHandles == {h1, h2}
MCFamilies == {INET, INET6, UNIX}

\* Socket structs and handle values are interchangeable names.
MCSymmetry == Permutations(MCSockets) \cup Permutations(MCHandles)
=============================================================================
