---------------------------- MODULE MCSecureConfig ----------------------------
EXTENDS SecureConfig, TLC

CONSTANTS a, b, c, d, e, x, y

MCFiveTasks == {a, b, c, d, e}

Passwords == {"right", "wrong"}

Interchangeable == Permutations(MCFiveTasks) \cup Permutations({x, y})
=============================================================================
