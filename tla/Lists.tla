------------------------------- MODULE Lists -------------------------------
(* What a loop over a list that keeps some of its members leaves.          *)
EXTENDS Integers, Sequences

Kept(s, S) ==
  LET f[n \in 0 .. Len(s)] ==
        IF n = 0 THEN <<>>
        ELSE IF s[n] \in S THEN Append(f[n - 1], s[n]) ELSE f[n - 1]
  IN f[Len(s)]
=============================================================================
