----------------------------- MODULE Selection -----------------------------
(***************************************************************************)
(* The loop that appends to a new slice those elements of a slice that     *)
(* pass a test: of names (config.go, New) and of tests (testdata.go,       *)
(* ParseTestJSON).  That the elements pass is being in a set.              *)
(***************************************************************************)
EXTENDS Integers, Sequences

(* What has been selected of s after i turns of the loop.                  *)
SelectedUpTo(s, T) ==
  LET upTo[i \in 0 .. Len(s)] ==
        IF i = 0 THEN <<>>
        ELSE IF s[i] \in T THEN Append(upTo[i - 1], s[i]) ELSE upTo[i - 1]
  IN upTo

Selected(s, T) == SelectedUpTo(s, T)[Len(s)]

=============================================================================
