---------------------------- MODULE Subsequences ----------------------------
(* The subsequence of the elements that are in a set: SelectSeq for a test    *)
(* that is a set, as a recursive function, so that facts about it can be      *)
(* proved (Subsequences_proofs).                                              *)
EXTENDS Naturals, Sequences

Kept(s, K) ==
    LET upTo[i \in 0 .. Len(s)] ==
            IF i = 0 THEN <<>>
            ELSE IF s[i] \in K THEN Append(upTo[i - 1], s[i]) ELSE upTo[i - 1]
    IN  upTo[Len(s)]
=============================================================================
