------------------------------ MODULE Retaining ------------------------------
(***************************************************************************)
(* Vec::retain, with which the app store takes requests, drafts and        *)
(* overlays out of its lists.                                              *)
(***************************************************************************)
EXTENDS Naturals, Sequences

\* The elements of s that are in K, in their order.
Retain(s, K) ==
  LET R[i \in 0..Len(s)] == IF i = 0 THEN <<>>
                            ELSE IF s[i] \in K THEN Append(R[i - 1], s[i]) ELSE R[i - 1]
  IN R[Len(s)]
=============================================================================
