---------------------------- MODULE MCEmailPipeline ----------------------------
(* Instances of EmailPipeline for TLC. *)
EXTENDS EmailPipeline, TLC

CONSTANTS r1, r2, s1, s2

\* Message ids as sequences of characters.
OneMessage == {<<"a">>}
TwoMessages == {<<"a">>, <<"b">>}
\* Two ids that differ only where toEmailProcessingJobId does not look.
CollidingMessages == {<<"a", ":">>, <<"a", "_">>}

\* Deliveries and slots are interchangeable in the safety runs.
Symmetry == Permutations({r1, r2}) \cup Permutations({s1, s2})

===============================================================================
