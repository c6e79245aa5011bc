----------------------------- MODULE MCOtaCore -----------------------------
(* Instances of OtaCore for TLC: a few sessions, model values throughout.    *)
EXTENDS OtaCore, TLC

\* Sessions of one kind are interchangeable; only for runs of safety properties.
Symmetry == Permutations(UpdateSessions) \cup Permutations(ClientSessions)

=============================================================================
