------------------------------- MODULE MCMixer -------------------------------
(* Instances of Mixer for TLC. *)
EXTENDS Mixer, TLC

\* The inputs are interchangeable: the mixer never compares two of them.
InputSymmetry == Permutations(Inputs)
=============================================================================
