-------------------------- MODULE MCQualification --------------------------
EXTENDS Qualification, TLC

\* Datasets and validations are interchangeable.
Symmetry == Permutations(Files) \cup Permutations(Walks)
=============================================================================
