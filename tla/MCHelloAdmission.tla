-------------------------- MODULE MCHelloAdmission --------------------------
EXTENDS HelloAdmission, TLC

\* No definition tells one handler, process, user or HELLO from another.
AdmissionSymmetry == Permutations(Handler) \cup Permutations(Instance) \cup Permutations(User)
                     \cup Permutations(Hello)
=============================================================================
