------------------------- MODULE MCCandidateCheck -------------------------
EXTENDS CandidateCheck, TLC

MCEachOther == Job \X Job

ThreadSymmetry == Permutations(Worker) \cup Permutations(Conn)
=============================================================================
