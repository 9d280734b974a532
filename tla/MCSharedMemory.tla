---------------------------- MODULE MCSharedMemory ----------------------------
(* SharedMemory for TLC: CGI processes are interchangeable. *)
EXTENDS SharedMemory, TLC

CgiSymmetry == Permutations(Cgi)

===============================================================================
