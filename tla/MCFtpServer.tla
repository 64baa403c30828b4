---------------------------- MODULE MCFtpServer ----------------------------
(* FtpServer for TLC.  The blocks are interchangeable; the descriptors are *)
(* too, but for the two the program names.                                 *)
EXTENDS FtpServer, TLC

CONSTANTS f1, f2, f3, f4

Fd4 == {ServerFd, FdZero, f1, f2, f3, f4}
Fd3 == {ServerFd, FdZero, f1, f2, f3}
Fd2 == {ServerFd, FdZero, f1, f2}

(* A malloc()ed block holds whatever was there: -1, or 0.                  *)
Uninit == {NoFd, FdZero}

(* The commands with effects of their own, NOOP for those that only answer *)
(* and BLANK for those that do not even answer.                            *)
Essential == {"USER", "PASS", "QUIT", "REIN", "NOOP", "BLANK", "PASV", "PORT", "LIST"}

(* A client in passive mode.                                               *)
Passive == {"USER", "PASS", "PASV", "LIST"}

(* A run under this constraint stops at the first channel that is freed    *)
(* while it is linked, and at the first descriptor that is closed by       *)
(* somebody it does not belong to: what follows is for the other runs.     *)
UpToFirstCorruption == ~(m.early \/ m.wild)

Together(P, Q) == {p @@ q : p \in P, q \in Q}

Symmetry == Together(Permutations(Chans), Permutations(Fd \ {ServerFd, FdZero}))
=============================================================================
