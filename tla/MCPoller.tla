------------------------------ MODULE MCPoller ------------------------------
(* Constants for model checking Poller.                                    *)
EXTENDS Poller

\* CraneData::operator== ignores the motors' positions (CraneData.hpp:35-39).
\* Field 1 stands for the positions, field 2 for colour and touch.
CraneSame(a, b) == a[2] = b[2]
=============================================================================
