------------------------------ MODULE MCVodService ------------------------------
(* Two ids for one running job, and two handles: an id is started again while  *)
(* clients still hold its old handle, or beside the record of the other.  No    *)
(* finished record is kept, so that every pruning evicts.                      *)
EXTENDS VodService

CONSTANTS i1, i2, w1, c1, c2

MCJobIds == {i1, i2}
MCWatchers == {w1}
MCCallers == {c1, c2}
MCPatient == {w1, c1}
=============================================================================
