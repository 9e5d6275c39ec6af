---------------------------- MODULE MC_Governor ----------------------------
(* Two groups to merge, the second one due while the bucket is empty, on a  *)
(* machine that says nothing of its power or has half of its memory free.   *)
EXTENDS Governor
Plans == {<<4, 4>>, <<4, 2>>}
Mains == {[supplies |-> {}, meminfo |-> NoMeminfo],
          [supplies |-> {[name |-> "BAT", status |-> "full"], [name |-> "AC", status |-> "on"]},
           meminfo |-> [total |-> 8, available |-> 4]]}
=============================================================================
