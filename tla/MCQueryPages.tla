---------------------------- MODULE MCQueryPages ----------------------------
(* An instance of QueryPages for TLC: two tabs of the query page, one of    *)
(* them empty, and a group of the configuration page, whose register the    *)
(* writes change.                                                           *)
EXTENDS QueryPages

AllRegisters == {"r1", "r2", "c1"}
TwoTabs   == [Query |-> << <<"r1", "r2">>, <<>> >>, Config |-> << <<"c1">> >>]
Choices   == [Query |-> << {"r1"}, {} >>, Config |-> << {"c1"} >>]
Contents  == [r1 |-> {"v1"}, r2 |-> {"v2"},  c1 |-> {"v3", "v4"}]
=============================================================================
