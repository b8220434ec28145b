---- MODULE MCLoadClient ----
EXTENDS LoadClient
OneEach == [o \in Ordinals |-> 1]
TwoEach == [o \in Ordinals |-> 2]
TwoAndOne == [o \in Ordinals |-> IF o = 0 THEN 2 ELSE 1]
AllServers == -1
====
