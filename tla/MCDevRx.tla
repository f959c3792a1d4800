------------------------------ MODULE MCDevRx ------------------------------
(* Instances of DevRx for TLC. *)
EXTENDS DevRx

Log(n) == [mark |-> "LOG", size |-> n]
Ovfl == [mark |-> "OVFL", size |-> 1]
Rsp(n) == [mark |-> "RSP", size |-> n]
Bad == [mark |-> "BAD", size |-> 1]

(* The header sizes of the code, and small ones, with which a chunk of 3   *)
(* bytes holds a whole response, and two of them two log messages, cut     *)
(* anywhere.                                                               *)
RealHdrSize == [s \in Streams |-> IF s = "dbgl" THEN 2 ELSE 6]
SmallHdrSize == [s \in Streams |-> 2]

Per(d, c) == [s \in Streams |-> IF s = "dbgl" THEN d ELSE c]

OneEach == Per(1, 1)
TwoLogs == Per(2, 0)
TwoResponses == Per(0, 2)
TwoLogsOneResponse == Per(2, 1)
OneLogTwoResponses == Per(1, 2)

GoodMessages == Per({Log(3), Log(4), Ovfl}, {Rsp(1), Rsp(2)})
FewMessages == Per({Log(3), Ovfl}, {Rsp(1)})
DbglOnly == Per({Log(3), Log(4), Ovfl}, {})
EmptyResponses == Per({}, {Rsp(0), Rsp(1)})
AnyGarbage == Per({Log(0), Log(2), Log(3), Ovfl, Bad}, {Rsp(0), Rsp(2), Rsp(3), Bad})
SomeGarbage == Per({Log(3)}, {Rsp(2), Bad})
NoGarbage == Per({}, {})
=============================================================================
