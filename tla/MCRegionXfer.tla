---------------------------- MODULE MCRegionXfer ----------------------------
(* Instances of RegionXfer for TLC: two regions, of 8 and of 10 half-words. *)
EXTENDS RegionXfer, Crc16

(* The checksum goes over the bytes of the target's memory, high ones      *)
(* first.                                                                  *)
BytesOf(d) == [i \in 1 .. 2 * Len(d) |->
  IF i % 2 = 1 THEN d[(i + 1) \div 2] \div 256 ELSE d[i \div 2] % 256]
RegionCrc(d) == crc16(BytesOf(d))

NotAuto(a, bs) == [addr |-> a, bad |-> FALSE, auto |-> FALSE, blocks |-> bs]
Auto(a) == [addr |-> a, bad |-> FALSE, auto |-> TRUE, blocks |-> <<>>]
NoAddress == [addr |-> 0, bad |-> TRUE, auto |-> FALSE, blocks |-> <<>>]

Set(a, n, v) == [addr |-> a, size |-> n, inc |-> FALSE, val |-> v,
                 bad |-> FALSE, empty |-> FALSE]
Inc(a, v) == [Set(a, 2, v) EXCEPT !.inc = TRUE]
NoBlock == [Set(0, 2, 0) EXCEPT !.bad = TRUE]
NoData(a) == [Set(a, 2, 0) EXCEPT !.empty = TRUE]

TwoRegions ==
  <<NotAuto(0, <<Set(4, 2, 9), Inc(6, 7), Inc(4, 1)>>), NotAuto(8, <<Inc(14, 15)>>)>>
OtherRegion == <<NotAuto(8, <<Set(14, 2, 6)>>)>>
MalformedBlock == <<NotAuto(0, <<Set(4, 2, 3), NoBlock>>)>>
EmptyBlock == <<NotAuto(0, <<Inc(4, 1), NoData(6)>>)>>
NoBlocks == <<Auto(0)>>

AllFiles == {TwoRegions, OtherRegion, MalformedBlock, EmptyBlock, NoBlocks, <<NoAddress>>}
HalfBlock == {<<NotAuto(0, <<Set(4, 1, 9)>>)>>}

(* Region 0 has length 0, region 8 length 4; both have valid checksums. *)
Contents0 == <<0, 0, 0, 1, 2, 3, 3>>
Contents8 == <<1, 0, 4, 1, 2, 0, 1, 3, 2>>
ValidRegion(c) == <<RegionCrc(c)>> \o c
BothRegions == ValidRegion(Contents0) \o ValidRegion([Contents8 EXCEPT ![3] = 4 % Base, ![2] = 4 \div Base])
TargetMemory == {[a \in 0 .. 17 |-> BothRegions[a + 1]]}
=============================================================================
