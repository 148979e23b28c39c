---------------------------- MODULE MCPrefixList ----------------------------
(***************************************************************************)
(* Addresses of three bits with lengths in base 2, so that a length of 2   *)
(* or 3 has two digits as 10 to 32 have; a country, another one and a      *)
(* continent; four releases.                                              *)
(***************************************************************************)
EXTENDS PrefixList

Block(addr, bits) == [addr |-> addr, bits |-> bits]
Entry(net, geo, reg) == [net |-> net, geo |-> geo, reg |-> reg]

MCIso == [id \in Places |-> CASE id = "moscow" -> "RU" [] id = "paris" -> "FR" [] OTHER -> ""]

Release == { Entry(Block(<< 0, 0, 0 >>, 3), "moscow", "paris"),
           Entry(Block(<< 0, 0, 1 >>, 3), NoPlace, "moscow"),
           Entry(Block(<< 1, 0, 0 >>, 2), "moscow", "moscow"),
           Entry(Block(<< 1, 1, 0 >>, 2), "paris", "moscow"),
           Entry(IPv6, "moscow", "moscow") }

(* A release, one with more blocks, one with blocks used on a continent,   *)
(* and one that cannot be read.                                            *)
MCDatabases ==
  { [iso |-> MCIso, rows |-> rows] :
      rows \in { Release,
                 Release \cup { Entry(Block(<< 0, 1, 1 >>, 3), NoPlace, "moscow") },
                 Release \cup { Entry(Block(<< 0, 1, 0 >>, 2), "europe", "moscow") },
                 Release \cup { Entry(Malformed, "moscow", NoPlace) } } }
=============================================================================
