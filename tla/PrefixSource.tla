---------------------------- MODULE PrefixSource ----------------------------
(***************************************************************************)
(* The two forms in which MaxMind publishes one database, and what gotun   *)
(* extracts from them for a country: the CSV files, whose blocks name      *)
(* locations, and the MMDB file, whose networks carry country codes.       *)
(*                                                                         *)
(* A database is a set of rows, each a network with the place it is used   *)
(* at and the place it is registered for, and the country of each place.   *)
(* A place may be a continent, which has no country.                       *)
(***************************************************************************)
EXTENDS Prefixes

CONSTANTS Places,       \* the geoname_ids
          Want,         \* the country asked for, in upper case
          IPv6,         \* a network that is not IPv4
          Malformed     \* a network that cannot be parsed

NoPlace == "no place"
NoCountry == ""

ASSUME NetworksAssumption ==
  /\ {IPv6, Malformed} \cap Prefix = {} /\ IPv6 # Malformed
  /\ NoPlace \notin Places

Networks == Blocks \cup {IPv6, Malformed}
Row == [net: Networks, geo: Places \cup {NoPlace}, reg: Places \cup {NoPlace}]

-----------------------------------------------------------------------------
(* The CSV files.                                                          *)
loadCountryGeonames(db) == { id \in Places : db.iso[id] = Want }

(* A block that is used nowhere in particular counts for the country it is *)
(* registered for.                                                         *)
UsedIn(row) == row.geo

Gid(row) == IF row.geo # NoPlace THEN row.geo ELSE row.reg

Matching(db) == { row \in db.rows : Gid(row) \in loadCountryGeonames(db) }

CSVReadable(db) == \A row \in Matching(db) : row.net # Malformed

(* Blocks may be IPv6 ones; these are left out.                            *)
WithIPv6(rows) == { row.net : row \in rows }

OnlyIPv4(rows) == { row.net : row \in rows } \cap Blocks

loadBlocksForGeonames(db) == OnlyIPv4(Matching(db))

(* The MMDB file.  It has no malformed networks.                           *)
CountryOf(db, place) == IF place = NoPlace THEN NoCountry ELSE db.iso[place]

ISOCode(db, row) ==
  IF CountryOf(db, row.geo) # NoCountry THEN CountryOf(db, row.geo) ELSE CountryOf(db, row.reg)

ipNetToPrefix(rows) == { row.net : row \in rows } \cap Blocks

ExtractCountryFromMMDB(db) ==
  ipNetToPrefix({ row \in db.rows : ISOCode(db, row) = Want /\ row.net # Malformed })

-----------------------------------------------------------------------------
(* The addresses of the country: those of the blocks used in it, and of    *)
(* the blocks that are registered for it and used nowhere in particular.   *)
Truth(db) ==
  LET InCountry(row) == \/ row.geo \in Places /\ db.iso[row.geo] = Want
                        \/ row.geo = NoPlace /\ row.reg \in Places /\ db.iso[row.reg] = Want
  IN Coverage({ row.net : row \in { r \in db.rows : InCountry(r) } } \cap Blocks)

(* No block is used on a continent: there the two forms part ways, as the  *)
(* MMDB has no country to name and its reader turns to the registration.   *)
Located(db) == \A row \in db.rows : row.geo \in Places => db.iso[row.geo] # NoCountry
=============================================================================
