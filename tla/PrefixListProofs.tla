-------------------------- MODULE PrefixListProofs --------------------------
(***************************************************************************)
(* The prefix list, for every width, every set of releases and every       *)
(* country: what the commands leave in the files, whatever fails and       *)
(* whenever they are killed.                                               *)
(***************************************************************************)
EXTENDS PrefixList, PrefixProofs, FiniteSetTheorems, SequenceTheorems

-----------------------------------------------------------------------------
(* There are finitely many prefixes.                                       *)

(* There are finitely many addresses, ...                                  *)
LEMMA AddrFinite == IsFiniteSet(Addr)
<1> DEFINE Ones == SUBSET (1 .. W)
           f == [S \in Ones |-> [k \in 1 .. W |-> IF k \in S THEN 1 ELSE 0]]
<1>1. IsFiniteSet(Ones)
  <2>1. 1 \in Int /\ W \in Int
    BY WidthAssumption
  <2>2. IsFiniteSet(1 .. W)
    BY <2>1, FS_Interval
  <2> QED BY <2>2, FS_SUBSET
<1>2. f \in [Ones -> Addr]
  BY DEF Addr
<1>3. ASSUME NEW a \in Addr
      PROVE  \E S \in Ones : f[S] = a
  <2> DEFINE S == { k \in 1 .. W : a[k] = 1 }
  <2>1. S \in Ones
    OBVIOUS
  <2>2. f[S] = [k \in 1 .. W |-> IF k \in S THEN 1 ELSE 0]
    BY <2>1
  <2>3. \A k \in 1 .. W : a[k] = IF k \in S THEN 1 ELSE 0
    BY DEF Addr
  <2>4. f[S] \in Addr /\ \A k \in 1 .. W : f[S][k] = a[k]
    BY <2>2, <2>3, <2>1, <1>2
  <2>5. f[S] = a
    BY <2>4, AddrEqual
  <2> QED BY <2>1, <2>5
<1> HIDE DEF f, Ones
<1>4. f \in Surjection(Ones, Addr)
  BY <1>2, <1>3 DEF Surjection
<1> QED BY <1>1, <1>4, FS_Surjection

(* ... and finitely many prefixes, so every set of them can be ranked.     *)
LEMMA PrefixFinite == IsFiniteSet(Prefix)
<1> DEFINE D == Addr \X (0 .. W)
           f == [x \in D |-> [addr |-> x[1], bits |-> x[2]]]
<1>1. IsFiniteSet(D)
  <2>1. 0 \in Int /\ W \in Int
    BY WidthAssumption
  <2>2. IsFiniteSet(0 .. W)
    BY <2>1, FS_Interval
  <2> QED BY <2>2, AddrFinite, FS_Product
<1>2. f \in [D -> Prefix]
  BY DEF Prefix
<1>3. ASSUME NEW p \in Prefix
      PROVE  \E x \in D : f[x] = p
  <2>1. p.addr \in Addr /\ p.bits \in 0 .. W /\ p = [addr |-> p.addr, bits |-> p.bits]
    BY DEF Prefix
  <2>2. << p.addr, p.bits >> \in D
    BY <2>1
  <2>3. f[<< p.addr, p.bits >>] = p
    BY <2>1, <2>2
  <2> QED BY <2>2, <2>3
<1> HIDE DEF f, D
<1>4. f \in Surjection(D, Prefix)
  BY <1>2, <1>3 DEF Surjection
<1> QED BY <1>1, <1>4, FS_Surjection

-----------------------------------------------------------------------------
(* Sorting.  The rank of a prefix is the number of smaller ones; ranks are *)
(* different, so each of them is taken.                                    *)
Below(S, p) == { q \in S : Less(q, p) }
Rank(S, p) == Cardinality(Below(S, p))

(* The rank of a prefix in a set is the number of prefixes before it.      *)
LEMMA RankType ==
  ASSUME NEW S \in SUBSET Prefix, NEW p \in S
  PROVE  Rank(S, p) \in 0 .. Cardinality(S) - 1 /\ Cardinality(S) \in Nat
<1>1. IsFiniteSet(S)
  BY PrefixFinite, FS_Subset
<1>2. Below(S, p) \in SUBSET S /\ p \notin Below(S, p)
  BY LessIrreflexive DEF Below
<1>3. /\ IsFiniteSet(Below(S, p))
      /\ Cardinality(Below(S, p)) <= Cardinality(S)
      /\ Cardinality(S) # Cardinality(Below(S, p))
  BY <1>1, <1>2, FS_Subset
<1>4. Cardinality(Below(S, p)) \in Nat /\ Cardinality(S) \in Nat
  BY <1>1, <1>3, FS_CardinalityType
<1> QED BY <1>3, <1>4 DEF Rank

(* A prefix that comes later has the higher rank, ...                      *)
LEMMA RankGrows ==
  ASSUME NEW S \in SUBSET Prefix, NEW p \in S, NEW q \in S, Less(p, q)
  PROVE  Rank(S, p) < Rank(S, q)
<1>1. IsFiniteSet(S)
  BY PrefixFinite, FS_Subset
<1>2. Below(S, p) \in SUBSET Below(S, q)
  BY LessTransitive DEF Below
<1>3. p \in Below(S, q) /\ p \notin Below(S, p)
  BY LessIrreflexive DEF Below
<1>4. Below(S, q) \in SUBSET S
  BY DEF Below
<1>5. IsFiniteSet(Below(S, q))
  BY <1>1, <1>4, FS_Subset
<1>6. /\ IsFiniteSet(Below(S, p))
      /\ Cardinality(Below(S, p)) <= Cardinality(Below(S, q))
      /\ Cardinality(Below(S, q)) # Cardinality(Below(S, p))
  BY <1>5, <1>2, <1>3, FS_Subset
<1>7. Cardinality(Below(S, p)) \in Nat /\ Cardinality(Below(S, q)) \in Nat
  BY <1>5, <1>6, FS_CardinalityType
<1> QED BY <1>6, <1>7 DEF Rank

(* ... so no two have the same, ...                                        *)
LEMMA RankDifferent ==
  ASSUME NEW S \in SUBSET Prefix, NEW p \in S, NEW q \in S, Rank(S, p) = Rank(S, q)
  PROVE  p = q
<1>1. Rank(S, p) \in Nat /\ Rank(S, q) \in Nat
  BY RankType
<1>2. ~Less(p, q) /\ ~Less(q, p)
  BY <1>1, RankGrows
<1> QED BY <1>2, LessTotal

(* ... and every rank is taken.                                            *)
LEMMA RankTaken ==
  ASSUME NEW S \in SUBSET Prefix, NEW k \in 1 .. Cardinality(S)
  PROVE  \E p \in S : Rank(S, p) = k - 1
<1> DEFINE T == 0 .. Cardinality(S) - 1
           r == [p \in S |-> Rank(S, p)]
<1>1. IsFiniteSet(S)
  BY PrefixFinite, FS_Subset
<1>2. Cardinality(S) \in Nat
  BY <1>1, FS_CardinalityType
<1>3. IsFiniteSet(T) /\ Cardinality(T) = Cardinality(S)
  <2>1. 0 \in Int /\ Cardinality(S) - 1 \in Int
    BY <1>2
  <2>2. /\ IsFiniteSet(T)
        /\ Cardinality(T) = IF 0 > Cardinality(S) - 1 THEN 0 ELSE Cardinality(S) - 1 - 0 + 1
    BY <2>1, FS_Interval
  <2> QED BY <2>2, <1>2
<1>4. r \in [S -> T]
  BY RankType
<1>5. \A p, q \in S : r[p] = r[q] => p = q
  BY RankDifferent
<1>6. k - 1 \in T
  BY <1>2
<1>7. \A p \in S : r[p] = Rank(S, p)
  OBVIOUS
<1> HIDE DEF T, r
<1>8. r \in Injection(S, T)
  BY <1>4, <1>5 DEF Injection, IsInjective
<1>9. r \in Surjection(S, T)
  BY <1>3, <1>8, FS_Injection
<1>10. \E p \in S : r[p] = k - 1
  BY <1>9, <1>6 DEF Surjection
<1> QED BY <1>10, <1>7

(* The sorted list has the prefixes of the set, and no others.             *)
LEMMA SortedElements ==
  ASSUME NEW S \in SUBSET Prefix
  PROVE  Sorted(S) \in Seq(S) /\ Elements(Sorted(S), 1, Len(Sorted(S))) = S
<1> DEFINE n == Cardinality(S)
<1>1. n \in Nat
  BY PrefixFinite, FS_Subset, FS_CardinalityType
<1>2. Sorted(S) = [k \in 1 .. n |-> CHOOSE p \in S : Rank(S, p) = k - 1]
  BY DEF Sorted, Rank, Below
<1> HIDE DEF n
<1>3. \A k \in 1 .. n : Sorted(S)[k] \in S /\ Rank(S, Sorted(S)[k]) = k - 1
  BY <1>2, RankTaken DEF n
<1>4. Sorted(S) \in [1 .. n -> S]
  BY <1>2, <1>3
<1>5. Sorted(S) \in Seq(S) /\ Len(Sorted(S)) = n
  BY <1>1, <1>4
<1>6. ASSUME NEW p \in S
      PROVE  \E k \in 1 .. n : Sorted(S)[k] = p
  <2>1. Rank(S, p) \in 0 .. n - 1
    BY RankType DEF n
  <2>2. Rank(S, p) + 1 \in 1 .. n /\ Rank(S, p) + 1 - 1 = Rank(S, p)
    BY <2>1, <1>1
  <2>3. Sorted(S)[Rank(S, p) + 1] = p
    <3> DEFINE k == Rank(S, p) + 1
    <3>0. k \in 1 .. n /\ k - 1 = Rank(S, p)
      BY <1>1, <2>1, <2>2
    <3> HIDE DEF k
    <3>1. Sorted(S)[k] \in S /\ Rank(S, Sorted(S)[k]) = Rank(S, p)
      BY <3>0, <1>3
    <3>2. Sorted(S)[k] = p
      BY <3>1, RankDifferent
    <3> QED BY <3>2 DEF k
  <2> QED BY <2>2, <2>3
<1> QED BY <1>3, <1>5, <1>6 DEF Elements

-----------------------------------------------------------------------------
(* What the operators of the list yield.                                   *)

(* A masked prefix is a prefix.                                            *)
LEMMA BlocksArePrefixes == Blocks \subseteq Prefix
BY BlockFacts

(* Collapsing gives blocks that cover what was given.                      *)
LEMMA CollapsedList ==
  ASSUME NEW S \in SUBSET Prefix
  PROVE  /\ CollapseIPv4(S) \in Seq(Blocks)
         /\ Elements(CollapseIPv4(S), 1, Len(CollapseIPv4(S))) = Best(S)
         /\ Coverage(Elements(CollapseIPv4(S), 1, Len(CollapseIPv4(S)))) = Coverage(S)
<1>1. Best(S) \subseteq Blocks
  BY DEF Best, CoveredBlocks
<1>2. S \cap Prefix = S
  OBVIOUS
<1>3. Best(S) \in SUBSET Prefix
  BY <1>1, BlocksArePrefixes
<1>4. CollapseIPv4(S) = Sorted(Best(S))
  BY <1>2 DEF CollapseIPv4
<1>5. /\ Sorted(Best(S)) \in Seq(Best(S))
      /\ Elements(Sorted(Best(S)), 1, Len(Sorted(Best(S)))) = Best(S)
  BY <1>3, SortedElements
<1>6. Sorted(Best(S)) \in Seq(Blocks)
  BY <1>1, <1>5
<1> QED BY <1>4, <1>5, <1>6, BestCovers

(* The country asked for has a name: fetch and amnezia do not look at an   *)
(* empty -country, which both forms of a database take for any row that    *)
(* names no country.                                                       *)
WantNamed == Want # NoCountry

(* The CSV files give the country.                                         *)
LEMMA CSVGivesCountry ==
  ASSUME NEW d \in Databases
  PROVE  /\ loadBlocksForGeonames(d) \in SUBSET Blocks
         /\ Coverage(loadBlocksForGeonames(d)) = Truth(d)
<1>1. d.rows \subseteq Row
  BY ListAssumption
<1>2. \A r \in d.rows : r.geo \in Places \cup {NoPlace} /\ r.reg \in Places \cup {NoPlace}
  BY <1>1 DEF Row
<1>3. NoPlace \notin Places
  BY NetworksAssumption
<1>4. Matching(d) = { r \in d.rows : \/ r.geo \in Places /\ d.iso[r.geo] = Want
                                     \/ /\ r.geo = NoPlace /\ r.reg \in Places
                                        /\ d.iso[r.reg] = Want }
  BY <1>2, <1>3 DEF Matching, Gid, loadCountryGeonames
<1> QED BY <1>4 DEF Truth, loadBlocksForGeonames, OnlyIPv4

(* So does the MMDB, unless blocks are used on a continent.                *)
LEMMA MMDBGivesCountry ==
  ASSUME NEW d \in Databases
  PROVE  /\ ExtractCountryFromMMDB(d) \in SUBSET Blocks
         /\ WantNamed /\ Located(d) => Coverage(ExtractCountryFromMMDB(d)) = Truth(d)
<1>1. d.rows \subseteq Row
  BY ListAssumption
<1>2. \A r \in d.rows : r.geo \in Places \cup {NoPlace} /\ r.reg \in Places \cup {NoPlace}
  BY <1>1 DEF Row
<1>3. NoPlace \notin Places /\ Malformed \notin Blocks
  BY NetworksAssumption, BlocksArePrefixes
<1>4. ASSUME WantNamed, Located(d)
      PROVE  Coverage(ExtractCountryFromMMDB(d)) = Truth(d)
  <2> DEFINE In(r) == \/ r.geo \in Places /\ d.iso[r.geo] = Want
                      \/ r.geo = NoPlace /\ r.reg \in Places /\ d.iso[r.reg] = Want
  <2>1. \A r \in d.rows : ISOCode(d, r) = Want <=> In(r)
    BY <1>2, <1>3, <1>4 DEF ISOCode, CountryOf, Located, WantNamed
  <2>2. { r.net : r \in { x \in d.rows : ISOCode(d, x) = Want /\ x.net # Malformed } } \cap Blocks
        = { r.net : r \in { x \in d.rows : In(x) } } \cap Blocks
    BY <2>1, <1>3
  <2> QED BY <2>2 DEF ExtractCountryFromMMDB, ipNetToPrefix, Truth
<1> QED BY <1>4 DEF ExtractCountryFromMMDB, ipNetToPrefix

-----------------------------------------------------------------------------
(* The inductive invariant.                                                *)

Loading == {"load", "fallback", "unzip", "untar", "find", "parse"}

(* A command that runs has no result yet, and does not panic; which file   *)
(* is written depends on the command.                                      *)
RunInv ==
  /\ cmd.st \notin {"idle", "panic"} => cmd.res = "none"
  /\ ~At("panic")
  /\ cmd.prefs \subseteq Blocks /\ cmd.k > 0
  /\ cmd.st \in {"create", "write"} => cmd.kind = "fetch"
  /\ At("sites") => cmd.kind = "amnezia"

(* The list is as it was until all of the new one is at hand.              *)
UntouchedInv == (cmd.st \in Loading \/ cmd.res = "not loaded") => file = before

(* What has been loaded, and what it was collapsed to, is the country.     *)
LoadedInv ==
  /\ (At("collapse") /\ Located(archive)) => Coverage(cmd.prefs) = Truth(archive)
  /\ cmd.st \in {"create", "write", "sites"} =>
       /\ cmd.list \in Seq(Blocks)
       /\ Located(archive) => Coverage(Elements(cmd.list, 1, Len(cmd.list))) = Truth(archive)

(* While the list is written it is the beginning of the new one.           *)
WriteInv ==
  /\ cmd.st \notin {"idle", "write"} => cmd.k = 1
  /\ At("write") =>
       /\ release = archive /\ ~cut
       /\ file \in Seq(Line) /\ cmd.k = Len(file) + 1 /\ Len(file) <= Len(cmd.list)
       /\ \A j \in 1 .. Len(file) : file[j] = cmd.list[j]

(* Each line of the list that is not cut is of the country.                *)
LinesInv ==
  (file # Absent /\ ~cut /\ Located(release)) =>
    \A j \in 1 .. Len(file) : file[j] \in Prefix => Coverage({file[j]}) \subseteq Truth(release)

FileOpen == At("write") => file \in Seq(Line)

TypeInv == ListTypeOK /\ RunInv /\ UntouchedInv /\ FileOpen

(* What a command that ends or goes on keeps.                              *)
LEMMA EndFacts ==
  ASSUME cmd \in Command, NEW r \in {"ok", "not loaded", "not written", "killed"}, End(r)
  PROVE  /\ cmd' \in Command
         /\ cmd'.st = "idle" /\ cmd'.res = r /\ cmd'.k = cmd.k
         /\ cmd'.kind = cmd.kind /\ cmd'.prefs = cmd.prefs /\ cmd'.list = cmd.list
BY DEF Command, End

(* What a step from one point of a command to the next changes.            *)
LEMMA GotoFacts ==
  ASSUME cmd \in Command,
         NEW s \in Loading \cup {"create", "write", "sites", "panic"}, Goto(s)
  PROVE  /\ cmd' \in Command
         /\ cmd'.st = s /\ cmd'.res = cmd.res /\ cmd'.k = cmd.k
         /\ cmd'.kind = cmd.kind /\ cmd'.prefs = cmd.prefs /\ cmd'.list = cmd.list
BY DEF Command, Goto, Loading

(* What a command has when the country is loaded.                          *)
LEMMA LoadedFacts ==
  ASSUME cmd \in Command, NEW P \in SUBSET Blocks, Loaded(P)
  PROVE  /\ cmd' \in Command
         /\ cmd'.st = "collapse" /\ cmd'.res = cmd.res /\ cmd'.k = cmd.k
         /\ cmd'.kind = cmd.kind /\ cmd'.prefs = P /\ cmd'.list = cmd.list
BY DEF Command, Loaded, Networks

(* How a command begins: with its flags refused, or about to load.         *)
LEMMA StartFacts ==
  ASSUME Start
  PROVE  /\ cmd' \in Command
         /\ cmd'.prefs = {} /\ cmd'.list = << >> /\ cmd'.k = 1
         /\ \/ cmd'.st = "idle" /\ cmd'.res = "not loaded"
            \/ cmd'.st = "load" /\ cmd'.res = "none"
<1>1. PICK kind \in {"fetch", "amnezia"}, src \in {"mmdb", "csv"},
           f \in {"official", "ios", "", "unknown"} :
        /\ kind = "fetch" => f = "official"
        /\ cmd' = [NoCommand EXCEPT !.kind = kind, !.src = src,
                                    !.st = IF ParseFormat(f) = {} THEN "idle" ELSE "load",
                                    !.res = IF ParseFormat(f) = {} THEN "not loaded" ELSE "none",
                                    !.format = IF ParseFormat(f) = {} THEN "official"
                                               ELSE CHOOSE g \in ParseFormat(f) : TRUE]
  BY Zenon DEF Start
<1> DEFINE c == ParseFormat(f) = {}
           fm == IF c THEN "official" ELSE CHOOSE g \in ParseFormat(f) : TRUE
<1>2. fm \in {"official", "ios"}
  <2>1. ParseFormat(f) \subseteq {"official", "ios"}
    BY DEF ParseFormat
  <2> QED BY <2>1
<1>3. cmd' = [NoCommand EXCEPT !.kind = kind, !.src = src, !.st = IF c THEN "idle" ELSE "load",
                               !.res = IF c THEN "not loaded" ELSE "none", !.format = fm]
  BY <1>1
<1>4. << >> \in Seq(Prefix) /\ {} \in SUBSET Networks
  BY EmptySeq
<1> HIDE DEF c, fm
<1>5. CASE c
  BY <1>2, <1>3, <1>4, <1>5 DEF Command, NoCommand
<1>6. CASE ~c
  BY <1>2, <1>3, <1>4, <1>6 DEF Command, NoCommand
<1> QED BY <1>5, <1>6

(* What a command has when its prefixes are collapsed.                     *)
LEMMA CollapseFacts ==
  ASSUME cmd \in Command, cmd.prefs \subseteq Blocks, Collapse
  PROVE  /\ cmd' \in Command
         /\ cmd'.st = (IF cmd.kind = "fetch" THEN "create" ELSE "sites")
         /\ cmd'.list = CollapseIPv4(cmd.prefs) /\ cmd'.list \in Seq(Blocks)
         /\ cmd'.res = cmd.res /\ cmd'.kind = cmd.kind /\ cmd'.prefs = {} /\ cmd'.k = cmd.k
<1>1. cmd.prefs \in SUBSET Prefix
  BY BlocksArePrefixes
<1>2. CollapseIPv4(cmd.prefs) \in Seq(Blocks)
  BY <1>1, CollapsedList
<1>3. CollapseIPv4(cmd.prefs) \in Seq(Prefix)
  BY <1>2, BlocksArePrefixes
<1> DEFINE l == CollapseIPv4(cmd.prefs)
<1>4. cmd' = [cmd EXCEPT !.list = l, !.prefs = {},
                         !.st = IF cmd.kind = "fetch" THEN "create" ELSE "sites"]
  BY DEF Collapse
<1>5. l \in Seq(Prefix) /\ l \in Seq(Blocks)
  BY <1>2, <1>3
<1> HIDE DEF l
<1>6. {} \in SUBSET Networks
  OBVIOUS
<1>7. /\ cmd' \in Command
      /\ cmd'.st = (IF cmd.kind = "fetch" THEN "create" ELSE "sites")
      /\ cmd'.list = l
      /\ cmd'.res = cmd.res /\ cmd'.kind = cmd.kind /\ cmd'.prefs = {} /\ cmd'.k = cmd.k
  BY <1>4, <1>5, <1>6 DEF Command
<1> QED BY <1>5, <1>7 DEF l

(* A line that is torn still is a line.                                    *)
LEMMA TornType ==
  ASSUME NEW p \in Prefix
  PROVE  Torn(p) \subseteq Line /\ p \in Line
<1>1. p.addr \in Addr /\ p.bits \in 0 .. W
  BY DEF Prefix
<1>2. p.bits \div Base \in 0 .. W
  <2>1. Base \in Nat /\ Base > 1 /\ W \in Nat
    BY ListAssumption, WidthAssumption
  <2>2. p.bits \div Base \in Nat /\ p.bits \div Base <= p.bits
    BY <1>1, <2>1
  <2> QED BY <1>1, <2>1, <2>2
<1>3. [p EXCEPT !.bits = p.bits \div Base] \in Prefix
  BY <1>2 DEF Prefix
<1> QED BY <1>3 DEF Torn, Line

-----------------------------------------------------------------------------
(* The steps in which a country is loaded.                                 *)
LoadStep ==
  \/ LoadMMDB \/ DownloadZip \/ DownloadTarGz
  \/ extractZip \/ extractTarGz \/ findCSVDir \/ ParseMaxMindCountryDir

(* They end, go on to another one, or have the country of a release; they  *)
(* touch no file.                                                          *)
LEMMA LoadSteps ==
  ASSUME LoadStep
  PROVE  /\ cmd.st \in Loading
         /\ UNCHANGED << file, before, release, cut, sites >>
         /\ archive' \in {archive, db}
         /\ \/ End("not loaded")
            \/ \E s \in Loading : Goto(s)
            \/ Loaded(ExtractCountryFromMMDB(db)) /\ archive' = db
            \/ Loaded(loadBlocksForGeonames(archive)) /\ archive' = archive
<1>1. CASE LoadMMDB
  BY <1>1 DEF LoadMMDB, At, Loading
<1>2. CASE DownloadZip
  BY <1>2 DEF DownloadZip, Download, At, Loading
<1>3. CASE DownloadTarGz
  BY <1>3 DEF DownloadTarGz, Download, At, Loading
<1>4. CASE extractZip
  BY <1>4 DEF extractZip, At, Loading
<1>5. CASE extractTarGz
  BY <1>5 DEF extractTarGz, At, Loading
<1>6. CASE findCSVDir
  BY <1>6 DEF findCSVDir, At, Loading
<1>7. CASE ParseMaxMindCountryDir
  BY <1>7 DEF ParseMaxMindCountryDir, At, Loading
<1> QED BY <1>1, <1>2, <1>3, <1>4, <1>5, <1>6, <1>7 DEF LoadStep

(* How a step of loading ends: in an error, in another attempt, or with    *)
(* the prefixes of the country.                                            *)
LEMMA LoadOutcomes ==
  ASSUME ListTypeOK, LoadStep
  PROVE  /\ cmd' \in Command /\ archive' \in Databases /\ cmd'.k = cmd.k
         /\ \/ cmd'.st = "idle" /\ cmd'.res = "not loaded" /\ cmd'.prefs = cmd.prefs
            \/ cmd'.st \in Loading /\ cmd'.res = cmd.res /\ cmd'.prefs = cmd.prefs
            \/ /\ cmd'.st = "collapse" /\ cmd'.res = cmd.res /\ cmd'.prefs \in SUBSET Blocks
               /\ (WantNamed /\ Located(archive')) => Coverage(cmd'.prefs) = Truth(archive')
<1>1. /\ cmd \in Command /\ db \in Databases /\ archive \in Databases
      /\ archive' \in Databases
  BY LoadSteps DEF ListTypeOK
<1>2. CASE End("not loaded")
  BY <1>1, <1>2, EndFacts
<1>3. CASE \E s \in Loading : Goto(s)
  BY <1>1, <1>3, GotoFacts
<1>4. CASE Loaded(ExtractCountryFromMMDB(db)) /\ archive' = db
  <2> DEFINE P == ExtractCountryFromMMDB(db)
  <2>1. P \in SUBSET Blocks /\ (WantNamed /\ Located(db) => Coverage(P) = Truth(db))
    BY <1>1, MMDBGivesCountry
  <2>2. Loaded(P) /\ archive' = db
    BY <1>4
  <2> HIDE DEF P
  <2>3. /\ cmd' \in Command /\ cmd'.st = "collapse" /\ cmd'.res = cmd.res /\ cmd'.prefs = P
        /\ cmd'.k = cmd.k
    BY <1>1, <2>1, <2>2, LoadedFacts
  <2> QED BY <1>1, <2>1, <2>2, <2>3
<1>5. CASE Loaded(loadBlocksForGeonames(archive)) /\ archive' = archive
  <2> DEFINE P == loadBlocksForGeonames(archive)
  <2>1. P \in SUBSET Blocks /\ Coverage(P) = Truth(archive)
    BY <1>1, CSVGivesCountry
  <2>2. Loaded(P) /\ archive' = archive
    BY <1>5
  <2> HIDE DEF P
  <2>3. /\ cmd' \in Command /\ cmd'.st = "collapse" /\ cmd'.res = cmd.res /\ cmd'.prefs = P
        /\ cmd'.k = cmd.k
    BY <1>1, <2>1, <2>2, LoadedFacts
  <2> QED BY <1>1, <2>1, <2>2, <2>3
<1> QED BY <1>2, <1>3, <1>4, <1>5, LoadSteps

(* A line is written, in part or not at all, and the command goes on or    *)
(* ends.                                                                   *)
LEMMA WriteOutcomes ==
  ASSUME cmd \in Command, cmd.k > 0, file \in Seq(Line), cut \in BOOLEAN, WriteLine
  PROVE  /\ cmd.k \in 1 .. Len(cmd.list)
         /\ cmd' \in Command /\ file' \in Seq(Line) /\ cut' \in BOOLEAN
         /\ cmd'.kind = cmd.kind /\ cmd'.prefs = cmd.prefs /\ cmd'.list = cmd.list
         /\ \/ /\ cmd'.st = "write" /\ cmd'.res = cmd.res /\ cmd'.k = cmd.k + 1
               /\ file' = Append(file, cmd.list[cmd.k]) /\ cut' = cut
            \/ /\ cmd'.st = "idle" /\ cmd'.res = "not written" /\ cmd'.k = cmd.k
               /\ \/ UNCHANGED << file, cut >>
                  \/ \E l \in Torn(cmd.list[cmd.k]) :
                       file' = Append(file, l) /\ cut' = (l \notin {Garbled, cmd.list[cmd.k]})
<1> DEFINE p == cmd.list[cmd.k]
<1>1. cmd.list \in Seq(Prefix) /\ cmd.k \in Nat
  BY DEF Command
<1>2. Len(cmd.list) \in Nat /\ cmd.k <= Len(cmd.list)
  BY <1>1, LenProperties DEF WriteLine
<1>3. cmd.k \in 1 .. Len(cmd.list)
  BY <1>1, <1>2
<1>4. p \in Prefix
  BY <1>1, <1>3
<1>5. \/ /\ file' = Append(file, p) /\ cmd' = [cmd EXCEPT !.k = @ + 1] /\ cut' = cut
      \/ End("not written") /\ UNCHANGED << file, cut >>
      \/ /\ \E l \in Torn(p) : file' = Append(file, l) /\ cut' = (l \notin {Garbled, p})
         /\ End("not written")
  BY DEF WriteLine
<1>6. Torn(p) \subseteq Line /\ p \in Line
  BY <1>4, TornType
<1>7. cmd.st = "write"
  BY DEF WriteLine, At
<1> HIDE DEF p
<1>8. CASE /\ file' = Append(file, p) /\ cmd' = [cmd EXCEPT !.k = @ + 1] /\ cut' = cut
  <2>1. /\ cmd' \in Command /\ cmd'.st = "write" /\ cmd'.res = cmd.res /\ cmd'.k = cmd.k + 1
        /\ cmd'.kind = cmd.kind /\ cmd'.prefs = cmd.prefs /\ cmd'.list = cmd.list
    <3> DEFINE n == cmd.k + 1
    <3>1. n \in Nat /\ cmd' = [cmd EXCEPT !.k = n]
      BY <1>1, <1>8
    <3> HIDE DEF n
    <3>2. /\ cmd' \in Command /\ cmd'.st = "write" /\ cmd'.res = cmd.res /\ cmd'.k = n
          /\ cmd'.kind = cmd.kind /\ cmd'.prefs = cmd.prefs /\ cmd'.list = cmd.list
      BY <1>7, <3>1 DEF Command
    <3> QED BY <3>2 DEF n
  <2>2. file' \in Seq(Line)
    BY <1>6, <1>8
  <2> QED BY <1>3, <1>8, <2>1, <2>2 DEF p
<1>9. CASE End("not written") /\ UNCHANGED << file, cut >>
  BY <1>3, <1>9, EndFacts
<1>10. CASE /\ \E l \in Torn(p) : file' = Append(file, l) /\ cut' = (l \notin {Garbled, p})
            /\ End("not written")
  <2>1. PICK l \in Torn(p) : file' = Append(file, l) /\ cut' = (l \notin {Garbled, p})
    BY <1>10
  <2>2. file' \in Seq(Line)
    BY <1>6, <2>1
  <2>3. cut' \in BOOLEAN
    BY <2>1
  <2> QED BY <1>3, <1>10, <2>1, <2>2, <2>3, EndFacts DEF p
<1> QED BY <1>5, <1>8, <1>9, <1>10

-----------------------------------------------------------------------------
(* Types, and the list that is not touched.                                *)

(* The type invariant holds before the first command.                      *)
LEMMA TypeInit == Init => TypeInv
<1> SUFFICES ASSUME Init
             PROVE  TypeInv
  OBVIOUS
<1>1. cmd \in Command
  BY EmptySeq DEF Init, Command, NoCommand
<1>2. cmd.st = "idle" /\ cmd.res = "none" /\ cmd.prefs = {} /\ cmd.k = 1
  BY DEF Init, NoCommand
<1>3. ListTypeOK
  BY <1>1 DEF Init, ListTypeOK
<1>4. RunInv
  BY <1>2 DEF RunInv, At
<1>5. UntouchedInv /\ FileOpen
  BY <1>2 DEF UntouchedInv, FileOpen, At, Loading
<1> QED BY <1>3, <1>4, <1>5 DEF TypeInv

(* It is inductive.                                                        *)
LEMMA TypeStep == TypeInv /\ [Next]_vars => TypeInv'
<1> SUFFICES ASSUME TypeInv, [Next]_vars
             PROVE  TypeInv'
  OBVIOUS
<1>1. /\ ListTypeOK /\ cmd \in Command /\ RunInv /\ UntouchedInv /\ FileOpen
  BY DEF TypeInv, ListTypeOK
<1>2. ASSUME cmd' \in Command, archive' \in Databases, db' \in Databases,
             release' \in Databases, cut' \in BOOLEAN,
             file' = Absent \/ file' \in Seq(Line),
             before' \in {before, file, Absent},
             sites' = Absent \/ sites' \in Seq(Line)
      PROVE  ListTypeOK'
  BY <1>1, <1>2 DEF ListTypeOK
<1>3. CASE Start /\ UNCHANGED db
  <2>1. UNCHANGED << archive, file, release, cut, sites >> /\ before' = file
    BY <1>3 DEF Start
  <2>2. ListTypeOK'
    BY <1>1, <1>2, <1>3, <2>1, StartFacts DEF ListTypeOK
  <2>3. RunInv'
    <3>1. /\ cmd'.prefs = {} /\ cmd'.k = 1
          /\ \/ cmd'.st = "idle" /\ cmd'.res = "not loaded"
             \/ cmd'.st = "load" /\ cmd'.res = "none"
      BY <1>3, StartFacts
    <3> DEFINE n == cmd'.k
    <3>2. n = 1 /\ cmd'.prefs \subseteq Blocks
      BY <3>1
    <3> HIDE DEF n
    <3>3. n > 0
      BY <3>2
    <3>4. cmd'.k > 0
      BY <3>3 DEF n
    <3> QED BY <3>1, <3>2, <3>4 DEF RunInv, At
  <2>4. UntouchedInv' /\ FileOpen'
    BY <1>3, <2>1, StartFacts DEF UntouchedInv, FileOpen, At
  <2> QED BY <2>2, <2>3, <2>4 DEF TypeInv
<1>4. CASE LoadStep /\ UNCHANGED db
  <2>1. UNCHANGED << file, before, release, cut, sites >> /\ cmd.st \in Loading
    BY <1>4, LoadSteps
  <2>2. ListTypeOK'
    BY <1>1, <1>2, <1>4, <2>1, LoadOutcomes DEF ListTypeOK
  <2>3. RunInv'
    BY <1>1, <1>4, <2>1, LoadOutcomes DEF RunInv, At, Loading
  <2>4. UntouchedInv'
    BY <1>1, <2>1 DEF UntouchedInv
  <2>5. FileOpen'
    BY <1>1, <1>4, LoadOutcomes DEF FileOpen, At, Loading
  <2> QED BY <2>2, <2>3, <2>4, <2>5 DEF TypeInv
<1>5. CASE Collapse /\ UNCHANGED db
  <2>1. UNCHANGED << archive, file, before, release, cut, sites >> /\ cmd.st = "collapse"
    BY <1>5 DEF Collapse, At
  <2>2. ListTypeOK'
    BY <1>1, <1>2, <1>5, <2>1, CollapseFacts DEF ListTypeOK, RunInv
  <2>3. RunInv'
    BY <1>1, <1>5, <2>1, CollapseFacts DEF RunInv, At, Command
  <2>4. UntouchedInv' /\ FileOpen'
    BY <1>1, <1>5, <2>1, CollapseFacts DEF UntouchedInv, FileOpen, At, RunInv, Loading
  <2> QED BY <2>2, <2>3, <2>4 DEF TypeInv
<1>6. CASE Create /\ UNCHANGED db
  <2>1. UNCHANGED << archive, sites >> /\ cmd.st = "create"
    BY <1>6 DEF Create, At
  <2>2. CASE /\ file' = << >> /\ release' = archive /\ cut' = FALSE
             /\ before' = Absent /\ Goto("write")
    <3>1. file' \in Seq(Line)
      BY <2>2, EmptySeq
    <3>2. /\ cmd' \in Command
          /\ cmd'.st = "write" /\ cmd'.res = cmd.res /\ cmd'.k = cmd.k
          /\ cmd'.kind = cmd.kind /\ cmd'.prefs = cmd.prefs /\ cmd'.list = cmd.list
      BY <1>1, <2>2, GotoFacts
    <3>3. ListTypeOK'
      BY <1>1, <1>2, <1>6, <2>1, <2>2, <3>1, <3>2 DEF ListTypeOK
    <3>4. RunInv' /\ UntouchedInv' /\ FileOpen'
      BY <1>1, <2>1, <3>1, <3>2 DEF RunInv, UntouchedInv, FileOpen, At, Loading
    <3> QED BY <3>3, <3>4 DEF TypeInv
  <2>3. CASE End("not written") /\ UNCHANGED << file, before, release, cut >>
    <3>1. ListTypeOK'
      BY <1>1, <1>2, <1>6, <2>1, <2>3, EndFacts DEF ListTypeOK
    <3>2. RunInv' /\ UntouchedInv' /\ FileOpen'
      BY <1>1, <2>1, <2>3, EndFacts DEF RunInv, UntouchedInv, FileOpen, At, Loading
    <3> QED BY <3>1, <3>2 DEF TypeInv
  <2> QED BY <1>6, <2>2, <2>3 DEF Create
<1>7. CASE WriteLine /\ UNCHANGED db
  <2>1. UNCHANGED << archive, before, release, sites >> /\ cmd.st = "write"
    BY <1>7 DEF WriteLine, At
  <2>2. cmd.k > 0 /\ file \in Seq(Line) /\ cut \in BOOLEAN /\ cmd.k \in Nat
    BY <1>1, <2>1 DEF RunInv, FileOpen, At, ListTypeOK, Command
  <2>3. /\ cmd' \in Command /\ file' \in Seq(Line) /\ cut' \in BOOLEAN
        /\ cmd'.kind = cmd.kind /\ cmd'.prefs = cmd.prefs
        /\ \/ cmd'.st = "write" /\ cmd'.res = cmd.res /\ cmd'.k = cmd.k + 1
           \/ cmd'.st = "idle" /\ cmd'.res = "not written" /\ cmd'.k = cmd.k
    BY <1>1, <1>7, <2>2, WriteOutcomes
  <2>4. ListTypeOK'
    BY <1>1, <1>2, <1>7, <2>1, <2>3 DEF ListTypeOK
  <2>5. RunInv' /\ UntouchedInv' /\ FileOpen'
    <3> DEFINE n == cmd'.k
    <3>0. n = cmd.k \/ n = cmd.k + 1
      BY <2>3
    <3> HIDE DEF n
    <3>1. n > 0
      BY <2>2, <3>0
    <3>3. cmd'.k > 0
      BY <3>1 DEF n
    <3>2. cmd'.prefs \subseteq Blocks /\ cmd'.kind = "fetch" /\ cmd.res = "none"
      BY <1>1, <2>1, <2>3 DEF RunInv
    <3> QED BY <2>3, <3>2, <3>3 DEF RunInv, UntouchedInv, FileOpen, At, Loading
  <2> QED BY <2>4, <2>5 DEF TypeInv
<1>8. CASE Close /\ UNCHANGED db
  <2>1. /\ UNCHANGED << archive, before, release, cut, sites >> /\ cmd.st = "write"
        /\ End("ok")
        /\ file' = file \/ \E m \in 0 .. Len(file) : file' = SubSeq(file, 1, m)
    BY <1>8 DEF Close, At
  <2>2. file \in Seq(Line)
    BY <1>1, <2>1 DEF FileOpen, At
  <2>3. file' \in Seq(Line)
    <3>1. Len(file) \in Nat
      BY <2>2, LenProperties
    <3>2. ASSUME NEW m \in 0 .. Len(file)
          PROVE  SubSeq(file, 1, m) \in Seq(Line)
      BY <2>2, <3>1, SubSeqProperties
    <3> QED BY <2>1, <2>2, <3>2
  <2>4. ListTypeOK'
    BY <1>1, <1>2, <1>8, <2>1, <2>3, EndFacts DEF ListTypeOK
  <2>5. RunInv' /\ UntouchedInv' /\ FileOpen'
    BY <1>1, <2>1, EndFacts DEF RunInv, UntouchedInv, FileOpen, At, Loading
  <2> QED BY <2>4, <2>5 DEF TypeInv
<1>9. CASE WriteSites /\ UNCHANGED db
  <2>1. /\ UNCHANGED << archive, file, before, release, cut >> /\ cmd.st = "sites"
        /\ \/ sites' = cmd.list /\ End("ok")
           \/ sites' \in {sites, << Garbled >>} /\ End("not written")
    BY <1>9 DEF WriteSites, At
  <2>2. cmd.list \in Seq(Line) /\ << Garbled >> \in Seq(Line)
    <3>1. cmd.list \in Seq(Prefix)
      BY <1>1 DEF Command
    <3> QED BY <3>1 DEF Line
  <2>3. sites' = Absent \/ sites' \in Seq(Line)
    BY <1>1, <2>1, <2>2 DEF ListTypeOK
  <2>4. ListTypeOK'
    BY <1>1, <1>2, <1>9, <2>1, <2>3, EndFacts DEF ListTypeOK
  <2>5. RunInv' /\ UntouchedInv' /\ FileOpen'
    BY <1>1, <2>1, EndFacts DEF RunInv, UntouchedInv, FileOpen, At, Loading
  <2> QED BY <2>4, <2>5 DEF TypeInv
<1>10. CASE Kill /\ UNCHANGED db
  <2>1. /\ UNCHANGED << archive, file, before, release, cut >>
        /\ sites' \in {sites, << Garbled >>} /\ End("killed")
    BY <1>10 DEF Kill
  <2>2. << Garbled >> \in Seq(Line)
    BY DEF Line
  <2>3. ListTypeOK'
    BY <1>1, <1>2, <1>10, <2>1, <2>2, EndFacts DEF ListTypeOK
  <2>4. RunInv' /\ UntouchedInv' /\ FileOpen'
    BY <1>1, <2>1, EndFacts DEF RunInv, UntouchedInv, FileOpen, At, Loading
  <2> QED BY <2>3, <2>4 DEF TypeInv
<1>11. CASE Publish
  BY <1>1, <1>2, <1>11
     DEF Publish, TypeInv, ListTypeOK, RunInv, UntouchedInv, FileOpen, At, Loading
<1>12. CASE UNCHANGED vars
  BY <1>1, <1>12 DEF vars, TypeInv, ListTypeOK, RunInv, UntouchedInv, FileOpen, At, Loading
<1> QED BY <1>3, <1>4, <1>5, <1>6, <1>7, <1>8, <1>9, <1>10, <1>11, <1>12
        DEF Next, Run, LoadStep

(* Hence it always holds.                                                  *)
LEMMA TypeAlways == Spec => []TypeInv
BY TypeInit, TypeStep, PTL DEF Spec

(* All values stay in their range, whatever fails.                         *)
THEOREM ListTypeCorrect == Spec => []ListTypeOK
<1>1. TypeInv => ListTypeOK
  BY DEF TypeInv
<1> QED BY <1>1, TypeAlways, PTL

(* A fetch that could not load the country, from the MMDB, the zip or the  *)
(* tar.gz, has left the list as it was.                                    *)
THEOREM ListSurvives == Spec => []OldListSurvives
<1>1. TypeInv => OldListSurvives
  BY DEF TypeInv, UntouchedInv, OldListSurvives
<1> QED BY <1>1, TypeAlways, PTL

(* CollapseIPv4 is never given a prefix that is not IPv4.                  *)
THEOREM NeverPanics == Spec => []NoPanic
<1>1. ASSUME TypeInv
      PROVE  NoPanic
  <2>1. loadBlocksForGeonames(db) \subseteq Blocks
    BY <1>1, CSVGivesCountry DEF TypeInv, ListTypeOK
  <2> QED BY <1>1, <2>1, BlocksArePrefixes DEF TypeInv, RunInv, NoPanic
<1> QED BY <1>1, TypeAlways, PTL

-----------------------------------------------------------------------------
(* The country.                                                            *)

(* Equal sets of blocks are collapsed from what both forms give.           *)
THEOREM SourcesGiveSame == ASSUME WantNamed PROVE Spec => []SourcesAgree
<1>1. ASSUME TypeInv
      PROVE  SourcesAgree
  <2>1. db \in Databases
    BY <1>1 DEF TypeInv, ListTypeOK
  <2>2. /\ loadBlocksForGeonames(db) \cap Prefix = loadBlocksForGeonames(db)
        /\ ExtractCountryFromMMDB(db) \cap Prefix = ExtractCountryFromMMDB(db)
    BY <2>1, CSVGivesCountry, MMDBGivesCountry, BlocksArePrefixes
  <2>3. ASSUME Located(db)
        PROVE  Coverage(loadBlocksForGeonames(db)) = Coverage(ExtractCountryFromMMDB(db))
    BY <2>1, <2>3, CSVGivesCountry, MMDBGivesCountry
  <2> QED BY <2>2, <2>3, BestOfCoverage DEF SourcesAgree
<1> QED BY <1>1, TypeAlways, PTL

CountryInv == LoadedInv /\ WriteInv /\ LinesInv

(* What is known of the country holds before the first command.            *)
LEMMA CountryInit == Init => CountryInv
<1> SUFFICES ASSUME Init
             PROVE  CountryInv
  OBVIOUS
<1>1. cmd.st = "idle" /\ file = Absent
  BY DEF Init, NoCommand
<1> QED BY <1>1 DEF CountryInv, LoadedInv, WriteInv, LinesInv, At

(* A block of the new list is of the country.                              *)
LEMMA LineInCountry ==
  ASSUME LoadedInv, At("write"), Located(archive), NEW j \in 1 .. Len(cmd.list)
  PROVE  Coverage({cmd.list[j]}) \subseteq Truth(archive)
<1>1. Coverage(Elements(cmd.list, 1, Len(cmd.list))) = Truth(archive)
  BY DEF LoadedInv, At
<1>2. cmd.list[j] \in Elements(cmd.list, 1, Len(cmd.list))
  BY DEF Elements
<1>3. Coverage({cmd.list[j]}) \subseteq Coverage(Elements(cmd.list, 1, Len(cmd.list)))
  BY <1>2 DEF Coverage
<1> QED BY <1>1, <1>3

(* It is inductive, given a country that is named.                         *)
LEMMA CountryStep ==
  ASSUME WantNamed, TypeInv, CountryInv, [Next]_vars
  PROVE  CountryInv'
<1>1. /\ ListTypeOK /\ cmd \in Command /\ RunInv /\ LoadedInv /\ WriteInv /\ LinesInv
  BY DEF TypeInv, ListTypeOK, CountryInv
<1>2. ASSUME cmd'.st \in {"idle"} \cup Loading, cmd'.st # "idle" => cmd'.k = 1
      PROVE  LoadedInv' /\ WriteInv'
  BY <1>2 DEF LoadedInv, WriteInv, At, Loading
<1>3. ASSUME UNCHANGED << file, cut, release >>
      PROVE  LinesInv'
  BY <1>1, <1>3 DEF LinesInv
<1>4. CASE Start
  <2>1. UNCHANGED << file, cut, release >>
    BY <1>4 DEF Start
  <2> QED BY <1>2, <1>3, <1>4, <2>1, StartFacts DEF CountryInv, Loading
<1>5. CASE LoadStep
  <2>1. UNCHANGED << file, cut, release >> /\ cmd.st \in Loading
    BY <1>5, LoadSteps
  <2>2. cmd'.k = 1
    BY <1>1, <1>5, <2>1, LoadOutcomes DEF WriteInv, Loading
  <2>3. CASE cmd'.st \in {"idle"} \cup Loading
    BY <1>2, <1>3, <2>1, <2>2, <2>3 DEF CountryInv
  <2>4. CASE /\ cmd'.st = "collapse"
             /\ Located(archive') => Coverage(cmd'.prefs) = Truth(archive')
    BY <1>3, <2>1, <2>2, <2>4 DEF CountryInv, LoadedInv, WriteInv, At
  <2> QED BY <1>1, <1>5, <2>3, <2>4, LoadOutcomes
<1>6. CASE Collapse
  <2>1. UNCHANGED << archive, file, cut, release >> /\ cmd.st = "collapse"
    BY <1>6 DEF Collapse, At
  <2>2. cmd.prefs \subseteq Blocks /\ cmd.prefs \in SUBSET Prefix
    BY <1>1, BlocksArePrefixes DEF RunInv
  <2>3. /\ cmd'.st \in {"create", "sites"} /\ cmd'.k = cmd.k
        /\ cmd'.list = CollapseIPv4(cmd.prefs) /\ cmd'.list \in Seq(Blocks)
    BY <1>1, <1>6, <2>2, CollapseFacts
  <2>4. Coverage(Elements(cmd'.list, 1, Len(cmd'.list))) = Coverage(cmd.prefs)
    BY <2>2, <2>3, CollapsedList
  <2>5. LoadedInv'
    BY <1>1, <2>1, <2>3, <2>4 DEF LoadedInv, At
  <2>6. WriteInv'
    BY <1>1, <2>1, <2>3 DEF WriteInv, At
  <2> QED BY <1>3, <2>1, <2>5, <2>6 DEF CountryInv
<1>7. CASE Create
  <2>1. UNCHANGED archive /\ cmd.st = "create"
    BY <1>7 DEF Create, At
  <2>2. CASE /\ file' = << >> /\ release' = archive /\ cut' = FALSE /\ Goto("write")
    <3>1. /\ cmd'.st = "write" /\ cmd'.k = 1 /\ cmd'.list = cmd.list
      BY <1>1, <2>1, <2>2, GotoFacts DEF WriteInv
    <3>2. file' \in Seq(Line) /\ Len(file') = 0
      BY <2>2, EmptySeq
    <3>3. cmd.list \in Seq(Prefix) /\ Len(cmd.list) \in Nat
      BY <1>1, LenProperties DEF Command
    <3>4. LoadedInv'
      BY <1>1, <2>1, <3>1 DEF LoadedInv, At
    <3>5. WriteInv'
      BY <2>1, <2>2, <3>1, <3>2, <3>3 DEF WriteInv, At
    <3>6. LinesInv'
      BY <3>2 DEF LinesInv
    <3> QED BY <3>4, <3>5, <3>6 DEF CountryInv
  <2>3. CASE End("not written") /\ UNCHANGED << file, release, cut >>
    BY <1>1, <1>2, <1>3, <2>3, EndFacts DEF CountryInv
  <2> QED BY <1>7, <2>2, <2>3 DEF Create
<1>8. CASE WriteLine
  <2>1. UNCHANGED << archive, release >> /\ At("write")
    BY <1>8 DEF WriteLine
  <2>2. /\ cmd.k > 0 /\ file \in Seq(Line) /\ cut \in BOOLEAN /\ ~cut /\ release = archive
        /\ cmd.k = Len(file) + 1 /\ Len(file) \in Nat
        /\ \A j \in 1 .. Len(file) : file[j] = cmd.list[j]
    BY <1>1, <2>1, LenProperties DEF RunInv, WriteInv, At, ListTypeOK
  <2>3. /\ cmd.k \in 1 .. Len(cmd.list) /\ file' \in Seq(Line) /\ cmd'.list = cmd.list
        /\ \/ /\ cmd'.st = "write" /\ cmd'.k = cmd.k + 1
              /\ file' = Append(file, cmd.list[cmd.k]) /\ cut' = cut
           \/ /\ cmd'.st = "idle"
              /\ \/ UNCHANGED << file, cut >>
                 \/ \E l \in Torn(cmd.list[cmd.k]) :
                      file' = Append(file, l) /\ cut' = (l \notin {Garbled, cmd.list[cmd.k]})
    BY <1>1, <1>8, <2>2, WriteOutcomes
  <2>4. cmd.list \in Seq(Prefix) /\ Len(cmd.list) \in Nat
    BY <1>1, LenProperties DEF Command
  <2>5. ASSUME NEW l, file' = Append(file, l),
               Located(archive) => (l \in Prefix => Coverage({l}) \subseteq Truth(archive))
        PROVE  LinesInv'
    <3>1. /\ Len(file') = Len(file) + 1
          /\ \A j \in 1 .. Len(file) : file'[j] = file[j]
          /\ file'[Len(file) + 1] = l
      BY <2>2, <2>5
    <3>2. file # Absent
      BY <2>2, ListAssumption DEF Line
    <3>3. ASSUME Located(archive), NEW j \in 1 .. Len(file'), file'[j] \in Prefix
          PROVE  Coverage({file'[j]}) \subseteq Truth(archive)
      <4>1. CASE j \in 1 .. Len(file)
        BY <1>1, <2>2, <3>1, <3>2, <3>3, <4>1 DEF LinesInv
      <4>2. CASE j = Len(file) + 1
        BY <2>5, <3>1, <3>3, <4>2
      <4>3. j \in 1 .. Len(file) + 1
        BY <3>1
      <4>4. j \in 1 .. Len(file) \/ j = Len(file) + 1
        BY <2>2, <4>3
      <4> QED BY <4>1, <4>2, <4>4
    <3> QED BY <2>1, <2>2, <3>3 DEF LinesInv
  <2>6. Located(archive) => Coverage({cmd.list[cmd.k]}) \subseteq Truth(archive)
    BY <1>1, <2>1, <2>3, LineInCountry
  <2>7. CASE /\ cmd'.st = "write" /\ cmd'.k = cmd.k + 1
             /\ file' = Append(file, cmd.list[cmd.k]) /\ cut' = cut
    <3>1. LoadedInv'
      BY <1>1, <2>1, <2>3, <2>7 DEF LoadedInv, At
    <3>2. /\ Len(file') = Len(file) + 1
          /\ \A j \in 1 .. Len(file') : file'[j] = cmd.list[j]
      BY <2>2, <2>7
    <3>3. cmd'.k = Len(file') + 1 /\ Len(file') <= Len(cmd.list)
      BY <2>2, <2>3, <2>7, <3>2
    <3>4. WriteInv'
      BY <2>1, <2>2, <2>3, <2>7, <3>2, <3>3 DEF WriteInv, At
    <3>5. LinesInv'
      BY <2>5, <2>6, <2>7
    <3> QED BY <3>1, <3>4, <3>5 DEF CountryInv
  <2>8. CASE cmd'.st = "idle" /\ UNCHANGED << file, cut >>
    BY <1>2, <1>3, <2>1, <2>8 DEF CountryInv
  <2>9. CASE /\ cmd'.st = "idle"
             /\ \E l \in Torn(cmd.list[cmd.k]) :
                  file' = Append(file, l) /\ cut' = (l \notin {Garbled, cmd.list[cmd.k]})
    <3>1. PICK l \in Torn(cmd.list[cmd.k]) :
             file' = Append(file, l) /\ cut' = (l \notin {Garbled, cmd.list[cmd.k]})
      BY <2>9
    <3>2. CASE l \in {Garbled, cmd.list[cmd.k]}
      <4>1. Garbled \notin Prefix
        BY ListAssumption
      <4>2. LinesInv'
        BY <2>5, <2>6, <3>1, <3>2, <4>1
      <4> QED BY <1>2, <2>9, <4>2 DEF CountryInv
    <3>3. CASE l \notin {Garbled, cmd.list[cmd.k]}
      <4>1. LinesInv'
        BY <3>1, <3>3 DEF LinesInv
      <4> QED BY <1>2, <2>9, <4>1 DEF CountryInv
    <3> QED BY <3>2, <3>3
  <2> QED BY <2>3, <2>7, <2>8, <2>9
<1>9. CASE Close
  <2>1. /\ UNCHANGED << release, cut >> /\ At("write") /\ End("ok")
        /\ file' = file \/ \E m \in 0 .. Len(file) : file' = SubSeq(file, 1, m)
    BY <1>9 DEF Close
  <2>2. file \in Seq(Line) /\ Len(file) \in Nat
    BY <1>1, <2>1, LenProperties DEF WriteInv, At
  <2>3. /\ \A j \in 1 .. Len(file') : file'[j] = file[j]
        /\ Len(file') \in Nat /\ Len(file') <= Len(file)
    <3>1. ASSUME NEW m \in 0 .. Len(file)
          PROVE  /\ Len(SubSeq(file, 1, m)) = m
                 /\ \A j \in 1 .. m : SubSeq(file, 1, m)[j] = file[j]
      BY <2>2, SubSeqProperties
    <3> QED BY <2>1, <2>2, <3>1
  <2>4. file # Absent
    BY <2>2, ListAssumption DEF Line
  <2>5. LinesInv'
    BY <1>1, <2>1, <2>2, <2>3, <2>4 DEF LinesInv
  <2> QED BY <1>1, <1>2, <2>1, <2>5, EndFacts DEF CountryInv
<1>10. CASE WriteSites
  <2>1. UNCHANGED << file, cut, release >> /\ cmd'.st = "idle"
    BY <1>1, <1>10, EndFacts DEF WriteSites
  <2> QED BY <1>2, <1>3, <2>1 DEF CountryInv
<1>11. CASE Kill
  <2>1. UNCHANGED << file, cut, release >> /\ cmd'.st = "idle"
    BY <1>1, <1>11, EndFacts DEF Kill
  <2> QED BY <1>2, <1>3, <2>1 DEF CountryInv
<1>12. CASE Publish \/ UNCHANGED vars
  BY <1>1, <1>3, <1>12 DEF Publish, vars, CountryInv, LoadedInv, WriteInv, At
<1> QED BY <1>4, <1>5, <1>6, <1>7, <1>8, <1>9, <1>10, <1>11, <1>12
        DEF Next, Run, LoadStep

(* Hence it always holds.                                                  *)
LEMMA CountryAlways == ASSUME WantNamed PROVE Spec => [](TypeInv /\ CountryInv)
<1>1. TypeInv /\ CountryInv /\ [Next]_vars => CountryInv'
  BY CountryStep
<1> QED BY <1>1, TypeInit, TypeStep, CountryInit, PTL DEF Spec

(* The set a file is read as.                                              *)
LEMMA ReadBack ==
  ASSUME NEW f \in Seq(Line)
  PROVE  /\ ParseCIDRList(f) \in SUBSET Prefix
         /\ \A p \in ParseCIDRList(f) : \E j \in 1 .. Len(f) : f[j] = p
BY DEF ParseCIDRList, Elements

(* Whenever an apply reads the list, nothing goes direct that is not in    *)
(* the country the list was made for, unless its last line was cut within  *)
(* the length.                                                             *)
THEOREM DirectInCountry == ASSUME WantNamed PROVE Spec => []DirectOnlyInCountry
<1>1. ASSUME TypeInv, CountryInv
      PROVE  DirectOnlyInCountry
  <2> USE <1>1
  <2> DEFINE cov(l) == Coverage(Elements(l, 1, Len(l)))
  <2>1. ASSUME Readable(file), ~cut, Located(release)
        PROVE  cov(DirectFromFile) \subseteq Truth(release)
    <3> DEFINE S == ParseCIDRList(file)
    <3>1. file # Absent /\ file \in Seq(Line)
      BY <2>1 DEF Readable, TypeInv, ListTypeOK
    <3>2. S \in SUBSET Prefix /\ \A p \in S : \E j \in 1 .. Len(file) : file[j] = p
      BY <3>1, ReadBack
    <3>3. \A p \in S : Coverage({p}) \subseteq Truth(release)
      BY <2>1, <3>1, <3>2 DEF CountryInv, LinesInv
    <3>4. DirectFromFile = CollapseIPv4(S)
      BY DEF DirectFromFile
    <3> HIDE DEF S
    <3>5. Coverage(S) \subseteq Truth(release)
      BY <3>3 DEF Coverage
    <3>6. cov(CollapseIPv4(S)) = Coverage(S)
      BY <3>2, CollapsedList
    <3> QED BY <3>4, <3>5, <3>6
  <2>2. cov(DirectFromDir) = Truth(db)
    <3> DEFINE S == loadBlocksForGeonames(db)
    <3>1. S \in SUBSET Prefix /\ Coverage(S) = Truth(db)
      BY CSVGivesCountry, BlocksArePrefixes DEF TypeInv, ListTypeOK
    <3>2. DirectFromDir = CollapseIPv4(S)
      BY DEF DirectFromDir
    <3> HIDE DEF S
    <3> QED BY <3>1, <3>2, CollapsedList
  <2> QED BY <2>1, <2>2 DEF DirectOnlyInCountry
<1> QED BY <1>1, CountryAlways, PTL

-----------------------------------------------------------------------------
(* A success is complete.                                                  *)

(* A list of blocks is read back as it was written.                        *)
LEMMA ListReadable ==
  ASSUME NEW l \in Seq(Blocks)
  PROVE  Readable(l) /\ ParseCIDRList(l) = Elements(l, 1, Len(l))
<1>1. \A j \in 1 .. Len(l) : l[j] \in Prefix
  BY BlocksArePrefixes
<1>2. l \in Seq(Prefix \cup {Garbled})
  BY BlocksArePrefixes
<1>3. l # Absent
  BY <1>2, ListAssumption
<1> QED BY <1>1, <1>3 DEF Readable, ParseCIDRList, Elements

(* Every step of fetch and amnezia preserves SuccessIsComplete, if Close   *)
(* does not fail.                                                          *)
LEMMA SuccessStep ==
  ASSUME WantNamed, ~LateErrors, TypeInv, CountryInv, SuccessIsComplete, [Next]_vars
  PROVE  SuccessIsComplete'
<1>1. /\ cmd \in Command /\ RunInv /\ LoadedInv /\ WriteInv /\ ListTypeOK
  BY DEF TypeInv, ListTypeOK, CountryInv
<1>2. ASSUME cmd'.res # "ok"
      PROVE  SuccessIsComplete'
  BY <1>2 DEF SuccessIsComplete
<1>3. CASE Start
  BY <1>2, <1>3, StartFacts
<1>4. CASE LoadStep
  <2>1. cmd.st \in Loading
    BY <1>4, LoadSteps
  <2>2. cmd.res = "none"
    BY <1>1, <2>1 DEF RunInv, Loading
  <2> QED BY <1>1, <1>2, <1>4, <2>2, LoadOutcomes
<1>5. CASE Collapse
  <2>1. cmd.res = "none"
    BY <1>1, <1>5 DEF RunInv, Collapse, At
  <2> QED BY <1>1, <1>2, <1>5, <2>1, CollapseFacts DEF RunInv
<1>6. CASE Create
  <2>1. cmd.res = "none"
    BY <1>1, <1>6 DEF RunInv, Create, At
  <2> QED BY <1>1, <1>2, <1>6, <2>1, EndFacts, GotoFacts DEF Create
<1>7. CASE WriteLine
  <2>1. cmd.res = "none" /\ cmd.k > 0 /\ file \in Seq(Line) /\ cut \in BOOLEAN
    BY <1>1, <1>7 DEF RunInv, WriteInv, WriteLine, At, ListTypeOK
  <2>2. cmd'.res # "ok"
    BY <1>1, <1>7, <2>1, WriteOutcomes
  <2> QED BY <1>2, <2>2
<1>8. CASE Close
  <2>1. /\ file' = file /\ archive' = archive /\ At("write") /\ End("ok")
        /\ cmd.k > Len(cmd.list)
    BY <1>8 DEF Close
  <2>2. /\ file \in Seq(Line) /\ cmd.k = Len(file) + 1 /\ Len(file) <= Len(cmd.list)
        /\ \A j \in 1 .. Len(file) : file[j] = cmd.list[j]
        /\ cmd.kind = "fetch" /\ cmd.list \in Seq(Blocks)
    BY <1>1, <2>1 DEF WriteInv, RunInv, LoadedInv, At
  <2>3. Len(file) = Len(cmd.list) /\ Len(file) \in Nat
    BY <2>1, <2>2, LenProperties
  <2>4. file = cmd.list
    BY <2>2, <2>3, SeqEqual
  <2>5. /\ Readable(file) /\ ParseCIDRList(file) = Elements(cmd.list, 1, Len(cmd.list))
    BY <2>2, <2>4, ListReadable
  <2>6. Located(archive) => Coverage(ParseCIDRList(file)) = Truth(archive)
    BY <1>1, <2>1, <2>5 DEF LoadedInv, At
  <2>7. cmd'.kind = "fetch"
    BY <1>1, <2>1, <2>2, EndFacts
  <2> QED BY <2>1, <2>5, <2>6, <2>7 DEF SuccessIsComplete
<1>9. CASE WriteSites
  <2>1. archive' = archive /\ At("sites")
    BY <1>9 DEF WriteSites
  <2>2. CASE sites' = cmd.list /\ End("ok")
    <3>1. cmd.list \in Seq(Blocks) /\ cmd.kind = "amnezia"
      BY <1>1, <2>1 DEF LoadedInv, RunInv, At
    <3>2. Readable(sites') /\ ParseCIDRList(sites') = Elements(cmd.list, 1, Len(cmd.list))
      BY <2>2, <3>1, ListReadable
    <3>3. Located(archive) => Coverage(ParseCIDRList(sites')) = Truth(archive)
      BY <1>1, <2>1, <3>2 DEF LoadedInv, At
    <3>4. cmd'.kind # "fetch"
      BY <1>1, <2>2, <3>1, EndFacts
    <3> QED BY <2>1, <3>2, <3>3, <3>4 DEF SuccessIsComplete
  <2>3. CASE End("not written")
    BY <1>1, <1>2, <2>3, EndFacts
  <2> QED BY <1>9, <2>2, <2>3 DEF WriteSites
<1>10. CASE Kill
  BY <1>1, <1>2, <1>10, EndFacts DEF Kill
<1>11. CASE Publish \/ UNCHANGED vars
  BY <1>11 DEF Publish, vars, SuccessIsComplete
<1> QED BY <1>3, <1>4, <1>5, <1>6, <1>7, <1>8, <1>9, <1>10, <1>11
        DEF Next, Run, LoadStep

(* A command that says it has succeeded has written the country, all of it *)
(* and nothing else, provided that no write fails as late as at Close,     *)
(* whose error the code drops.                                             *)
THEOREM SuccessComplete ==
  ASSUME WantNamed, ~LateErrors
  PROVE  Spec => []SuccessIsComplete
<1>1. Init => SuccessIsComplete
  BY DEF Init, NoCommand, SuccessIsComplete
<1>2. TypeInv /\ CountryInv /\ SuccessIsComplete /\ [Next]_vars => SuccessIsComplete'
  BY SuccessStep
<1> QED BY <1>1, <1>2, CountryAlways, PTL DEF Spec
=============================================================================
