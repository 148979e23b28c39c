----------------------------- MODULE PrefixList -----------------------------
(***************************************************************************)
(* The prefix list: gotun fetch and gotun amnezia load the prefixes of a   *)
(* country, collapse them and write a file; gotun apply reads the list.    *)
(* Loading and writing may fail at every step, and a command may be killed *)
(* between any two.  The steps of CollapseIPv4 are those of Collapse; here *)
(* its result is taken.                                                    *)
(*                                                                         *)
(* A file is what a reader makes of its lines.  A line that was written in *)
(* part reads as garbage, or, cut within its length, as a wider prefix.    *)
(***************************************************************************)
EXTENDS PrefixSource, FiniteSets

CONSTANTS Databases,      \* the releases of the database
          Base,           \* lengths are written in this base
          Garbled,        \* a line that cannot be parsed
          Absent,         \* no file
          LateErrors      \* whether a write may fail as late as at Close

ASSUME ListAssumption ==
  /\ \A db \in Databases : db.rows \subseteq Row /\ DOMAIN db.iso = Places
  /\ Base \in Nat /\ Base > 1 /\ W < Base * Base
  /\ Garbled \notin Prefix /\ Absent \notin Seq(Prefix \cup {Garbled})
  /\ LateErrors \in BOOLEAN

VARIABLES db,         \* the release that is published, and installed as MMDB
          cmd,        \* the fetch or amnezia command that runs or ran last
          archive,    \* the release it has loaded
          file,       \* the list: its lines, or Absent
          before,     \* the list the command may replace, until it does
          release,    \* the release the list was made from
          cut,        \* the last line is cut within its length
          sites       \* the Amnezia file

vars == << db, cmd, archive, file, before, release, cut, sites >>

Line == Prefix \cup {Garbled}

Command == [kind: {"fetch", "amnezia"},
            src: {"mmdb", "csv"},
            format: {"official", "ios"},
            st: {"idle", "load", "fallback", "unzip", "untar", "find", "parse",
                 "collapse", "create", "write", "sites", "panic"},
            prefs: SUBSET Networks,          \* what was loaded
            list: Seq(Prefix),               \* collapsed
            k: Nat,                          \* the next line to be written
            res: {"none", "ok", "not loaded", "not written", "killed"}]

NoCommand == [kind |-> "fetch", src |-> "mmdb", format |-> "official", st |-> "idle",
              prefs |-> {}, list |-> << >>, k |-> 1, res |-> "none"]

Init ==
  /\ db \in Databases
  /\ cmd = NoCommand
  /\ archive = db
  /\ file = Absent /\ before = Absent /\ release = db /\ cut = FALSE
  /\ sites = Absent

At(st) == cmd.st = st

End(res) == cmd' = [cmd EXCEPT !.st = "idle", !.res = res]

Goto(st) == cmd' = [cmd EXCEPT !.st = st]

-----------------------------------------------------------------------------
(* ParseFormat: the empty format is the official one.  Without it a format *)
(* would be what the user typed.                                           *)
AnyFormat(f) == {f}

ParseFormat(f) == IF f \in {"official", ""} THEN {"official"} ELSE {"ios"} \cap {f}

(* FetchPrefixes and ExportAmnezia start; a bad format ends the latter.    *)
(* The list is not opened yet.                                             *)
StartTruncating ==
  /\ At("idle")
  /\ \E src \in {"mmdb", "csv"} : cmd' = [NoCommand EXCEPT !.src = src, !.st = "load"]
  /\ before' = file
  /\ file' = << >>
  /\ UNCHANGED << archive, release, cut, sites >>

Start ==
  /\ At("idle")
  /\ \E kind \in {"fetch", "amnezia"}, src \in {"mmdb", "csv"},
        f \in {"official", "ios", "", "unknown"} :
       /\ kind = "fetch" => f = "official"
       /\ cmd' = [NoCommand EXCEPT !.kind = kind, !.src = src,
                                   !.st = IF ParseFormat(f) = {} THEN "idle" ELSE "load",
                                   !.res = IF ParseFormat(f) = {} THEN "not loaded" ELSE "none",
                                   !.format = IF ParseFormat(f) = {} THEN "official"
                                              ELSE CHOOSE g \in ParseFormat(f) : TRUE]
  /\ before' = file
  /\ UNCHANGED << archive, file, release, cut, sites >>

Loaded(prefs) == cmd' = [cmd EXCEPT !.st = "collapse", !.prefs = prefs]

(* LoadCountryPrefixesRaw from a local MMDB.                               *)
LoadMMDB ==
  /\ At("load") /\ cmd.src = "mmdb"
  /\ \/ Loaded(ExtractCountryFromMMDB(db)) /\ archive' = db
     \/ End("not loaded") /\ UNCHANGED archive
  /\ UNCHANGED << file, before, release, cut, sites >>

(* download gives what is published.  A download that breaks off fails.    *)
Download(next) == Goto(next) /\ archive' = db

(* DownloadGeoLite2CountryPrefixes: without a licence nothing is tried;    *)
(* the tar.gz is asked for only when the zip cannot be had.                *)
DownloadZip ==
  /\ At("load") /\ cmd.src = "csv"
  /\ \/ Download("unzip")
     \/ (Goto("fallback") \/ End("not loaded")) /\ UNCHANGED archive
  /\ UNCHANGED << file, before, release, cut, sites >>

DownloadTarGz ==
  /\ At("fallback")
  /\ \/ Download("untar")
     \/ End("not loaded") /\ UNCHANGED archive
  /\ UNCHANGED << file, before, release, cut, sites >>

(* They fail on an archive of another form, on a file outside of the       *)
(* directory, and on a full disk.                                          *)
extractZip ==
  /\ At("unzip")
  /\ Goto("find") \/ End("not loaded")
  /\ UNCHANGED << archive, file, before, release, cut, sites >>

extractTarGz ==
  /\ At("untar")
  /\ Goto("find") \/ End("not loaded")
  /\ UNCHANGED << archive, file, before, release, cut, sites >>

(* The directory is that of the locations; the blocks may be missing.      *)
findCSVDir ==
  /\ At("find")
  /\ Goto("parse") \/ End("not loaded")
  /\ UNCHANGED << archive, file, before, release, cut, sites >>

ParseMaxMindCountryDir ==
  /\ At("parse")
  /\ \/ CSVReadable(archive) /\ Loaded(loadBlocksForGeonames(archive))
     \/ End("not loaded")
  /\ UNCHANGED << archive, file, before, release, cut, sites >>

-----------------------------------------------------------------------------
(* CollapseIPv4, and its panic on a prefix that is not IPv4.               *)
Sorted(S) ==
  [k \in 1 .. Cardinality(S) |-> CHOOSE p \in S : Cardinality({ q \in S : Less(q, p) }) = k - 1]

CollapseIPv4(S) == Sorted(Best(S \cap Prefix))

Collapse ==
  /\ At("collapse")
  /\ IF cmd.prefs \subseteq Blocks
     THEN cmd' = [cmd EXCEPT !.list = CollapseIPv4(cmd.prefs), !.prefs = {},
                             !.st = IF cmd.kind = "fetch" THEN "create" ELSE "sites"]
     ELSE Goto("panic")
  /\ UNCHANGED << archive, file, before, release, cut, sites >>

(* WriteCIDRList truncates the list, then writes line by line.  Blocks of  *)
(* the last release would stay in a list that is appended to.              *)
CreateAppending ==
  /\ At("create")
  /\ file' = IF file = Absent THEN << >> ELSE file
  /\ release' = archive /\ cut' = FALSE
  /\ before' = Absent
  /\ Goto("write")
  /\ UNCHANGED << archive, sites >>

Create ==
  /\ At("create")
  /\ \/ /\ file' = << >> /\ release' = archive /\ cut' = FALSE
        /\ before' = Absent
        /\ Goto("write")
     \/ End("not written") /\ UNCHANGED << file, before, release, cut >>
  /\ UNCHANGED << archive, sites >>

(* What a line reads as when only its beginning has reached the file.      *)
Torn(p) == {Garbled, p} \cup { [p EXCEPT !.bits = b] : b \in {p.bits \div Base} \ {0} }

(* Writing on after an error would end as a success.                       *)
WriteUnchecked ==
  /\ At("write") /\ cmd.k <= Len(cmd.list)
  /\ file' \in {file, Append(file, cmd.list[cmd.k])}
  /\ cmd' = [cmd EXCEPT !.k = @ + 1]
  /\ UNCHANGED << archive, before, release, cut, sites >>

WriteLine ==
  /\ At("write") /\ cmd.k <= Len(cmd.list)
  /\ LET p == cmd.list[cmd.k]
     IN \/ /\ file' = Append(file, p)
           /\ cmd' = [cmd EXCEPT !.k = @ + 1]
           /\ UNCHANGED cut
        \/ End("not written") /\ UNCHANGED << file, cut >>
        \/ /\ \E l \in Torn(p) : file' = Append(file, l) /\ cut' = (l \notin {Garbled, p})
           /\ End("not written")
  /\ UNCHANGED << archive, before, release, sites >>

(* The error of Close is not looked at.                                    *)
Close ==
  /\ At("write") /\ cmd.k > Len(cmd.list)
  /\ End("ok")
  /\ file' \in IF LateErrors THEN { SubSeq(file, 1, m) : m \in 0 .. Len(file) } ELSE {file}
  /\ UNCHANGED << archive, before, release, cut, sites >>

(* WriteSites: one write, whose beginning alone is not JSON.               *)
WriteSites ==
  /\ At("sites")
  /\ \/ sites' = cmd.list /\ End("ok")
     \/ sites' \in {sites, << Garbled >>} /\ End("not written")
  /\ UNCHANGED << archive, file, before, release, cut >>

(* A command is killed.                                                    *)
Kill ==
  /\ ~At("idle") /\ ~At("panic")
  /\ End("killed")
  /\ UNCHANGED << archive, file, before, release, cut >>
  /\ \/ UNCHANGED sites
     \/ At("sites") /\ sites' = << Garbled >>

-----------------------------------------------------------------------------
(* ParseCIDRFile, which skips comments and IPv6 lines, and CollapseIPv4 in *)
(* Apply.  A list that cannot be read ends the apply.                      *)
Readable(f) == f # Absent /\ \A k \in 1 .. Len(f) : f[k] \in Prefix

ParseCIDRList(f) == Elements(f, 1, Len(f)) \cap Prefix

(* What Apply would send direct if it read the list, or a directory with   *)
(* the CSV files, now.                                                     *)
DirectFromFile == CollapseIPv4(ParseCIDRList(file))
DirectFromDir == CollapseIPv4(loadBlocksForGeonames(db))

(* MaxMind publishes a release.                                            *)
Publish ==
  /\ db' \in Databases
  /\ UNCHANGED << cmd, archive, file, before, release, cut, sites >>

Run ==
  /\ \/ Start \/ LoadMMDB \/ DownloadZip \/ DownloadTarGz
     \/ extractZip \/ extractTarGz \/ findCSVDir \/ ParseMaxMindCountryDir
     \/ Collapse \/ Create \/ WriteLine \/ Close \/ WriteSites \/ Kill
  /\ UNCHANGED db

Next == Run \/ Publish

Spec == Init /\ [][Next]_vars

-----------------------------------------------------------------------------
(* All values are in their range.                                          *)
ListTypeOK ==
  /\ db \in Databases /\ archive \in Databases /\ release \in Databases
  /\ cmd \in Command
  /\ \A f \in {file, before, sites} : f = Absent \/ f \in Seq(Line)
  /\ cut \in BOOLEAN

(* A command that says it has succeeded has left the country's addresses,  *)
(* all of them and no others, in a file that can be read back.             *)
SuccessIsComplete ==
  (cmd.res = "ok" /\ Located(archive)) =>
     LET f == IF cmd.kind = "fetch" THEN file ELSE sites
     IN Readable(f) /\ Coverage(ParseCIDRList(f)) = Truth(archive)

(* A fetch that could not load the country leaves the list as it was: the  *)
(* file is not touched before all of the new list is at hand.              *)
OldListSurvives == cmd.res = "not loaded" => file = before

(* Whenever an apply reads the list - while it is written, after a fetch   *)
(* that failed or was killed part-way - nothing goes direct that is not in *)
(* the country, unless the last line was cut within its length.            *)
DirectOnlyInCountry ==
  LET InCountry(list, of) ==
        Located(of) => Coverage(Elements(list, 1, Len(list))) \subseteq Truth(of)
  IN /\ (Readable(file) /\ ~cut) => InCountry(DirectFromFile, release)
     /\ CSVReadable(db) => InCountry(DirectFromDir, db)

(* The same without that exception: a list of which only a part has        *)
(* reached the file still sends nothing direct that is not in the country. *)
PartOfListInCountry ==
  (Readable(file) /\ Located(release)) =>
     Coverage(Elements(DirectFromFile, 1, Len(DirectFromFile))) \subseteq Truth(release)

(* Both forms of a release give the same country.                          *)
SourcesAgree ==
  (Located(db) /\ CSVReadable(db)) =>
     Best(loadBlocksForGeonames(db) \cap Prefix) = Best(ExtractCountryFromMMDB(db) \cap Prefix)

(* CollapseIPv4 is not given an IPv6 prefix, neither by a command that     *)
(* loads a country nor by an apply that reads the CSV files itself.        *)
NoPanic == ~At("panic") /\ loadBlocksForGeonames(db) \subseteq Prefix
=============================================================================
