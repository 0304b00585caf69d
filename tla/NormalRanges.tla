----------------------------- MODULE NormalRanges -----------------------------
(***************************************************************************)
(* FindNormalAffectedRanges (version_extraction_strategies.go), the shared *)
(* normal-range algorithm of the default and the Linux extractor: a scan   *)
(* over one product's version statements that builds self-contained       *)
(* ranges at once and pools the halves of split ranges, then the pairing   *)
(* of the pools and the single-version fallback.  One action per branch of *)
(* the loop body, so the order of entries and of the in-place deletions    *)
(* from the unpaired-introduced pool is explicit.                          *)
(*                                                                         *)
(* Version strings are opaque; two collaborators outside src/ are          *)
(* parameters: the quality check (a string fails it iff it is in           *)
(* LowQuality) and git.ParseVersionRange (a string parses iff it is in     *)
(* DOMAIN ParsedRange).  Notes written to metrics are logging and are left *)
(* out.                                                                    *)
(***************************************************************************)
EXTENDS Integers, Sequences, SequencesExt

CONSTANTS
    Entries,        \* the cves.Affected.Versions entries a record may carry
    MaxEntries,     \* bound on the number of entries of the product
    LowQuality,     \* strings vulns.CheckQuality rates below acceptableQuality
    ParsedRange,    \* git.ParseVersionRange: string -> [introduced, fixed, lastAffected]
    RangeKind       \* the kind tag the variant returns (Unknown or Git)

INSTANCE VersionCommon WITH Empty <- "", Zero <- "0"

VARIABLES
    entries,               \* affected.Versions, fixed for the whole call
    i,                     \* index of the entry the scan looks at next
    pc,                    \* "scan", "pairFixed", "pairLast", "single", "done"
    unpairedIntroduced,
    unpairedFixed,
    unpairedLastAffected,
    versionRanges          \* the ranges built so far, in the order appended

vars == <<entries, i, pc, unpairedIntroduced, unpairedFixed,
          unpairedLastAffected, versionRanges>>

(* hasIntro, hasFixed, hasLastAffected: the quality gate on the three      *)
(* strings of an entry.                                                    *)
Qualifies(s) == s \notin LowQuality

hasIntro(v)        == Qualifies(v.version)
hasFixed(v)        == Qualifies(v.lessThan)
hasLastAffected(v) == Qualifies(v.lessThanOrEqual)

Parses(s) == s \in DOMAIN ParsedRange

(* Fault-injection variant: the pools skip the quality gate.               *)
CollectUngated(pool, has, s) == Append(pool, s)

(* The pools after the "collect parts of potential split ranges" step.     *)
Collect(pool, has, s) == IF has THEN Append(pool, s) ELSE pool

Init ==
    /\ entries \in UNION {[1..n -> Entries] : n \in 0..MaxEntries}
    /\ i = 1
    /\ pc = "scan"
    /\ unpairedIntroduced = <<>>
    /\ unpairedFixed = <<>>
    /\ unpairedLastAffected = <<>>
    /\ versionRanges = <<>>

Scanning == pc = "scan" /\ i <= Len(entries)

Cur == entries[i]

(* if vers.Status != "affected" { continue }                               *)
SkipNotAffected ==
    /\ Scanning
    /\ Cur.status # "affected"
    /\ i' = i + 1
    /\ UNCHANGED <<entries, pc, unpairedIntroduced, unpairedFixed,
                   unpairedLastAffected, versionRanges>>

(* An entry with a qualifying version and a qualifying upper bound is a   *)
(* self-contained range; fixed (lessThan) is preferred.                   *)
SelfContainedRange ==
    /\ Scanning
    /\ Cur.status = "affected"
    /\ hasIntro(Cur) /\ (hasFixed(Cur) \/ hasLastAffected(Cur))
    /\ versionRanges' = Append(versionRanges,
          IF hasFixed(Cur) THEN buildVersionRange(Cur.version, "", Cur.lessThan)
                           ELSE buildVersionRange(Cur.version, Cur.lessThanOrEqual, ""))
    /\ i' = i + 1
    /\ UNCHANGED <<entries, pc, unpairedIntroduced, unpairedFixed, unpairedLastAffected>>

(* Not self-contained: the three strings that pass the gate are pooled    *)
(* first, whatever follows.                                               *)
SplitEntry ==
    /\ Scanning
    /\ Cur.status = "affected"
    /\ ~(hasIntro(Cur) /\ (hasFixed(Cur) \/ hasLastAffected(Cur)))

PooledIntroduced == Collect(unpairedIntroduced, hasIntro(Cur), Cur.version)

PoolTheBounds ==
    /\ unpairedFixed' = Collect(unpairedFixed, hasFixed(Cur), Cur.lessThan)
    /\ unpairedLastAffected' =
          Collect(unpairedLastAffected, hasLastAffected(Cur), Cur.lessThanOrEqual)

(* The version parses as an embedded range with an empty introduced:      *)
(* `continue` before the deletion, so the string stays pooled.             *)
EmbeddedRangeWithoutIntroduced ==
    /\ SplitEntry
    /\ Parses(Cur.version)
    /\ ParsedRange[Cur.version].introduced = ""
    /\ unpairedIntroduced' = PooledIntroduced
    /\ PoolTheBounds
    /\ i' = i + 1
    /\ UNCHANGED <<entries, pc, versionRanges>>

(* The version parses as an embedded range: a range when it has a fixed   *)
(* or last_affected bound, and slices.DeleteFunc removes EVERY pooled     *)
(* introduced value equal to the version string.                          *)
EmbeddedRange ==
    /\ SplitEntry
    /\ Parses(Cur.version)
    /\ LET av == ParsedRange[Cur.version] IN
       /\ av.introduced # ""
       /\ versionRanges' =
            IF av.fixed # "" THEN Append(versionRanges, buildVersionRange(av.introduced, "", av.fixed))
            ELSE IF av.lastAffected # ""
                 THEN Append(versionRanges, buildVersionRange(av.introduced, av.lastAffected, ""))
                 ELSE versionRanges
    /\ unpairedIntroduced' = Remove(PooledIntroduced, Cur.version)
    /\ PoolTheBounds
    /\ i' = i + 1
    /\ UNCHANGED <<entries, pc>>

(* A git-typed entry that does not parse: an introduced-only range of its *)
(* version (whatever its quality), removed from the pool.                 *)
GitIntroducedOnly ==
    /\ SplitEntry
    /\ ~Parses(Cur.version)
    /\ toVersionRangeType(Cur.versionType) = "VersionRangeTypeGit"
    /\ versionRanges' = Append(versionRanges, buildVersionRange(Cur.version, "", ""))
    /\ unpairedIntroduced' = Remove(PooledIntroduced, Cur.version)
    /\ PoolTheBounds
    /\ i' = i + 1
    /\ UNCHANGED <<entries, pc>>

(* Any other entry only contributes its pooled parts.                     *)
SplitPart ==
    /\ SplitEntry
    /\ ~Parses(Cur.version)
    /\ toVersionRangeType(Cur.versionType) # "VersionRangeTypeGit"
    /\ unpairedIntroduced' = PooledIntroduced
    /\ PoolTheBounds
    /\ i' = i + 1
    /\ UNCHANGED <<entries, pc, versionRanges>>

EndScan ==
    /\ pc = "scan"
    /\ i > Len(entries)
    /\ pc' = "pairFixed"
    /\ UNCHANGED <<entries, i, unpairedIntroduced, unpairedFixed,
                   unpairedLastAffected, versionRanges>>

(* Exactly one unpaired introduced and one unpaired fixed: one split      *)
(* range, and both pools are cleared.                                     *)
PairIntroducedFixed ==
    /\ pc = "pairFixed"
    /\ Len(unpairedIntroduced) = 1 /\ Len(unpairedFixed) = 1
    /\ versionRanges' = Append(versionRanges,
          buildVersionRange(unpairedIntroduced[1], "", unpairedFixed[1]))
    /\ unpairedIntroduced' = <<>>
    /\ unpairedFixed' = <<>>
    /\ pc' = "pairLast"
    /\ UNCHANGED <<entries, i, unpairedLastAffected>>

SkipPairFixed ==
    /\ pc = "pairFixed"
    /\ ~(Len(unpairedIntroduced) = 1 /\ Len(unpairedFixed) = 1)
    /\ pc' = "pairLast"
    /\ UNCHANGED <<entries, i, unpairedIntroduced, unpairedFixed,
                   unpairedLastAffected, versionRanges>>

(* Fault-injection variant: pairs whenever some introduced value is pooled *)
(* (len >= 1) and clears the whole pool.                                  *)
PairIntroducedLastAffectedAnyCount ==
    /\ pc = "pairLast"
    /\ Len(unpairedIntroduced) >= 1 /\ Len(unpairedLastAffected) = 1
    /\ versionRanges' = Append(versionRanges,
          buildVersionRange(unpairedIntroduced[1], unpairedLastAffected[1], ""))
    /\ unpairedIntroduced' = <<>>
    /\ unpairedLastAffected' = <<>>
    /\ pc' = "single"
    /\ UNCHANGED <<entries, i, unpairedFixed>>

PairIntroducedLastAffected ==
    /\ pc = "pairLast"
    /\ Len(unpairedIntroduced) = 1 /\ Len(unpairedLastAffected) = 1
    /\ versionRanges' = Append(versionRanges,
          buildVersionRange(unpairedIntroduced[1], unpairedLastAffected[1], ""))
    /\ unpairedIntroduced' = <<>>
    /\ unpairedLastAffected' = <<>>
    /\ pc' = "single"
    /\ UNCHANGED <<entries, i, unpairedFixed>>

SkipPairLastAffected ==
    /\ pc = "pairLast"
    /\ ~(Len(unpairedIntroduced) = 1 /\ Len(unpairedLastAffected) = 1)
    /\ pc' = "single"
    /\ UNCHANGED <<entries, i, unpairedIntroduced, unpairedFixed,
                   unpairedLastAffected, versionRanges>>

(* Each remaining introduced value becomes (introduced=0,                 *)
(* last_affected=version).                                                *)
SingleVersion ==
    /\ pc = "single"
    /\ unpairedIntroduced # <<>>
    /\ versionRanges' = Append(versionRanges,
          buildVersionRange("0", Head(unpairedIntroduced), ""))
    /\ unpairedIntroduced' = Tail(unpairedIntroduced)
    /\ UNCHANGED <<entries, i, pc, unpairedFixed, unpairedLastAffected>>

Return ==
    /\ pc = "single"
    /\ unpairedIntroduced = <<>>
    /\ pc' = "done"
    /\ UNCHANGED <<entries, i, unpairedIntroduced, unpairedFixed,
                   unpairedLastAffected, versionRanges>>

Next ==
    \/ SkipNotAffected
    \/ SelfContainedRange
    \/ EmbeddedRangeWithoutIntroduced
    \/ EmbeddedRange
    \/ GitIntroducedOnly
    \/ SplitPart
    \/ EndScan
    \/ PairIntroducedFixed
    \/ SkipPairFixed
    \/ PairIntroducedLastAffected
    \/ SkipPairLastAffected
    \/ SingleVersion
    \/ Return

(* The loop runs in one goroutine with nothing to wait on: every enabled  *)
(* step is eventually taken.                                               *)
Spec == Init /\ [][Next]_vars /\ WF_vars(Next)

(* The value FindNormalAffectedRanges returns once pc = "done".            *)
Result == <<versionRanges, RangeKind>>

Done == pc = "done"

-----------------------------------------------------------------------------
(***************************************************************************)
(* Properties.                                                             *)
(***************************************************************************)
Strings == UNION {{e.version, e.lessThan, e.lessThanOrEqual} : e \in Entries}
             \cup UNION {{p.introduced, p.fixed, p.lastAffected} : p \in Range(ParsedRange)}
             \cup {"0"}

TypeOK ==
    /\ entries \in Seq(Entries) /\ Len(entries) <= MaxEntries
    /\ i \in 1..(MaxEntries + 1)
    /\ pc \in {"scan", "pairFixed", "pairLast", "single", "done"}
    /\ unpairedIntroduced \in Seq(Strings \ LowQuality)
    /\ unpairedFixed \in Seq(Strings \ LowQuality)
    /\ unpairedLastAffected \in Seq(Strings \ LowQuality)
    /\ \A k \in 1..Len(versionRanges) :
          LET r == versionRanges[k] IN
          /\ Len(r.events) \in 1..2
          /\ r.events[1].kind = "introduced"
          /\ \A m \in 2..Len(r.events) : r.events[m].kind \in {"fixed", "last_affected"}
          /\ Boundaries(r) \subseteq Strings

AffectedEntries == {entries[k] : k \in {m \in 1..Len(entries) : entries[m].status = "affected"}}

OutputRanges == {versionRanges[k] : k \in 1..Len(versionRanges)}

(* No confirmed-affected version is silently dropped: when the scan ends, *)
(* every affected entry whose version passes the quality gate and is not  *)
(* an embedded range is the introduced or the last_affected bound of some *)
(* returned range (self-contained, git, paired, or the single-version     *)
(* fallback), even after slices.DeleteFunc removed equal pooled values.   *)
AffectedIntroducedCovered ==
    Done =>
      \A e \in AffectedEntries :
        (hasIntro(e) /\ ~Parses(e.version)) =>
          \E r \in OutputRanges :
            e.version \in {EventValue(r, "introduced"), EventValue(r, "last_affected")}

(* spec.md 4.5: a version string that parses as an embedded range is      *)
(* consumed as that range: the returned ranges contain the range it       *)
(* describes, and the string itself is never used as a bound.  Stated for *)
(* entries without a qualifying lessThan/lessThanOrEqual, which the       *)
(* self-contained branch handles before the parse.                        *)
EmbeddedRangeHonoured ==
    Done =>
      \A e \in AffectedEntries :
        (Parses(e.version) /\ ~hasFixed(e) /\ ~hasLastAffected(e)) =>
          LET av == ParsedRange[e.version] IN
          /\ buildVersionRange(av.introduced, av.lastAffected, av.fixed) \in OutputRanges
          /\ \A r \in OutputRanges : e.version \notin Boundaries(r)

(* spec.md 4.3: the quality gate applies to every candidate string, so a  *)
(* returned bound is the literal "0", a string that passes the gate, or a *)
(* bound produced by parsing an embedded range.                           *)
QualityGated ==
    \A r \in OutputRanges :
      \A b \in Boundaries(r) :
        \/ b = "0"
        \/ Qualifies(b)
        \/ \E e \in AffectedEntries :
              Parses(e.version) /\ b \in {ParsedRange[e.version].introduced,
                                          ParsedRange[e.version].fixed,
                                          ParsedRange[e.version].lastAffected}

=============================================================================
