# TLA+ models of the cvelist2osv version extraction

This directory holds TLA+ models of the version-extraction part of
`src/vulnfeeds/cmd/cvelist2osv` and the conversion metrics in
`src/vulnfeeds/models/metrics.go`. Each run is checked with TLC.

## The system

A CVE 5 record is turned into OSV `affected` entries in the following steps:

1. **Extractor choice.** `VersionExtractorFactory.GetVersionExtractor` picks
   the Linux extractor for CNA `Linux` and the default extractor for
   everyone else.
2. **Products.** `combineAffected` concatenates the CNA's and the ADPs'
   affected products.
3. **Ranges per product.** For each product the extractor computes version
   ranges.
   - `FindNormalAffectedRanges` scans the product's version statements and
     builds a range at once from each self-contained statement.
   - It pools the halves of split statements and pairs the pools when there
     is exactly one of each.
   - Any remaining introduced version becomes a single-version range.
   - The Linux extractor uses `findInverseAffectedRanges` instead when the
     product's default status is `affected`. That function derives ranges
     from the *unaffected* statements:
     - it sorts the introduced and fixed versions with `compareSemverLike`;
     - it prepends an implicit `0`;
     - it pairs the two lists by position.
4. **Commit resolution.** The default extractor passes each product's
   ranges to `gitVersionsToCommits`.
   - That function walks the candidate repositories in order and normalises
     each repository's tags through a per-advisory cache.
   - It rebuilds each still-unresolved range as a git range against the
     first repository whose tags resolve its bounds.
   - The ranges left over go to `DatabaseSpecific["unresolved_versions"]`.
   - If no product yields ranges, the default extractor falls back to the
     CPE ranges (`findCPEVersionRanges`).
   - The Linux extractor keeps the first git-kind product only.
5. **Notes and outcome.** `ConversionMetrics` collects notes and sources.
   `DetermineOutcome` classifies the result.

### State and what is hard

| Part | State | Hard behaviour |
|---|---|---|
| FindNormalAffectedRanges | three string pools and the ranges list | `DeleteFunc` removes *every* equal pooled value; `continue`s skip the deletion; pairing only when counts are exactly 1 |
| findInverseAffectedRanges | introduced, fixed lists | unstable sort of equal-comparing strings; implicit `0`; positional pairing of uneven lists; hint parsing |
| gitVersionsToCommits | repository index, working lists, tag cache (survives across calls) | normalisation failures; per-event lookup failures; first-repository-wins; the break and the list swap; the error rule |
| compareSemverLike | none | non-numeric parts are 0; trailing zero parts; must be a consistent order for sorting |
| ExtractVersions (both) | gotVersions, hasGit, shared tag cache | CPE fallback; first git product wins; `aff` appended on error |
| DetermineOutcome | metrics counters | reads counters that nothing in `src/` sets |

Everything runs in one goroutine. The hazards are therefore the order of
inputs, the branches of long loops, and failures of the collaborators:
tag normalisation and version lookup.

## Modules

- **`VersionCommon`** holds the data model and the pure helpers of
  `common.go`:
  - `buildVersionRange`, `toVersionRangeType`, `combineAffected` and
    `compareSemverLike` are operators.
  - `SortedPermutations` models `slices.SortFunc`: every sorted permutation
    is a possible result, because the sort is not stable.
  - A version is abstract. `Empty` and `Zero` are the Go `""` and `"0"`.
    Opaque modules use strings. The inverse module uses the part sequence
    that `strings.Split(v, ".")` returns.
- **`NormalRanges`** models `FindNormalAffectedRanges`:
  - The program counter runs scan → pairFixed → pairLast → single → done.
  - There is one action per branch of the loop body (for example
    `SelfContainedRange`, `EmbeddedRange`, `EmbeddedRangeWithoutIntroduced`,
    `GitIntroducedOnly` and `SplitPart`), one per pairing decision, and one
    per fallback iteration.
  - `vulns.CheckQuality` is the constant `LowQuality`, and
    `git.ParseVersionRange` is the constant `ParsedRange`. Both are outside
    `src/`.
  - The Linux copy of the function differs only in the kind it returns
    (constant `RangeKind`).
- **`InverseRanges`** models `findInverseAffectedRanges`: the CNA check,
  the scan, the sort, the prepend, the pairing and the return.
  - A reference section defines what a record declares. A released
    version is affected unless an `unaffected` statement covers it: by
    `lessThan`, by a `X.Y.*` branch hint, by `*`, or by exact match.
- **`CommitResolution`** is the abstract specification of
  `gitVersionsToCommits`. In one step it returns a result in which:
  - each range is rebuilt against the first normalised repository that
    resolves it;
  - the resolved ranges are grouped per repository, in input order;
  - the unresolved ranges keep their input order;
  - `err` holds exactly when nothing resolved and something was given.

  It follows the code, not the doc comment at version_extraction.go:21,
  which says the same commit is never added twice: identical input ranges
  give identical commit ranges (run commit_resolver_dedup).
- **`CommitResolver`** is the loop of `gitVersionsToCommits`.
  - `NormalizeFails` and `Normalized` model `git.NormalizeRepoTags`. A
    cached repository always normalises. Any other repository may fail
    (nothing is cached) or succeed and be cached.
  - The initial cache is any subset, as left by earlier products of the
    same advisory.
  - It instantiates `CommitResolution` with `out <- aff` and checks the
    abstract `Spec` as a property (refinement).
- **`CPERanges`** models `findCPEVersionRanges` as operators:
  - `OrMatches` gives the vulnerable matches of OR nodes;
  - `MatchRange` gives the range of one match;
  - the result record holds the ranges, the CPE strings and the error.

  The module has no state. `Extractors` instantiates it on the record's
  CPE statements.
- **`Extractors`** models one call of `ExtractVersions` on one record,
  for either extractor. It composes two machines by `INSTANCE ... WITH`,
  each with its variables renamed:
  - `NormalRanges`, with `nr*` variables;
  - `CommitResolver`, with `cr*` variables. The resolver's `cache` is the
    extractor's own variable, so the tag cache survives from one product to
    the next and into the CPE fallback, as `cache` does in the code.

  Each product takes these steps:
  - `Dispatch` (the factory);
  - `StartNormal` or `StartInverse`;
  - the `NormalRanges` steps;
  - `DefaultSkipEmpty` / `DefaultResolve` / `ResolveStep*` /
    `DefaultAppend`, or `LinuxSkipGit` / `LinuxSkipEmpty` / `LinuxAccept`.

  When the products are exhausted:
  - `CPEFound` / `CPENone` / `CPEAppend` (default extractor), or
    `Fallback` (Linux);
  - `Classify` (`DetermineOutcome`).

  `findInverseAffectedRanges` works on version part sequences. Here it
  enters through the constant `InverseOutcomes`: the results it can
  return for each product, which the InverseRanges run checks.

  `metrics` is a record of `VersionSources`, `CPEs`, the two counters,
  `Repos` and `Outcome`. `Repos` is set by the caller to the candidate
  repositories, and nothing in `src/` sets the counters. `extracted` is a
  history variable that records what was handed to the resolver.
- **`SemverCompare`** is stateless: `MatchesReference` compares
  `compareSemverLike` with a zero-padding reference on every pair of
  versions. `MC_InverseRanges` instantiates it, since the sort of
  `findInverseAffectedRanges` is where the comparator is used.
- **`MC_*`** modules give the constants finite values.

## Runs

| Run | Checks | Result |
|---|---|---|
| normal_ranges | TypeOK, AffectedIntroducedCovered | pass (about 1.5M states): every affected plain version ends up as a bound of some range, through pairing or the single-version fallback |
| normal_ranges_embedded | EmbeddedRangeHonoured | violation: `">= 1.1"` parses to an introduced bound with neither fixed nor last_affected, so no range is built and the string is deleted from the pool (strategies.go:156–162): the entry's versions are in no range (spec.md 4.5 says it is consumed as the range it encodes) |
| normal_ranges_quality | QualityGated | violation: a git-typed `"n/a"` becomes an introduced bound (spec.md 4.3 says every candidate is quality-gated) |
| commit_resolver | TypeOK, RangesConserved, ImplementsCommitResolution | pass: no range is lost or duplicated while the working lists are swapped, and the loop refines the one-step `CommitResolution` |
| commit_resolver_dedup | NoDuplicateCommitRanges | violation: two identical input ranges resolved in one repository give the same commit range twice; the doc comment (version_extraction.go:21) says the same commit is never added twice |
| inverse_ranges | TypeOK, NoFalsePositive, ComparatorMatchesReference | pass: no inverse range covers a release the record declares unaffected; `compareSemverLike` agrees with the reference on every pair of versions of 1–3 parts |
| inverse_ranges_coverage | AffectedCovered | violation: when the mainline fix is typed `original_commit_for_fix`, it is skipped (version_extraction.go:152), so the record's affected versions end up in no range |
| default_extractor_cpe | CPERangePerVulnerableEntry | violation: on the CPE fallback, a vulnerable OR match without an upper bound records its CPE but yields no range (common.go:169; spec.md 4.4 says one range per entry) |
| default_extractor | RangesAccounted, OneSourcePerAffected, FallbackIffNoOutput | pass: every range sent to the resolver ends up once, resolved or unresolved; one CVEAFFVERS/CPEVERS source per entry; the CPE fallback runs exactly when the product loop gave no entry, even when every product range failed to resolve |
| default_extractor_outcome | OutcomeReflectsResolution | violation: a conversion that resolved a range is classified NoRanges because nothing increments the counters `DetermineOutcome` reads (metrics.go:116) |
| linux_extractor | TypeOK, FirstGitWins | pass: the output is exactly the first non-empty git result plus every non-empty non-git result, in order |
| linux_extractor_git | GitRangesResolved | violation: Linux GIT ranges keep version strings and may have an empty repository; they never pass through `gitVersionsToCommits` (strategies.go:229) |

Every property of a passing run also has a mutant: a plausible bug in the
modelled code, listed in `PROJECT.json`, that TLC must catch.

### Bounds

- **NormalRanges:** products of up to 3 statements. Each statement is drawn
  from:
  - the statuses affected and unaffected;
  - the version types semver and git;
  - seven version strings: empty, filler, two plain versions, and three
    embedded ranges, one of them without an introduced version;
  - optional `lessThan` and `lessThanOrEqual`.

  Three entries suffice for the two-intro / one-bound shapes that exercise
  the pairing, for the `DeleteFunc` of an equal pooled value, and for every
  fallback.
- **CommitResolver:** up to 3 ranges of 4 shapes and up to 3 repositories
  (repeats allowed) over 2 distinct repositories with different tags, so
  both the "first repository wins" and the "retry in the next repository"
  paths occur. The initial cache is any subset.
- **InverseRanges:** Linux-shaped records over the releases 1.0, 1.1, 2.0
  and 2.1, each built from:
  - an introduced release;
  - stable fixes for any subset of the branches up to the mainline fix;
  - a mainline fix of either type.

  There are also three special records: a non-Linux CNA, a four-part
  affected version, and fixes without hints. The universe of released
  versions includes patch levels 0–2.
- **DefaultExtractor:**
  - a CNA with up to one product and an ADP with up to one product;
  - products from four shapes: a fixed range, a last_affected range, a
    split pair, and nothing affected;
  - no CPE statement; a bounded OR match beside a vulnerable AND node; or
    an OR node whose second vulnerable match has no upper bound;
  - up to two repositories, in either order, with different tags.

  Two products share the cache. Each path occurs: resolved, unresolved,
  CPE fallback taken, and CPE fallback not taken.
- **LinuxExtractor:** up to three products (two from the CNA, one from an
  ADP), drawn from five shapes:
  - a git repository;
  - no repository;
  - nothing affected;
  - an inverse result with ranges;
  - an inverse result without ranges.

  So two git results can compete, and an empty git result can come before
  a non-empty one.
- **SemverCompare** (in the inverse_ranges run): every pair of versions
  of 1–3 parts over `{0, 1, 2, SX}`, where `SX` is non-numeric.

### Fairness

Every function runs to completion in one goroutine. The only calls it
waits on (tag normalisation and lookup) return, successfully or not, and
the model already covers both outcomes. Weak fairness on `Next` is
therefore what the code guarantees, and the specifications keep it.
No liveness property is checked: every loop is a `for ... range` over a
finite slice, so termination holds by construction of the code. The
functions return, so the runs set `CHECK_DEADLOCK FALSE`.

## Not modelled

- **The inverse function inside the composition.** In `Extractors`,
  `findInverseAffectedRanges` is the set of results it may return
  (`InverseOutcomes`). The function itself is checked in `InverseRanges`.
- **The text miner of `fallbackVersionExtraction`.** It is outside `src/`.
  The `Fallback` action chooses whether it found versions. The function
  always returns no ranges.
- **Logging, notes and formatting.** `AddNote` (metrics.go:69–91), logging,
  and `VersionRangeType.String` are left out.
  - The notes are free text for offline review.
  - Every failure path that adds a note is modelled by its effect on the
    ranges, and nothing in `src/` reads the notes back.
  - This is why the metrics component is only partly modelled.
- **Signed version parts.** `Atoi` accepts a sign, and the comparator
  is checked over unsigned parts only. With a part such as `-1` the order
  is not transitive, because `"1.0.-1" > "1.0" == "1.0.0" > "1.0.-1"`.
  Version parts in CVE records are unsigned, so the run keeps to those.
  The case is listed as a hazard (common.go:139).
- **Several records.** Each conversion starts with a fresh cache and fresh
  metrics. Nothing is shared between records, so one record is enough.

## Plan

1. **Done:** VersionCommon, SemverCompare, NormalRanges, InverseRanges,
   CommitResolution and CommitResolver.
2. **Done:** CPERanges, and Extractors composing NormalRanges and
   CommitResolver for both extractors, with the CPE fallback and
   `DetermineOutcome`.
3. **Done:** the fallback condition of both extractors, as an action
   property checked when the product loop ends (`FallbackIffNoOutput`,
   strategies.go:75), and the enumerations of `common.go` and
   `metrics.go` (`RangeKinds`, `Sources`, `Outcomes`, `NewMetrics`).
4. **Done:** the signed-part behaviour of `compareSemverLike`, which is
   shown to break the ordering and recorded as a hazard.
5. **Left open, and why:**
   - The Linux extractor's text fallback and source recording are
     exercised by the run but not checked by a property of their own;
     the default extractor's run checks the same fallback rule.
   - An abstract specification of `ExtractVersions` would only restate
     `FirstGitWins` and `RangesAccounted`. Those already relate the output
     to the per-product results.
   - The notes log is free text, which no code or property reads back.
   - Everything else in `src/` that changes state is an action of a module
     above.
