------------------------------ MODULE Extractors ------------------------------
(***************************************************************************)
(* One conversion of one record: VersionExtractorFactory picks the         *)
(* extractor by CNA, its ExtractVersions walks the combined affected       *)
(* products, and the caller finishes with DetermineOutcome (metrics.go).   *)
(*                                                                         *)
(* The components run as the state machines of their own modules:         *)
(* FindNormalAffectedRanges is NormalRanges, gitVersionsToCommits is       *)
(* CommitResolver, both instantiated on variables of this module, and the  *)
(* tag cache the default extractor creates once per record is the          *)
(* resolver's cache variable, shared by every call.  findInverseAffected-  *)
(* Ranges, checked in InverseRanges on part-sequence versions, enters here *)
(* through the results it can return for a product (InverseOutcomes).     *)
(* fallbackVersionExtraction's text miner is outside src/: it finds        *)
(* versions or not.  Notes and log lines are left out.                     *)
(***************************************************************************)
EXTENDS Integers, Sequences, SequencesExt

CONSTANTS
    CnaInputs,        \* cve.Containers.CNA.Affected values considered
    AdpInputs,        \* the ADP containers' Affected lists considered
    CPEInputs,        \* CNA.CPEApplicability values considered
    RepoInputs,       \* repos arguments considered
    CNAs,             \* AssignerShortName values considered
    InverseOutcomes,  \* product name -> the <<ranges, kind>> findInverseAffectedRanges may return
    LowQuality, ParsedRange, Tags, Repos

INSTANCE VersionCommon WITH Empty <- "", Zero <- "0"

VARIABLES
    cna, products, cpeInput, repos,          \* the call's inputs
    extractor,        \* "Default" or "Linux" once dispatched
    step,             \* where ExtractVersions is
    pi,               \* index of the current product
    current,          \* <<ranges, kind>> of the current product (Linux)
    gotVersions, hasGit,
    affected,         \* v.Affected
    metrics,          \* the ConversionMetrics fields this code touches
    cache,            \* repoTagsCache, shared by the resolver calls
    nrEntries, nrI, nrPc, nrUI, nrUF, nrULA, nrRanges,
    crRanges, crPc, crRi, crUnresolved, crStill, crK, crNew, crAff,
    extracted         \* history: the ranges of each product, in order

nrVars == <<nrEntries, nrI, nrPc, nrUI, nrUF, nrULA, nrRanges>>
crVars == <<crRanges, crPc, crRi, crUnresolved, crStill, crK, crNew, crAff>>
callVars == <<cna, products, cpeInput, repos, extractor, step, pi, current,
              gotVersions, hasGit, affected, metrics, extracted>>
vars == <<callVars, cache, nrVars, crVars>>

NR == INSTANCE NormalRanges
        WITH entries <- nrEntries, i <- nrI, pc <- nrPc,
             unpairedIntroduced <- nrUI, unpairedFixed <- nrUF,
             unpairedLastAffected <- nrULA, versionRanges <- nrRanges,
             Entries <- {}, MaxEntries <- 0, RangeKind <- "VersionRangeTypeUnknown"

CR == INSTANCE CommitResolver
        WITH ranges <- crRanges, pc <- crPc, ri <- crRi, unresolved <- crUnresolved,
             still <- crStill, k <- crK, newVersionRanges <- crNew, aff <- crAff,
             RangeInputs <- {}, RepoInputs <- {}

CPE == INSTANCE CPERanges

(* The VersionRangeType, VersionSource and ConversionOutcome constants.    *)
RangeKinds == {"VersionRangeTypeUnknown", "VersionRangeTypeGit",
               "VersionRangeTypeSemver", "VersionRangeTypeEcosystem"}

Sources == {"NOVERS", "CVEAFFVERS", "GITVERS", "CPEVERS", "DESCRVERS"}

Outcomes == {"ConversionUnknown", "Successful", "Rejected", "NoSoftware", "NoRepos",
             "NoCommitRanges", "NoRanges", "FixUnresolvable"}

(* The ConversionMetrics fields this code reads or writes, zero-valued     *)
(* except Repos, which the caller fills with the candidate repositories.   *)
NewMetrics(rs) ==
    [Repos |-> rs, VersionSources |-> <<>>, CPEs |-> {},
     ResolvedRangesCount |-> 0, UnresolvedRangesCount |-> 0,
     Outcome |-> "ConversionUnknown"]

(* VersionExtractorFactory.GetVersionExtractor                             *)
GetVersionExtractor(c) == IF c = "Linux" THEN "Linux" ELSE "Default"

(* FindNormalAffectedRanges of each extractor tags its result this way.    *)
NormalKind == IF extractor = "Linux" THEN "VersionRangeTypeGit" ELSE "VersionRangeTypeUnknown"

Init ==
    /\ cna \in CNAs
    /\ \E c \in CnaInputs, a \in AdpInputs : products = combineAffected(c, a)
    /\ cpeInput \in CPEInputs
    /\ repos \in RepoInputs
    /\ extractor = "none"
    /\ step = "dispatch"
    /\ pi = 1
    /\ current = <<<<>>, "VersionRangeTypeUnknown">>
    /\ gotVersions = FALSE
    /\ hasGit = FALSE
    /\ affected = <<>>
    /\ metrics = NewMetrics(repos)
    /\ cache = {}
    /\ nrEntries = <<>> /\ nrI = 1 /\ nrPc = "done"
    /\ nrUI = <<>> /\ nrUF = <<>> /\ nrULA = <<>> /\ nrRanges = <<>>
    /\ crRanges = <<>> /\ crPc = "done" /\ crRi = 1 /\ crUnresolved = <<>>
    /\ crStill = <<>> /\ crK = 1 /\ crNew = <<>> /\ crAff = <<>>
    /\ extracted = <<>>

Dispatch ==
    /\ step = "dispatch"
    /\ extractor' = GetVersionExtractor(cna)
    /\ step' = "product"
    /\ UNCHANGED <<cna, products, cpeInput, repos, pi, current, gotVersions, hasGit,
                   affected, metrics, extracted, cache, nrVars, crVars>>

(* metrics.VersionSources = append(metrics.VersionSources, src), written  *)
(* out at each place that records a source.                              *)
AddSource(src) == metrics' = [metrics EXCEPT !.VersionSources = Append(@, src)]

(* The resolver's call frame at entry, on the given ranges.                *)
StartResolve(rs) ==
    /\ crRanges' = rs /\ crPc' = "repo" /\ crRi' = 1 /\ crUnresolved' = rs
    /\ crStill' = <<>> /\ crK' = 1 /\ crNew' = <<>> /\ crAff' = <<>>

(* ------------------------- the product loop -------------------------- *)

(* The next product goes through FindNormalAffectedRanges: every product   *)
(* for the default extractor, a product whose default status is not        *)
(* "affected" for the Linux one.                                            *)
StartNormal ==
    /\ step = "product"
    /\ pi <= Len(products)
    /\ extractor = "Default" \/ products[pi].defaultStatus # "affected"
    /\ nrEntries' = products[pi].versions /\ nrI' = 1 /\ nrPc' = "scan"
    /\ nrUI' = <<>> /\ nrUF' = <<>> /\ nrULA' = <<>> /\ nrRanges' = <<>>
    /\ step' = "normal"
    /\ UNCHANGED <<cna, products, cpeInput, repos, extractor, pi, current,
                   gotVersions, hasGit, affected, metrics, extracted, cache, crVars>>

NormalStep ==
    /\ step = "normal"
    /\ NR!Next
    /\ UNCHANGED <<callVars, cache, crVars>>

(* Linux, default status "affected": findInverseAffectedRanges.            *)
StartInverse ==
    /\ step = "product"
    /\ pi <= Len(products)
    /\ extractor = "Linux" /\ products[pi].defaultStatus = "affected"
    /\ current' \in InverseOutcomes[products[pi].name]
    /\ step' = "linux"
    /\ UNCHANGED <<cna, products, cpeInput, repos, extractor, pi, gotVersions,
                   hasGit, affected, metrics, extracted, cache, nrVars, crVars>>

(* What the product yielded, for the properties.                           *)
Record(rs, kind) ==
    extracted' = Append(extracted, [ranges |-> rs, kind |-> kind, repo |-> products[pi].repo])

NextProduct == pi' = pi + 1 /\ step' = "product"

(* Fault-injection variant: the source is tagged before the empty check.  *)
DefaultSkipEmptyTagged ==
    /\ step = "normal" /\ nrPc = "done" /\ extractor = "Default"
    /\ nrRanges = <<>>
    /\ Record(nrRanges, NormalKind)
    /\ AddSource("CVEAFFVERS")
    /\ NextProduct
    /\ UNCHANGED <<cna, products, cpeInput, repos, extractor, current, gotVersions,
                   hasGit, affected, cache, nrVars, crVars>>

(* Fault-injection variant: gotVersions is set before the empty check.    *)
DefaultSkipEmptyCounted ==
    /\ step = "normal" /\ nrPc = "done" /\ extractor = "Default"
    /\ nrRanges = <<>>
    /\ gotVersions' = TRUE
    /\ Record(nrRanges, NormalKind)
    /\ NextProduct
    /\ UNCHANGED <<cna, products, cpeInput, repos, extractor, current,
                   hasGit, affected, metrics, cache, nrVars, crVars>>

(* Default: if len(versionRanges) == 0 { continue }                        *)
DefaultSkipEmpty ==
    /\ step = "normal" /\ nrPc = "done" /\ extractor = "Default"
    /\ nrRanges = <<>>
    /\ Record(nrRanges, NormalKind)
    /\ NextProduct
    /\ UNCHANGED <<cna, products, cpeInput, repos, extractor, current, gotVersions,
                   hasGit, affected, metrics, cache, nrVars, crVars>>

(* Default: gotVersions = true; gitVersionsToCommits(...) on the ranges.   *)
DefaultResolve ==
    /\ step = "normal" /\ nrPc = "done" /\ extractor = "Default"
    /\ nrRanges # <<>>
    /\ gotVersions' = TRUE
    /\ Record(nrRanges, NormalKind)
    /\ StartResolve(nrRanges)
    /\ step' = "resolve"
    /\ UNCHANGED <<cna, products, cpeInput, repos, extractor, pi, current, hasGit,
                   affected, metrics, cache, nrVars>>

ResolveStep ==
    /\ step \in {"resolve", "cpeResolve"}
    /\ CR!Next
    /\ UNCHANGED <<callVars, nrVars>>

(* The osvschema.Affected gitVersionsToCommits returns; the error is only  *)
(* logged by the caller.                                                   *)
Resolved == [ranges |-> crAff[1].ranges, unresolved |-> crAff[1].unresolved, package |-> ""]

(* Fault-injection variant: an Affected is dropped when err is set.       *)
DefaultAppendUnlessError ==
    /\ step = "resolve" /\ crPc = "done"
    /\ affected' = IF crAff[1].err THEN affected ELSE Append(affected, Resolved)
    /\ AddSource("CVEAFFVERS")
    /\ NextProduct
    /\ UNCHANGED <<cna, products, cpeInput, repos, extractor, current, gotVersions,
                   hasGit, extracted, cache, nrVars, crVars>>

(* v.Affected = append(v.Affected, aff), whatever err was; the source tag. *)
DefaultAppend ==
    /\ step = "resolve" /\ crPc = "done"
    /\ affected' = Append(affected, Resolved)
    /\ AddSource("CVEAFFVERS")
    /\ NextProduct
    /\ UNCHANGED <<cna, products, cpeInput, repos, extractor, current, gotVersions,
                   hasGit, extracted, cache, nrVars, crVars>>

(* Linux: the normal ranges come back tagged git.                          *)
LinuxNormalDone ==
    /\ step = "normal" /\ nrPc = "done" /\ extractor = "Linux"
    /\ current' = <<nrRanges, NormalKind>>
    /\ step' = "linux"
    /\ UNCHANGED <<cna, products, cpeInput, repos, extractor, pi, gotVersions, hasGit,
                   affected, metrics, extracted, cache, nrVars, crVars>>

IsGit == current[2] = "VersionRangeTypeGit"

(* Fault-injection variant: non-git ranges are left untyped.              *)
LinuxEntryUntyped(rs, git, repo) ==
    [ranges |-> [j \in 1..Len(rs) |->
                   IF git THEN [rs[j] EXCEPT !.type = "GIT", !.repo = repo] ELSE rs[j]],
     unresolved |-> <<>>,
     package |-> IF git THEN "" ELSE "Linux/Kernel"]

(* Each range typed GIT with the product's repo, or ECOSYSTEM; non-git     *)
(* entries carry the Linux/Kernel package.                                 *)
LinuxEntry(rs, git, repo) ==
    [ranges |-> [j \in 1..Len(rs) |->
                   IF git THEN [rs[j] EXCEPT !.type = "GIT", !.repo = repo]
                          ELSE [rs[j] EXCEPT !.type = "ECOSYSTEM"]],
     unresolved |-> <<>>,
     package |-> IF git THEN "" ELSE "Linux/Kernel"]

(* if versionType == VersionRangeTypeGit && hasGit { continue }            *)
LinuxSkipGit ==
    /\ step = "linux"
    /\ IsGit /\ hasGit
    /\ Record(current[1], current[2])
    /\ NextProduct
    /\ UNCHANGED <<cna, products, cpeInput, repos, extractor, current, gotVersions,
                   hasGit, affected, metrics, cache, nrVars, crVars>>

(* if len(versionRanges) == 0 { continue }                                 *)
LinuxSkipEmpty ==
    /\ step = "linux"
    /\ ~(IsGit /\ hasGit) /\ current[1] = <<>>
    /\ Record(current[1], current[2])
    /\ NextProduct
    /\ UNCHANGED <<cna, products, cpeInput, repos, extractor, current, gotVersions,
                   hasGit, affected, metrics, cache, nrVars, crVars>>

(* Fault-injection variant: hasGit is never set.                          *)
LinuxAcceptNoFlag ==
    /\ step = "linux"
    /\ ~(IsGit /\ hasGit) /\ current[1] # <<>>
    /\ gotVersions' = TRUE
    /\ affected' = Append(affected, LinuxEntry(current[1], IsGit, products[pi].repo))
    /\ AddSource("CVEAFFVERS")
    /\ Record(current[1], current[2])
    /\ NextProduct
    /\ UNCHANGED <<cna, products, cpeInput, repos, extractor, current, hasGit, cache, nrVars, crVars>>

LinuxAccept ==
    /\ step = "linux"
    /\ ~(IsGit /\ hasGit) /\ current[1] # <<>>
    /\ gotVersions' = TRUE
    /\ hasGit' = (hasGit \/ IsGit)
    /\ affected' = Append(affected, LinuxEntry(current[1], IsGit, products[pi].repo))
    /\ AddSource("CVEAFFVERS")
    /\ Record(current[1], current[2])
    /\ NextProduct
    /\ UNCHANGED <<cna, products, cpeInput, repos, extractor, current, cache, nrVars, crVars>>

(* -------------------- after the loop, and the outcome ----------------- *)

(* if !gotVersions: the default extractor tries the CPEs, the Linux one    *)
(* the description text.                                                   *)
EndProducts ==
    /\ step = "product"
    /\ pi > Len(products)
    /\ step' = IF gotVersions THEN "classify"
               ELSE IF extractor = "Default" THEN "cpe" ELSE "fallback"
    /\ UNCHANGED <<cna, products, cpeInput, repos, extractor, pi, current, gotVersions,
                   hasGit, affected, metrics, extracted, cache, nrVars, crVars>>

CPEResult == CPE!findCPEVersionRanges(cpeInput)

(* cpeVersionExtraction found ranges: it records the CPE source and sets   *)
(* metrics.CPEs to the unique criteria (vulns.Unique, order left out);     *)
(* the ranges go to gitVersionsToCommits with the same tag cache.          *)
CPEFound ==
    /\ step = "cpe"
    /\ ~CPEResult.err
    /\ metrics' = [metrics EXCEPT !.VersionSources = Append(@, "CPEVERS"),
                                  !.CPEs = Range(CPEResult.cpes)]
    /\ gotVersions' = TRUE
    /\ extracted' = Append(extracted, [ranges |-> CPEResult.ranges,
                                       kind |-> "VersionRangeTypeUnknown", repo |-> ""])
    /\ StartResolve(CPEResult.ranges)
    /\ step' = "cpeResolve"
    /\ UNCHANGED <<cna, products, cpeInput, repos, extractor, pi, current, hasGit,
                   affected, cache, nrVars>>

(* No CPE range: the error becomes a note; the description fallback is    *)
(* commented out in the default extractor.                                 *)
CPENone ==
    /\ step = "cpe"
    /\ CPEResult.err
    /\ step' = "classify"
    /\ UNCHANGED <<cna, products, cpeInput, repos, extractor, pi, current, gotVersions,
                   hasGit, affected, metrics, extracted, cache, nrVars, crVars>>

CPEAppend ==
    /\ step = "cpeResolve" /\ crPc = "done"
    /\ affected' = Append(affected, Resolved)
    /\ step' = "classify"
    /\ UNCHANGED <<cna, products, cpeInput, repos, extractor, pi, current, gotVersions,
                   hasGit, metrics, extracted, cache, nrVars, crVars>>

(* fallbackVersionExtraction: the source is recorded when the text miner   *)
(* finds versions; the versions themselves are dropped.                    *)
Fallback ==
    /\ step = "fallback"
    /\ \E found \in BOOLEAN :
          metrics' = IF found THEN [metrics EXCEPT !.VersionSources = Append(@, "DESCRVERS")]
                              ELSE metrics
    /\ step' = "classify"
    /\ UNCHANGED <<cna, products, cpeInput, repos, extractor, pi, current, gotVersions,
                   hasGit, affected, extracted, cache, nrVars, crVars>>

(* models.DetermineOutcome                                                 *)
DetermineOutcome(m) ==
    IF m.Repos = <<>> THEN "NoRepos"
    ELSE IF m.ResolvedRangesCount > 0 THEN "Successful"
    ELSE IF m.UnresolvedRangesCount > 0 THEN "NoCommitRanges"
    ELSE "NoRanges"

Classify ==
    /\ step = "classify"
    /\ metrics' = [metrics EXCEPT !.Outcome = DetermineOutcome(metrics)]
    /\ step' = "done"
    /\ UNCHANGED <<cna, products, cpeInput, repos, extractor, pi, current, gotVersions,
                   hasGit, affected, extracted, cache, nrVars, crVars>>

Next ==
    \/ Dispatch
    \/ StartNormal \/ NormalStep \/ StartInverse
    \/ DefaultSkipEmpty \/ DefaultResolve \/ ResolveStep \/ DefaultAppend
    \/ LinuxNormalDone \/ LinuxSkipGit \/ LinuxSkipEmpty \/ LinuxAccept
    \/ EndProducts \/ CPEFound \/ CPENone \/ CPEAppend \/ Fallback
    \/ Classify

(* One goroutine per record; the collaborators (tag fetch, text miner)     *)
(* return, successfully or not: weak fairness on every step.               *)
Spec == Init /\ [][Next]_vars /\ WF_vars(Next)

Done == step = "done"

-----------------------------------------------------------------------------
(***************************************************************************)
(* Properties.                                                             *)
(***************************************************************************)
TypeOK ==
    /\ step \in {"dispatch", "product", "normal", "linux", "resolve", "cpe",
                 "cpeResolve", "fallback", "classify", "done"}
    /\ pi \in 1..(Len(products) + 1)
    /\ current[2] \in RangeKinds
    /\ metrics.Outcome \in Outcomes
    /\ \A j \in 1..Len(metrics.VersionSources) : metrics.VersionSources[j] \in Sources
    /\ \A j \in 1..Len(affected) :
          /\ affected[j].package \in {"", "Linux/Kernel"}
          /\ \A m \in 1..Len(affected[j].ranges) :
                affected[j].ranges[m].type \in {"GIT", "ECOSYSTEM"}

(* spec.md 4.5: when the product loop ends, the default extractor falls   *)
(* back to the CPE statements, and the kernel one to the description text, *)
(* exactly when the loop produced no Affected entry.  gotVersions is set   *)
(* before resolution (strategies.go:75) and the Affected is appended       *)
(* whatever the resolver returned, so a product whose ranges all failed to *)
(* resolve still counts; an empty product, or a git result discarded after *)
(* the first, never does.                                                  *)
FallbackIffNoOutput ==
    [][(step = "product" /\ step' \in {"cpe", "fallback", "classify"})
         => (step' # "classify" <=> affected = <<>>)]_vars

(* Across products and the CPE fallback, with one tag cache shared by all  *)
(* resolver calls and any of its fetches failing, every range the default  *)
(* extractor extracted ends up exactly once in the record: resolved (its   *)
(* original events kept) or listed as unresolved.                          *)
RangesAccounted ==
    (Done /\ extractor = "Default") =>
      ToBag(FlattenSeq([j \in 1..Len(extracted) |-> extracted[j].ranges])) =
        ToBag(FlattenSeq([j \in 1..Len(affected) |->
                 CR!Origins(affected[j].ranges) \o affected[j].unresolved]))

(* The source log and the output agree: every Affected entry has exactly   *)
(* one from-affected or from-CPE tag, and no such tag is logged for a      *)
(* product or a CPE list that gave no entry.                               *)
OneSourcePerAffected ==
    Done => Len(affected) = Len(SelectSeq(metrics.VersionSources,
                                          LAMBDA src : src # "DESCRVERS"))

(* spec.md 4.5, kernel variant: the first product with git-kind ranges is  *)
(* the only git entry, every product with other ranges gives an entry, in *)
(* product order, typed by kind and tagged with the product's repository. *)
FirstGit ==
    LET gs == {j \in 1..Len(extracted) :
                 extracted[j].kind = "VersionRangeTypeGit" /\ extracted[j].ranges # <<>>}
    IN IF gs = {} THEN 0 ELSE CHOOSE j \in gs : \A m \in gs : j <= m

Kept(j) ==
    /\ extracted[j].ranges # <<>>
    /\ extracted[j].kind # "VersionRangeTypeGit" \/ j = FirstGit

FirstGitWins ==
    (Done /\ extractor = "Linux") =>
      LET ks == SelectSeq([j \in 1..Len(extracted) |-> j], Kept)
      IN affected = [m \in 1..Len(ks) |->
                       LinuxEntry(extracted[ks[m]].ranges,
                                  extracted[ks[m]].kind = "VersionRangeTypeGit",
                                  extracted[ks[m]].repo)]

(* spec.md 4.8 and its end-to-end example: with candidate repositories     *)
(* and a range resolved to commits, the outcome is "successful".           *)
OutcomeReflectsResolution ==
    (Done /\ metrics.Repos # <<>> /\ \E j \in 1..Len(affected) : affected[j].ranges # <<>>)
      => metrics.Outcome = "Successful"

(* OSV git ranges name a repository and commits: every GIT-typed range in  *)
(* the output has a repository and only commits (or "0") as its events.    *)
Commits == UNION {Range(Tags[r]) : r \in Repos} \cup {"0"}

GitRangesResolved ==
    \A j \in 1..Len(affected) : \A m \in 1..Len(affected[j].ranges) :
      LET r == affected[j].ranges[m] IN
      r.type = "GIT" => (r.repo # "" /\ Boundaries(r) \subseteq Commits)

(* spec.md 4.4: when the default extractor falls back to the CPEs, it      *)
(* hands the resolver one range per vulnerable entry of an OR node.        *)
CPERangePerVulnerableEntry ==
    step = "cpeResolve" => Len(CPEResult.ranges) = Len(CPE!OrMatches(cpeInput))

====
