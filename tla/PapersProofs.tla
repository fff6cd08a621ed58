---------------------------- MODULE PapersProofs ----------------------------
(***************************************************************************)
(* Theorems about AuditPapers: what the linters of three phases say        *)
(* together of an issued report, for every plan, draft, evaluation and     *)
(* bound.                                                                  *)
(***************************************************************************)
EXTENDS AuditPapers, SequenceTheorems, FiniteSetTheorems, WellFoundedInduction, TLAPS

---------------------------------------------------------------------------
(* Violations.                                                             *)

\* A part of what passes passes.
LEMMA PassedPart ==
    ASSUME NEW V, Passed(V), NEW W \in SUBSET V
    PROVE  Passed(W)
    BY DEF Passed, Errors

\* A rule that passes is not broken.
LEMMA RuleHolds ==
    ASSUME NEW condition \in BOOLEAN, NEW rule, NEW subject,
           Passed(Broken(condition, rule, subject))
    PROVE  ~ condition
<1>1. SUFFICES ASSUME condition PROVE FALSE
    OBVIOUS
<1>2. Violation(rule, subject) \in Broken(condition, rule, subject)
    BY <1>1 DEF Broken
<1>3. Violation(rule, subject).severity = "error"
    BY DEF Violation
<1> QED
    BY <1>2, <1>3 DEF Passed, Errors

\* All distortion traps are errors.
LEMMA TrapsPass ==
    ASSUME NEW f, NEW c, Passed(LintDistortionTraps(f, c))
    PROVE  LintDistortionTraps(f, c) = {}
<1>1. \A v \in LintDistortionTraps(f, c) : v.severity = "error"
    <2> SUFFICES ASSUME NEW v \in LintDistortionTraps(f, c) PROVE v.severity = "error"
        OBVIOUS
    <2>1. PICK rule \in {"TRAP-1", "TRAP-2", "TRAP-3", "TRAP-4", "TRAP-5"} :
            v = Violation(rule, {f.control})
        BY DEF LintDistortionTraps, Broken
    <2> QED
        BY <2>1 DEF Violation
<1> QED
    BY <1>1 DEF Passed, Errors

---------------------------------------------------------------------------
(* Sequences.                                                              *)

\* Numbers that are not none have a least one.
LEMMA LeastNumber ==
    ASSUME NEW S \in SUBSET Nat, S # {}
    PROVE  \E m \in S : \A k \in S : m <= k
<1> DEFINE R == {ss \in Nat \X Nat : ss[1] < ss[2]}
<1>1. IsWellFoundedOn(R, Nat)
    BY NatLessThanWellFounded DEF OpToRel
<1>2. PICK m \in S : \A k \in S : ~ (<<k, m>> \in R)
    <2> HIDE DEF R
    <2> QED
        BY <1>1, WFMin, Zenon
<1>3. ASSUME NEW k \in S PROVE m <= k
    <2>1. k \in Nat /\ m \in Nat
        OBVIOUS
    <2>2. k < m => <<k, m>> \in R
        BY <2>1
    <2> QED
        BY <2>1, <2>2, <1>2
<1> QED
    BY <1>3

\* A set of indices has a least and a greatest element.
LEMMA EndsOfIndices ==
    ASSUME NEW n \in Nat, NEW S \in SUBSET (1..n), S # {}
    PROVE  Max(S) \in S /\ Min(S) \in S
<1> DEFINE T == {n - i : i \in S}
<1>1. T \in SUBSET Nat /\ T # {}
    <2>1. ASSUME NEW i \in S PROVE n - i \in Nat
        <3>1. i \in 1..n
            OBVIOUS
        <3> QED
            BY <3>1
    <2> QED
        BY <2>1
<1>2. PICK m \in T : \A k \in T : m <= k
    <2> HIDE DEF T
    <2> QED
        BY <1>1, LeastNumber
<1>3. PICK x \in S : m = n - x
    OBVIOUS
<1>4. ASSUME NEW y \in S PROVE x >= y
    <2>1. n - y \in T
        OBVIOUS
    <2>2. m <= n - y
        BY <1>2, <2>1
    <2>3. x \in 1..n /\ y \in 1..n
        OBVIOUS
    <2> QED
        BY <1>3, <2>2, <2>3
<1>5. Max(S) \in S
    BY <1>4 DEF Max
<1>6. PICK l \in S : \A k \in S : l <= k
    BY LeastNumber
<1>7. Min(S) \in S
    BY <1>6 DEF Min
<1> QED
    BY <1>5, <1>7

\* What is put together from sequences is a sequence of their elements.
LEMMA FlattenedIsSeq ==
    ASSUME NEW S, NEW seqs \in Seq(Seq(S))
    PROVE  FlattenSeq(seqs) \in Seq(S)
<1> DEFINE n == Len(seqs)
           Body(k, f) == [i \in 1..k |-> IF i = 1 THEN seqs[i] ELSE f[i - 1] \o seqs[i]]
           Good(k) == \E f \in [1..k -> Seq(S)] : f = Body(k, f)
<1>1. n \in Nat /\ \A i \in 1..n : seqs[i] \in Seq(S)
    OBVIOUS
<1>2. CASE n = 0
    BY <1>2 DEF FlattenSeq
<1>3. CASE n # 0
    <2>1. \A k \in 1..n : Good(k)
        <3>1. Good(1)
            <4> DEFINE g == [i \in 1..1 |-> seqs[1]]
            <4>1. g \in [1..1 -> Seq(S)]
                BY <1>1, <1>3
            <4>2. g = Body(1, g)
                OBVIOUS
            <4> QED
                BY <4>1, <4>2
        <3>2. ASSUME NEW k \in 2..n, Good(k - 1) PROVE Good(k)
            <4>1. PICK f \in [1..(k - 1) -> Seq(S)] : f = Body(k - 1, f)
                BY <3>2
            <4> DEFINE g == [i \in 1..k |-> IF i = k THEN f[k - 1] \o seqs[k] ELSE f[i]]
            <4>2. k - 1 \in 1..(k - 1) /\ k \in 1..n
                BY <1>1
            <4>3. f[k - 1] \o seqs[k] \in Seq(S)
                BY <1>1, <4>2
            <4>4. g \in [1..k -> Seq(S)]
                BY <4>3
            <4>5. \A i \in 1..k : g[i] = Body(k, g)[i]
                <5> SUFFICES ASSUME NEW i \in 1..k PROVE g[i] = Body(k, g)[i]
                    OBVIOUS
                <5>1. CASE i = k
                    <6>1. g[k - 1] = f[k - 1] /\ k - 1 \in 1..k /\ k \in 1..k /\ k # 1
                        BY <4>2
                    <6>2. g[k] = f[k - 1] \o seqs[k]
                        BY <6>1
                    <6>3. Body(k, g)[k] = g[k - 1] \o seqs[k]
                        <7> HIDE DEF g
                        <7> QED
                            BY <6>1
                    <6> HIDE DEF g, Body
                    <6> QED
                        BY <5>1, <6>1, <6>2, <6>3
                <5>2. CASE i # k
                    <6>1. i \in 1..(k - 1)
                        BY <5>2
                    <6>2. f[i] = Body(k - 1, f)[i]
                        BY <4>1
                    <6>3. f[i] = IF i = 1 THEN seqs[i] ELSE f[i - 1] \o seqs[i]
                        BY <6>1, <6>2
                    <6>4. i # 1 => g[i - 1] = f[i - 1]
                        BY <6>1
                    <6> QED
                        BY <5>2, <6>3, <6>4
                <5> QED
                    BY <5>1, <5>2
            <4>6. g = Body(k, g)
                <5> HIDE DEF g
                <5> QED
                    BY <4>4, <4>5
            <4> QED
                BY <4>4, <4>6
        <3> HIDE DEF Good
        <3> DEFINE Bad == {k \in 1..n : ~ Good(k)}
        <3>3. SUFFICES ASSUME Bad # {} PROVE FALSE
            OBVIOUS
        <3>4. PICK m \in Bad : \A k \in Bad : m <= k
            <4>1. Bad \in SUBSET Nat
                BY <1>1
            <4> HIDE DEF Bad
            <4> QED
                BY <3>3, <4>1, LeastNumber
        <3>5. m \in 1..n /\ ~ Good(m)
            OBVIOUS
        <3>6. CASE m = 1
            BY <3>1, <3>5, <3>6
        <3>7. CASE m # 1
            <4>1. m \in 2..n /\ m - 1 \in 1..n
                BY <1>1, <3>5, <3>7
            <4>2. m - 1 \notin Bad
                BY <1>1, <3>4, <4>1
            <4> QED
                BY <3>2, <3>5, <4>1, <4>2
        <3> QED
            BY <3>6, <3>7
    <2>2. PICK f \in [1..n -> Seq(S)] : f = Body(n, f)
        <3>1. n \in 1..n
            BY <1>1, <1>3
        <3>2. Good(n)
            BY <2>1, <3>1
        <3> QED
            BY <3>2
    <2> DEFINE flatten == CHOOSE g : g = Body(n, g)
    <2>3. flatten = Body(n, flatten)
        <3> HIDE DEF Body
        <3> QED
            BY <2>2
    <2>4. FlattenSeq(seqs) = flatten[n]
        BY <1>3 DEF FlattenSeq
    <2> HIDE DEF flatten
    <2>5. \A i \in 1..n : flatten[i] \in Seq(S)
        <3> DEFINE Bad == {i \in 1..n : flatten[i] \notin Seq(S)}
        <3>1. SUFFICES ASSUME Bad # {} PROVE FALSE
            OBVIOUS
        <3>2. PICK m \in Bad : \A k \in Bad : m <= k
            <4>1. Bad \in SUBSET Nat
                BY <1>1
            <4> HIDE DEF Bad
            <4> QED
                BY <3>1, <4>1, LeastNumber
        <3>3. m \in 1..n /\ flatten[m] \notin Seq(S)
            OBVIOUS
        <3>4. flatten[m] = IF m = 1 THEN seqs[m] ELSE flatten[m - 1] \o seqs[m]
            BY <2>3, <3>3
        <3>5. m # 1
            BY <1>1, <3>3, <3>4
        <3>6. m - 1 \in 1..n /\ m - 1 \notin Bad
            BY <1>1, <3>2, <3>3, <3>5
        <3>7. flatten[m - 1] \in Seq(S) /\ seqs[m] \in Seq(S)
            BY <1>1, <3>3, <3>6
        <3> QED
            BY <3>3, <3>4, <3>5, <3>7
    <2> QED
        BY <1>1, <1>3, <2>4, <2>5
<1> QED
    BY <1>2, <1>3

---------------------------------------------------------------------------
(* Controls and findings.                                                  *)

\* The controls and findings that this audit may have, and its risks.
SampledControls == {Sampled(c, rating, n) : c \in Planned, rating \in Ratings, n \in Populations}
PlannedIds == {c.id : c \in Planned}
PaperFindings == Drafts \cup {NotTested(id) : id \in PlannedIds}
RiskType == [id : ToSet(Risks), standards : BOOLEAN, controls : Seq(SampledControls)]

\* A sample is laid over a control, which keeps its other attributes.
LEMMA SampledIsControl ==
    ASSUME NEW c, IsControl(c), NEW rating, NEW population
    PROVE  LET s == Sampled(c, rating, population)
               size == RecommendedSampleSize(c.frequency, c.nature, rating)
           IN  /\ IsControl(s) /\ s.id = c.id
               /\ s.nature = c.nature /\ s.frequency = c.frequency
               /\ s.size = SampleSelection(population, size).size
               /\ s.method = SampleSelection(population, size).method
<1> DEFINE sample == SampleSelection(population,
                                     RecommendedSampleSize(c.frequency, c.nature, rating))
<1>1. PICK m, k : m = sample.method /\ k = sample.size
    OBVIOUS
<1> HIDE DEF sample
<1>2. Sampled(c, rating, population) = [c EXCEPT !.size = k, !.method = m]
    BY <1>1 DEF Sampled, sample
<1>3. PICK s : s = [c EXCEPT !.size = k, !.method = m]
    OBVIOUS
<1>4. /\ DOMAIN c = {"id", "nature", "frequency", "method", "size", "minimum", "period",
                     "change_mgmt", "ipe", "steps", "complete", "procedure", "slop"}
      /\ c = [x \in DOMAIN c |-> c[x]]
    BY DEF IsControl
<1>5. /\ DOMAIN s = DOMAIN c
      /\ \A x \in DOMAIN c : s[x] = IF x = "method" THEN m ELSE IF x = "size" THEN k ELSE c[x]
    BY <1>3, <1>4
<1>6. IsControl(s)
    BY <1>3, <1>4, <1>5 DEF IsControl
<1>7. s.id = c.id /\ s.nature = c.nature /\ s.frequency = c.frequency /\ s.size = k /\ s.method = m
    BY <1>4, <1>5
<1> QED
    BY <1>1, <1>2, <1>3, <1>6, <1>7 DEF sample

\* The controls of a plan are a sequence of such controls.
LEMMA ControlsAreSampled ==
    ASSUME NEW plan \in Seq(RiskType)
    PROVE  /\ ControlsOf(plan) \in Seq(SampledControls)
           /\ \A c \in ToSet(ControlsOf(plan)) : IsControl(c) /\ c.id \in PlannedIds
<1> DEFINE seqs == [r \in DOMAIN plan |-> plan[r].controls]
<1>1. seqs \in Seq(Seq(SampledControls))
    <2>1. \A r \in 1..Len(plan) : plan[r] \in RiskType
        OBVIOUS
    <2>2. \A risk \in RiskType : risk.controls \in Seq(SampledControls)
        BY DEF RiskType
    <2>3. \A r \in 1..Len(plan) : plan[r].controls \in Seq(SampledControls)
        BY <2>1, <2>2
    <2> QED
        BY <2>3
<1>2. ControlsOf(plan) \in Seq(SampledControls)
    <2> HIDE DEF seqs
    <2>1. FlattenSeq(seqs) \in Seq(SampledControls)
        BY <1>1, FlattenedIsSeq
    <2> QED
        BY <2>1 DEF ControlsOf, seqs
<1>3. ASSUME NEW c \in SampledControls PROVE IsControl(c) /\ c.id \in PlannedIds
    <2>1. PICK p \in Planned, rating \in Ratings, n \in Populations : c = Sampled(p, rating, n)
        BY DEF SampledControls
    <2>2. IsControl(p) /\ p.id \in PlannedIds
        BY AuditPapersAssumption DEF PlannedIds
    <2> QED
        BY <2>1, <2>2, SampledIsControl
<1>4. \A c \in ToSet(ControlsOf(plan)) : c \in SampledControls
    BY <1>2 DEF ToSet
<1> QED
    BY <1>2, <1>3, <1>4

\* In a plan without duplicate IDs, the control looked up by an ID is the one that has it.
LEMMA ControlIsFound ==
    ASSUME NEW plan \in Seq(RiskType), DuplicateIds(plan) = {},
           NEW c \in ToSet(ControlsOf(plan))
    PROVE  ControlOf(plan, c.id) = c
<1> DEFINE controls == ControlsOf(plan)
           I == {i \in 1..Len(controls) : controls[i].id = c.id}
<1>1. controls \in Seq(SampledControls)
    BY ControlsAreSampled
<1> HIDE DEF controls
<1>2. Len(controls) \in Nat /\ DOMAIN controls = 1..Len(controls)
    BY <1>1
<1>3. PICK k \in 1..Len(controls) : c = controls[k]
    BY <1>2 DEF ToSet, controls
<1>4. \A i, j \in 1..Len(controls) : controls[i].id = controls[j].id => i = j
    <2> SUFFICES ASSUME NEW i \in 1..Len(controls), NEW j \in 1..Len(controls),
                        controls[i].id = controls[j].id, i # j
                 PROVE  FALSE
        OBVIOUS
    <2>1. ASSUME NEW l \in 1..Len(controls), NEW m \in 1..Len(controls), l < m,
                 controls[l].id = controls[m].id
          PROVE  FALSE
        <3>1. controls[l].id \in Repeated(controls)
            BY <1>2, <2>1 DEF Repeated
        <3> QED
            BY <3>1 DEF DuplicateIds, controls
    <2> QED
        BY <1>2, <2>1
<1>5. I = {k}
    BY <1>3, <1>4
<1>6. Max(I) = k
    BY <1>2, <1>5, EndsOfIndices
<1>7. c.id \in RacmIds(plan)
    BY DEF RacmIds
<1>8. SelectLastInSeq(controls, LAMBDA d : d.id = c.id) = k
    <2> HIDE DEF I
    <2>1. SelectLastInSeq(controls, LAMBDA d : d.id = c.id) = IF I # {} THEN Max(I) ELSE 0
        BY DEF SelectLastInSeq, I
    <2> QED
        BY <1>5, <1>6, <2>1
<1> QED
    BY <1>3, <1>7, <1>8 DEF ControlOf, controls

\* The finding looked up by the ID of a control is one of its findings.
LEMMA FindingIsFound ==
    ASSUME NEW S, NEW findings \in Seq(S), NEW id \in FindingIds(findings)
    PROVE  \E i \in DOMAIN findings :
              findings[i].control = id /\ FindingOf(findings, id) = findings[i]
<1> DEFINE I == {i \in 1..Len(findings) : findings[i].control = id}
<1>1. Len(findings) \in Nat /\ DOMAIN findings = 1..Len(findings)
    OBVIOUS
<1>2. I # {} /\ I \in SUBSET (1..Len(findings))
    BY <1>1 DEF FindingIds, ToSet
<1>3. Max(I) \in I
    <2> HIDE DEF I
    <2> QED
        BY <1>1, <1>2, EndsOfIndices
<1>4. SelectLastInSeq(findings, LAMBDA f : f.control = id) = Max(I)
    BY <1>2 DEF SelectLastInSeq
<1> QED
    BY <1>1, <1>3, <1>4 DEF FindingOf

\* Every finding of the papers is a record that the validator accepts.
LEMMA FindingsAreConsistent ==
    ASSUME NEW f \in PaperFindings
    PROVE  IsFinding(f) /\ Consistent(f)
<1>1. CASE f \in Drafts
    BY <1>1, AuditPapersAssumption
<1>2. CASE \E id \in PlannedIds : f = NotTested(id)
    <2>1. PICK id \in PlannedIds : f = NotTested(id)
        BY <1>2
    <2>2. DeriveResult("Not-tested", "Not-tested", NotGiven) = "Not-tested"
        BY DEF DeriveResult, OrZero
    <2>3. f = [control |-> id, tod |-> "Not-tested", toe |-> "Not-tested",
               tested |-> NotGiven, exceptions |-> NotGiven, result |-> "Not-tested",
               prelim |-> FALSE, quote |-> "none", measured |-> 0, verified |-> FALSE,
               collected |-> NotGiven, basis |-> "none", slop |-> FALSE]
        BY <2>1, <2>2 DEF NotTested, Finding
    <2>4. IsFinding(f)
        BY <2>3 DEF IsFinding
    <2>5. Consistent(f)
        BY <2>2, <2>3 DEF Consistent
    <2> QED
        BY <2>4, <2>5
<1> QED
    BY <1>1, <1>2 DEF PaperFindings

---------------------------------------------------------------------------
(* Samples.                                                                *)

\* A control of another frequency and nature is a control.
Retyped(c, frequency, nature) == [c EXCEPT !.frequency = frequency, !.nature = nature]

LEMMA RetypedIsControl ==
    ASSUME NEW c, IsControl(c), NEW f, NEW n
    PROVE  /\ IsControl(Retyped(c, f, n))
           /\ Retyped(c, f, n).frequency = f /\ Retyped(c, f, n).nature = n
<1> DEFINE d == Retyped(c, f, n)
<1>1. /\ DOMAIN c = {"id", "nature", "frequency", "method", "size", "minimum", "period",
                     "change_mgmt", "ipe", "steps", "complete", "procedure", "slop"}
      /\ c = [x \in DOMAIN c |-> c[x]]
    BY DEF IsControl
<1>2. /\ DOMAIN d = DOMAIN c
      /\ \A x \in DOMAIN c : d[x] = IF x = "nature" THEN n ELSE IF x = "frequency" THEN f ELSE c[x]
      /\ d = [x \in DOMAIN c |-> d[x]]
    BY <1>1 DEF Retyped
<1> HIDE DEF d
<1>3. IsControl(d)
    BY <1>1, <1>2 DEF IsControl
<1>4. d.frequency = f /\ d.nature = n
    BY <1>1, <1>2
<1> QED
    BY <1>3, <1>4 DEF d

\* The sizes of _SAMPLE_TABLE reach the minima of the linter, and only an annual control
\* is tested once.
LEMMA SizesReachTheMinimum ==
    ASSUME NEW f \in Frequencies, NEW i \in 1..2, NEW n, n = SampleTable[f][i],
           NEW m, m = MinimumSampleSize[f]
    PROVE  n \in Nat \ {0} /\ m \in Nat /\ n >= m /\ (n = 1 => f = "Annual")
<1>1. PICK t : t = SampleTable[f]
    OBVIOUS
<1>2. /\ f = "Annual" => t = <<1, 1>> /\ m = 1
      /\ f = "Quarterly" => t = <<2, 2>> /\ m = 2
      /\ f = "Monthly" => t = <<2, 5>> /\ m = 2
      /\ f = "Weekly" => t = <<5, 15>> /\ m = 5
    BY <1>1 DEF SampleTable, MinimumSampleSize
<1>3. /\ f = "Daily" => t = <<20, 40>> /\ m = 20
      /\ f = "Continuous" => t = <<25, 45>> /\ m = 1
      /\ f = "Multiple-times-per-day" => t = <<25, 60>> /\ m = 25
      /\ f = "Event-driven" => t = <<5, 15>> /\ m = 1
    BY <1>1 DEF SampleTable, MinimumSampleSize
<1>4. n = t[i]
    BY <1>1
<1>5. CASE f \in {"Annual", "Quarterly", "Monthly", "Weekly"}
    BY <1>2, <1>4, <1>5
<1>6. CASE f \in {"Daily", "Continuous", "Multiple-times-per-day", "Event-driven"}
    BY <1>3, <1>4, <1>6
<1> QED
    BY <1>5, <1>6 DEF Frequencies

\* A sample of a population that is not empty is all of it, or has the given size.
LEMMA SelectedSample ==
    ASSUME NEW wanted \in Nat \ {0}, NEW population \in Nat \ {0}
    PROVE  /\ wanted >= population =>
                SampleSelection(population, wanted).method = "Full-population"
           /\ wanted < population =>
                /\ SampleSelection(population, wanted).size = wanted
                /\ SampleSelection(population, wanted).method = "Test-of-one" => wanted = 1
<1>1. wanted > 0 /\ population > 0
    OBVIOUS
<1>2. wanted >= population => SampleSelection(population, wanted).method = "Full-population"
    BY <1>1 DEF SampleSelection
<1>3. wanted < population => SampleSelection(population, wanted).size = wanted
    BY <1>1 DEF SampleSelection
<1>4. wanted < population /\ wanted # 1 => SampleSelection(population, wanted).method = "Random"
    BY <1>1 DEF SampleSelection
<1> QED
    BY <1>2, <1>3, <1>4

\* A recommended sample breaks no rule.
LEMMA SamplePasses ==
    ASSUME NEW d, IsControl(d), d.frequency \in Frequencies, d.nature \in Natures,
           NEW rating \in Ratings, NEW population \in 1..65
    PROVE  SampleViolations(Sampled(d, rating, population)) = {}
<1>1. PICK s : s = Sampled(d, rating, population)
    OBVIOUS
<1>2. PICK wanted : wanted = RecommendedSampleSize(d.frequency, d.nature, rating)
    OBVIOUS
<1>3. /\ s.frequency = d.frequency /\ s.nature = d.nature
      /\ s.size = SampleSelection(population, wanted).size
      /\ s.method = SampleSelection(population, wanted).method
    BY <1>1, <1>2, SampledIsControl
<1>4. CASE d.nature = "Automated"
    <2>1. ~ ByHand(s)
        BY <1>3, <1>4 DEF ByHand
    <2>2. SampleViolations(s) = {}
        BY <2>1 DEF SampleViolations, Broken
    <2> QED
        BY <1>1, <2>2
<1>5. CASE d.nature # "Automated"
    <2>1. PICK i \in 1..2 : wanted = SampleTable[d.frequency][i]
        BY <1>2, <1>5 DEF RecommendedSampleSize
    <2>2. /\ wanted \in Nat /\ wanted # 0 /\ MinimumSampleSize[s.frequency] \in Nat
          /\ wanted >= MinimumSampleSize[s.frequency] /\ (wanted = 1 => s.frequency = "Annual")
        BY <1>3, <2>1, SizesReachTheMinimum
    <2>3. CASE wanted >= population
        <3>1. s.method = "Full-population"
            BY <1>3, <2>2, <2>3, SelectedSample
        <3>2. SampleViolations(s) = {}
            BY <3>1 DEF SampleViolations, Broken
        <3> QED
            BY <1>1, <3>2
    <2>4. CASE wanted < population
        <3>1. s.size = wanted /\ (s.method = "Test-of-one" => s.frequency = "Annual")
            BY <1>3, <2>2, <2>4, SelectedSample
        <3>2. ~ s.size < MinimumSampleSize[s.frequency]
            BY <2>2, <3>1
        <3>3. SampleViolations(s) = {}
            BY <3>1, <3>2 DEF SampleViolations, Broken
        <3> QED
            BY <1>1, <3>3
    <2> QED
        BY <2>2, <2>3, <2>4
<1> QED
    BY <1>4, <1>5

---------------------------------------------------------------------------
(* The invariant: types, and what each stage has passed.                   *)

PapersTypeOK ==
    /\ stage \in {"planning", "fieldwork", "reporting", "issued"}
    /\ racm \in Seq(RiskType)
    /\ papers \in Seq(PaperFindings)
    /\ evaluations \in Seq(Evaluations)

\* The linters of the phases before the stage have passed what it has now.
StagesPassed ==
    /\ stage # "planning" => Passed(LintRacm(racm, TRUE))
    /\ stage \in {"reporting", "issued"} =>
          Unverified(papers) = {} /\ Passed(LintWorkingPapers(papers, racm, FALSE))
    /\ stage = "issued" =>
          \E prose \in Proses, scale \in DOMAIN ScaleClassifications :
             Passed(LintReport(evaluations, prose, EffectiveWorkingPapers, racm, scale))

PapersIInv == PapersTypeOK /\ StagesPassed

\* The findings for controls that nobody tested are a sequence of findings.
LEMMA UnmappedIsSeq ==
    ASSUME NEW plan \in Seq(RiskType), NEW mapped
    PROVE  SetToSeq(ResolveUnmapped(plan, mapped)) \in Seq(PaperFindings)
<1> DEFINE controls == ControlsOf(plan)
           U == ResolveUnmapped(plan, mapped)
<1>1. controls \in Seq(SampledControls) /\ \A c \in ToSet(controls) : c.id \in PlannedIds
    BY ControlsAreSampled
<1>2. Len(controls) \in Nat /\ DOMAIN controls = 1..Len(controls)
    BY <1>1
<1>3. IsFiniteSet(U)
    <2> DEFINE F == [i \in 1..Len(controls) |-> NotTested(controls[i].id)]
               V == {F[i] : i \in 1..Len(controls)}
    <2>1. F \in Surjection(1..Len(controls), V)
        BY DEF Surjection
    <2>2. IsFiniteSet(1..Len(controls))
        BY <1>2, FS_Interval
    <2>3. IsFiniteSet(V)
        <3> HIDE DEF F, V
        <3> QED
            BY <2>1, <2>2, FS_Surjection
    <2>4. U \subseteq V
        BY <1>2 DEF ResolveUnmapped, RacmIds, ToSet
    <2> QED
        <3> HIDE DEF U, V
        <3> QED
            BY <2>3, <2>4, FS_Subset
<1>4. U \subseteq PaperFindings
    BY <1>1 DEF ResolveUnmapped, RacmIds, PaperFindings
<1> HIDE DEF U
<1> DEFINE n == Cardinality(U)
<1>5. n \in Nat /\ ExistsBijection(1..n, U)
    BY <1>3, FS_CardinalityType
<1>6. \E f \in [1..n -> U] : IsInjective(f)
    BY <1>5 DEF ExistsBijection, Bijection, Injection, IsInjective
<1>7. SetToSeq(U) \in [1..n -> U]
    BY <1>6 DEF SetToSeq
<1> QED
    BY <1>4, <1>5, <1>7 DEF U

\* Repairs put findings of the repaired papers in the places of others.
LEMMA MergedIsSeq ==
    ASSUME NEW findings \in Seq(PaperFindings), NEW finding \in PaperFindings
    PROVE  MergeRepairs(findings, <<finding>>) \in Seq(PaperFindings)
<1>1. <<finding>> \in Seq(PaperFindings)
    OBVIOUS
<1>2. \A id \in FindingIds(<<finding>>) : FindingOf(<<finding>>, id) \in PaperFindings
    <2> SUFFICES ASSUME NEW id \in FindingIds(<<finding>>)
                 PROVE  FindingOf(<<finding>>, id) \in PaperFindings
        OBVIOUS
    <2>1. PICK one : one = <<finding>>
        OBVIOUS
    <2>2. one \in Seq(PaperFindings) /\ id \in FindingIds(one)
        BY <1>1, <2>1
    <2>3. PICK i \in DOMAIN one : FindingOf(one, id) = one[i]
        BY <2>2, FindingIsFound
    <2>4. one[i] \in PaperFindings
        BY <2>2
    <2> QED
        BY <2>1, <2>3, <2>4
<1>3. PICK F : F = [id \in FindingIds(<<finding>>) |-> FindingOf(<<finding>>, id)]
    OBVIOUS
<1>4. \A id \in FindingIds(<<finding>>) : F[id] \in PaperFindings
    BY <1>2, <1>3
<1>5. MergeRepairs(findings, <<finding>>)
        = [i \in 1..Len(findings) |->
              IF findings[i].control \in FindingIds(<<finding>>) THEN F[findings[i].control]
              ELSE findings[i]]
    BY <1>3 DEF MergeRepairs
<1>6. Len(findings) \in Nat /\ \A i \in 1..Len(findings) : findings[i] \in PaperFindings
    OBVIOUS
<1> QED
    BY <1>4, <1>5, <1>6

\* The plan, papers and evaluations keep their types.
LEMMA PapersTypeInvariant ==
    ASSUME PapersTypeOK, [AuditPapersNext]_papers_vars
    PROVE  PapersTypeOK'
<1> USE DEF PapersTypeOK
<1>1. CASE PlanRisk
    <2> DEFINE risk == [id |-> Risks[Len(racm) + 1], standards |-> FALSE, controls |-> <<>>]
    <2>1. Len(racm) + 1 \in 1..2
        BY <1>1 DEF PlanRisk, Risks
    <2>2. Risks[Len(racm) + 1] \in ToSet(Risks)
        BY <2>1 DEF Risks, ToSet
    <2>3. risk \in RiskType
        BY <2>2 DEF RiskType
    <2>4. racm' = Append(racm, risk) /\ UNCHANGED <<stage, papers, withdrawn, evaluations>>
        BY <1>1 DEF PlanRisk
    <2> QED
        BY <2>3, <2>4
<1>2. ASSUME NEW c \in Planned, NEW rating \in Ratings, NEW n \in Populations,
             PlanControl(c, rating, n)
      PROVE  PapersTypeOK'
    <2>1. PICK s : s = Sampled(c, rating, n)
        OBVIOUS
    <2>2. s \in SampledControls
        BY <2>1 DEF SampledControls
    <2> DEFINE l == Len(racm)
    <2>3. l \in 1..l /\ racm[l] \in RiskType
        BY <1>2 DEF PlanControl
    <2>4. racm' = [racm EXCEPT ![l] = [racm[l] EXCEPT !.controls = Append(racm[l].controls, s)]]
        BY <1>2, <2>1 DEF PlanControl
    <2>5. [racm[l] EXCEPT !.controls = Append(racm[l].controls, s)] \in RiskType
        <3>1. PICK r \in RiskType : r = racm[l]
            BY <2>3
        <3>2. r.controls \in Seq(SampledControls)
            BY DEF RiskType
        <3>3. PICK cs \in Seq(SampledControls) : cs = Append(r.controls, s)
            BY <2>2, <3>2, AppendProperties
        <3>4. [r EXCEPT !.controls = cs] \in RiskType
            BY DEF RiskType
        <3> QED
            BY <3>1, <3>3, <3>4
    <2>6. racm' \in Seq(RiskType)
        BY <2>3, <2>4, <2>5
    <2> QED
        BY <1>2, <2>6 DEF PlanControl
<1>3. CASE SubmitRacm
    <2>1. \/ stage' = "fieldwork" /\ racm' = racm
          \/ racm' = <<>> /\ stage' = stage
        BY <1>3 DEF SubmitRacm
    <2>2. UNCHANGED <<papers, withdrawn, evaluations>>
        BY <1>3 DEF SubmitRacm
    <2>3. <<>> \in Seq(RiskType)
        OBVIOUS
    <2>4. racm' \in Seq(RiskType)
        BY <2>1, <2>3
    <2>5. stage' \in {"planning", "fieldwork", "reporting", "issued"}
        BY <2>1
    <2> QED
        BY <2>2, <2>4, <2>5
<1>4. ASSUME NEW f \in Drafts, DraftFinding(f) PROVE PapersTypeOK'
    <2>1. f \in PaperFindings
        BY DEF PaperFindings
    <2> QED
        BY <1>4, <2>1 DEF DraftFinding
<1>5. ASSUME NEW f \in Drafts, RepairFinding(f) PROVE PapersTypeOK'
    <2>1. f \in PaperFindings
        BY DEF PaperFindings
    <2>2. papers' = MergeRepairs(papers, <<f>>) /\ UNCHANGED <<stage, racm, withdrawn, evaluations>>
        BY <1>5 DEF RepairFinding
    <2>3. papers' \in Seq(PaperFindings)
        BY <2>1, <2>2, MergedIsSeq
    <2> QED
        BY <2>2, <2>3
<1>6. CASE AddUnmapped
    <2>1. PICK added : /\ added = SetToSeq(ResolveUnmapped(racm, FindingIds(papers)))
                       /\ papers' = papers \o added
        BY <1>6 DEF AddUnmapped
    <2>2. added \in Seq(PaperFindings)
        BY <2>1, UnmappedIsSeq
    <2>3. papers' \in Seq(PaperFindings)
        BY <2>1, <2>2
    <2> QED
        BY <1>6, <2>3 DEF AddUnmapped
<1>7. CASE SubmitPapers
    <2>1. \/ stage' = "reporting" /\ papers' = papers
          \/ papers' = <<>> /\ stage' = stage
        BY <1>7 DEF SubmitPapers
    <2>2. UNCHANGED <<racm, withdrawn, evaluations>>
        BY <1>7 DEF SubmitPapers
    <2>3. <<>> \in Seq(PaperFindings)
        OBVIOUS
    <2>4. papers' \in Seq(PaperFindings)
        BY <2>1, <2>3
    <2>5. stage' \in {"planning", "fieldwork", "reporting", "issued"}
        BY <2>1
    <2> QED
        BY <2>2, <2>4, <2>5
<1>8. ASSUME NEW id, Withdraw(id) PROVE PapersTypeOK'
    BY <1>8 DEF Withdraw
<1>9. ASSUME NEW ev \in Evaluations, Evaluate(ev) PROVE PapersTypeOK'
    BY <1>9 DEF Evaluate
<1>10. ASSUME NEW prose, NEW scale, SubmitReport(prose, scale) PROVE PapersTypeOK'
    <2>1. \/ stage' = "issued" /\ evaluations' = evaluations
          \/ evaluations' = <<>> /\ stage' = stage
        BY <1>10 DEF SubmitReport
    <2>2. UNCHANGED <<racm, papers, withdrawn>>
        BY <1>10 DEF SubmitReport
    <2>3. <<>> \in Seq(Evaluations)
        OBVIOUS
    <2>4. evaluations' \in Seq(Evaluations)
        BY <2>1, <2>3
    <2>5. stage' \in {"planning", "fieldwork", "reporting", "issued"}
        BY <2>1
    <2> QED
        BY <2>2, <2>4, <2>5
<1>11. CASE UNCHANGED papers_vars
    BY <1>11 DEF papers_vars
<1> QED
    BY <1>1, <1>2, <1>3, <1>4, <1>5, <1>6, <1>7, <1>8, <1>9, <1>10, <1>11 DEF AuditPapersNext

\* A stage is entered past its linter, and what the linter passed stays as it was.
LEMMA StagesInvariant ==
    ASSUME PapersTypeOK, StagesPassed, [AuditPapersNext]_papers_vars
    PROVE  StagesPassed'
<1>1. CASE PlanRisk
    BY <1>1 DEF PlanRisk, StagesPassed
<1>2. ASSUME NEW c, NEW rating, NEW n, PlanControl(c, rating, n) PROVE StagesPassed'
    BY <1>2 DEF PlanControl, StagesPassed
<1>3. CASE SubmitRacm
    BY <1>3 DEF SubmitRacm, StagesPassed
<1>4. ASSUME NEW f, DraftFinding(f) PROVE StagesPassed'
    BY <1>4 DEF DraftFinding, StagesPassed
<1>5. ASSUME NEW f, RepairFinding(f) PROVE StagesPassed'
    BY <1>5 DEF RepairFinding, StagesPassed
<1>6. CASE AddUnmapped
    BY <1>6 DEF AddUnmapped, StagesPassed
<1>7. CASE SubmitPapers
    BY <1>7 DEF SubmitPapers, StagesPassed
<1>8. ASSUME NEW id, Withdraw(id) PROVE StagesPassed'
    BY <1>8 DEF Withdraw, StagesPassed
<1>9. ASSUME NEW ev \in Evaluations, Evaluate(ev) PROVE StagesPassed'
    BY <1>9 DEF Evaluate, StagesPassed
<1>10. ASSUME NEW prose \in Proses, NEW scale \in DOMAIN ScaleClassifications,
              SubmitReport(prose, scale)
       PROVE  StagesPassed'
    <2>1. CASE stage' = "issued"
        <3>1. Passed(LintReport(evaluations, prose, EffectiveWorkingPapers, racm, scale))
            BY <1>10, <2>1 DEF SubmitReport
        <3>2. EffectiveWorkingPapers' = EffectiveWorkingPapers
            BY <1>10 DEF SubmitReport, EffectiveWorkingPapers, Effective, FirstOf, SelectInSeq
        <3>3. evaluations' = evaluations /\ racm' = racm /\ papers' = papers /\ stage = "reporting"
            BY <1>10, <2>1 DEF SubmitReport
        <3>4. Passed(LintReport(evaluations', prose, EffectiveWorkingPapers', racm', scale))
            BY <3>1, <3>2, <3>3
        <3> QED
            BY <2>1, <3>3, <3>4 DEF StagesPassed
    <2>2. CASE stage' # "issued"
        BY <1>10, <2>2 DEF SubmitReport, StagesPassed
    <2> QED
        BY <2>1, <2>2
<1>11. CASE UNCHANGED papers_vars
    BY <1>11 DEF papers_vars, StagesPassed, EffectiveWorkingPapers, Effective, FirstOf, SelectInSeq
<1> QED
    BY <1>1, <1>2, <1>3, <1>4, <1>5, <1>6, <1>7, <1>8, <1>9, <1>10, <1>11 DEF AuditPapersNext

LEMMA PapersAlways == AuditPapersSpec => []PapersIInv
<1>1. AuditPapersInit => PapersIInv
    BY DEF AuditPapersInit, PapersIInv, PapersTypeOK, StagesPassed
<1>2. PapersIInv /\ [AuditPapersNext]_papers_vars => PapersIInv'
    BY PapersTypeInvariant, StagesInvariant DEF PapersIInv
<1> QED
    BY <1>1, <1>2, PTL DEF AuditPapersSpec

---------------------------------------------------------------------------
(* Theorems.                                                               *)

\* A plan, papers and evaluations are what the crews of their phases drafted, and each
\* stage is entered past the linter of the last.
THEOREM PapersAreTyped == AuditPapersSpec => [](PapersTypeOK /\ StagesPassed)
    BY PapersAlways, PTL DEF PapersIInv

\* The linter never rejects a control for a sample that sampling.py recommends for it.
THEOREM SamplesPass == AuditPapersSpec => []RecommendedSamplesPass
<1>1. ASSUME PapersIInv PROVE RecommendedSamplesPass
    <2> SUFFICES ASSUME NEW c \in ToSet(ControlsOf(racm)), NEW rating \in Ratings,
                        NEW population \in 1..65, NEW frequency \in Frequencies,
                        NEW nature \in Natures
                 PROVE  SampleViolations(Sampled(Retyped(c, frequency, nature),
                                                 rating, population)) = {}
        BY DEF RecommendedSamplesPass, Retyped
    <2>1. IsControl(c)
        BY <1>1, ControlsAreSampled DEF PapersIInv, PapersTypeOK
    <2>2. PICK d : d = Retyped(c, frequency, nature)
        OBVIOUS
    <2>3. IsControl(d) /\ d.frequency \in Frequencies /\ d.nature \in Natures
        BY <2>1, <2>2, RetypedIsControl
    <2> QED
        BY <2>2, <2>3, SamplePasses
<1> QED
    BY <1>1, PapersAlways, PTL

\* What the linter of working papers found about one finding.
LEMMA FindingPassed ==
    ASSUME NEW ps, NEW plan, Passed(LintWorkingPapers(ps, plan, FALSE)), NEW f \in ToSet(ps)
    PROVE  /\ Passed(PreliminaryViolations(f))
           /\ Passed(LintDistortionTraps(f, ControlOf(plan, f.control)))
<1>1. PreliminaryViolations(f) \in SUBSET LintWorkingPapers(ps, plan, FALSE)
    BY DEF LintWorkingPapers
<1>2. LintDistortionTraps(f, ControlOf(plan, f.control))
        \in SUBSET LintWorkingPapers(ps, plan, FALSE)
    BY DEF LintWorkingPapers
<1> QED
    BY <1>1, <1>2, PassedPart

\* The linter of a plan names every ID that two controls have.
LEMMA DuplicatesAreNamed ==
    ASSUME NEW plan, plan # <<>>, NEW id \in DuplicateIds(plan), NEW strict
    PROVE  Violation("D1", {id}) \in LintRacm(plan, strict)
<1>1. LintRacm(plan, strict)
        = (UNION {RiskViolations(r) : r \in ToSet(plan)})
          \cup {Violation("D1", {x}) : x \in DuplicateIds(plan)}
          \cup UNION {ControlViolations(c, strict) : c \in ToSet(ControlsOf(plan))}
    BY SMT DEF LintRacm
<1>2. Violation("D1", {id}) \in {Violation("D1", {x}) : x \in DuplicateIds(plan)}
    OBVIOUS
<1> QED
    BY <1>1, <1>2

\* Accepted findings hold under every control of the RACM that has their ID: seen_control_ids
\* lets no two controls with one ID out of planning.
THEOREM FindingsHold == AuditPapersSpec => []FindingsHoldForTheirControls
<1>1. ASSUME PapersIInv PROVE FindingsHoldForTheirControls
    <2> SUFFICES ASSUME stage \in {"reporting", "issued"}, NEW f \in ToSet(papers),
                        NEW c \in ToSet(ControlsOf(racm)), c.id = f.control
                 PROVE  LintDistortionTraps(f, c) = {}
        BY DEF FindingsHoldForTheirControls
    <2>1. Passed(LintRacm(racm, TRUE)) /\ Passed(LintWorkingPapers(papers, racm, FALSE))
        BY <1>1 DEF PapersIInv, StagesPassed
    <2>2. DuplicateIds(racm) = {}
        <3>1. SUFFICES ASSUME NEW id \in DuplicateIds(racm) PROVE FALSE
            OBVIOUS
        <3>2. racm # <<>>
            <4>1. SUFFICES ASSUME racm = <<>> PROVE FALSE
                OBVIOUS
            <4>2. ControlsOf(racm) = <<>>
                BY <4>1 DEF ControlsOf, FlattenSeq
            <4> QED
                BY <3>1, <4>2 DEF DuplicateIds, Repeated
        <3>3. Violation("D1", {id}) \in LintRacm(racm, TRUE)
            BY <3>1, <3>2, DuplicatesAreNamed
        <3>4. PICK v : v = Violation("D1", {id})
            OBVIOUS
        <3>5. v.severity = "error"
            BY <3>4 DEF Violation
        <3> QED
            BY <2>1, <3>3, <3>4, <3>5 DEF Passed, Errors
    <2>3. ControlOf(racm, f.control) = c
        BY <1>1, <2>2, ControlIsFound DEF PapersIInv, PapersTypeOK
    <2>4. Passed(LintDistortionTraps(f, c))
        BY <2>1, <2>3, FindingPassed
    <2> QED
        BY <2>4, TrapsPass
<1> QED
    BY <1>1, PapersAlways, PTL

\* A withdrawn conclusion takes no exception with it.
LEMMA LoweredKeepsExceptions ==
    ASSUME NEW tod, NEW toe, NEW n, DeriveResult(tod, toe, n) = "Exception"
    PROVE  DeriveResult(Lowered(tod), Lowered(toe), n) = "Exception"
<1>1. tod = "Ineffective" \/ toe \in {"Exceptions-noted", "Ineffective"} \/ OrZero(n) > 0
    BY DEF DeriveResult
<1>2. \/ Lowered(tod) = "Ineffective"
      \/ Lowered(toe) \in {"Exceptions-noted", "Ineffective"}
      \/ OrZero(n) > 0
    BY <1>1 DEF Lowered
<1> QED
    BY <1>2 DEF DeriveResult

\* A finding as the report sees it: its own conclusions, or those of the first finding on
\* its control without what the reviewer withdrew.
LEMMA EffectiveFinding ==
    ASSUME PapersTypeOK, NEW i \in DOMAIN papers
    PROVE  /\ DOMAIN EffectiveWorkingPapers = DOMAIN papers
           /\ EffectiveWorkingPapers[i].control = papers[i].control
           /\ papers[i].control \notin withdrawn => EffectiveWorkingPapers[i] = papers[i]
           /\ papers[i].control \in withdrawn =>
                \E k \in DOMAIN papers :
                    /\ papers[k].control = papers[i].control
                    /\ EffectiveWorkingPapers[i].toe = Lowered(papers[k].toe)
                    /\ EffectiveWorkingPapers[i].prelim =
                          (papers[k].prelim
                             /\ DeriveResult(Lowered(papers[k].tod), Lowered(papers[k].toe),
                                             papers[k].exceptions) = "Exception")
<1>1. EffectiveWorkingPapers
        = [j \in DOMAIN papers |->
              IF papers[j].control \in withdrawn THEN Effective(papers[j]) ELSE papers[j]]
    BY DEF EffectiveWorkingPapers
<1>2. CASE papers[i].control \notin withdrawn
    BY <1>1, <1>2
<1>3. CASE papers[i].control \in withdrawn
    <2> DEFINE I == {j \in 1..Len(papers) : papers[j].control = papers[i].control}
               k == FirstOf(papers[i].control)
               first == papers[k]
               result == DeriveResult(Lowered(first.tod), Lowered(first.toe), first.exceptions)
    <2>1. Len(papers) \in Nat /\ DOMAIN papers = 1..Len(papers) /\ papers[i] \in PaperFindings
        BY DEF PapersTypeOK
    <2>2. I \in SUBSET (1..Len(papers)) /\ I # {}
        BY <2>1
    <2>3. k = Min(I) /\ Min(I) \in I
        <3>1. Min(I) \in I
            <4> HIDE DEF I
            <4> QED
                BY <2>1, <2>2, EndsOfIndices
        <3>2. k = Min(I)
            BY <2>2 DEF FirstOf, SelectInSeq
        <3> QED
            BY <3>1, <3>2
    <2>4. k \in DOMAIN papers /\ papers[k].control = papers[i].control
        BY <2>1, <2>3
    <2> HIDE DEF k
    <2>5. PICK f, tod, toe, res, pre :
            /\ f = papers[i] /\ tod = Lowered(first.tod) /\ toe = Lowered(first.toe)
            /\ res = result /\ pre = (first.prelim /\ result = "Exception")
        OBVIOUS
    <2>6. Effective(f) = [f EXCEPT !.tod = tod, !.toe = toe, !.result = res, !.prelim = pre]
        BY <2>5 DEF Effective, k
    <2>7. PICK e : e = [f EXCEPT !.tod = tod, !.toe = toe, !.result = res, !.prelim = pre]
        OBVIOUS
    <2>8. /\ DOMAIN f = {"control", "tod", "toe", "tested", "exceptions", "result", "prelim",
                         "quote", "measured", "verified", "collected", "basis", "slop"}
          /\ f = [x \in DOMAIN f |-> f[x]]
        BY <2>1, <2>5, FindingsAreConsistent DEF IsFinding
    <2>9. e.control = f.control /\ e.toe = toe /\ e.prelim = pre
        BY <2>7, <2>8
    <2>10. EffectiveWorkingPapers[i] = e
        BY <1>1, <1>3, <2>5, <2>6, <2>7
    <2> QED
        BY <1>1, <1>3, <2>4, <2>5, <2>9, <2>10
<1> QED
    BY <1>1, <1>2, <1>3

\* What the linter of a report found about an evaluation, and about all of them.
LEMMA ReportPassed ==
    ASSUME NEW evs, NEW prose, NEW ps, NEW plan, NEW scale,
           Passed(LintReport(evs, prose, ps, plan, scale))
    PROVE  /\ Uncovered(evs, ps) = {}
           /\ \A ev \in ToSet(evs) : Passed(CompensatingViolations(ev, ps))
<1>1. LintDeficiencyEvaluations(evs, ps, plan, scale)
        \in SUBSET LintReport(evs, prose, ps, plan, scale)
    BY DEF LintReport
<1>2. Passed(LintDeficiencyEvaluations(evs, ps, plan, scale))
    BY <1>1, PassedPart
<1>3. Broken(Uncovered(evs, ps) # {}, "D4", Uncovered(evs, ps))
        \in SUBSET LintDeficiencyEvaluations(evs, ps, plan, scale)
    BY DEF LintDeficiencyEvaluations
<1>4. Uncovered(evs, ps) = {}
    <2>1. Passed(Broken(Uncovered(evs, ps) # {}, "D4", Uncovered(evs, ps)))
        BY <1>2, <1>3, PassedPart
    <2> QED
        BY <2>1, RuleHolds
<1>5. ASSUME NEW ev \in ToSet(evs) PROVE Passed(CompensatingViolations(ev, ps))
    <2>1. CompensatingViolations(ev, ps) \in SUBSET LintDeficiencyEvaluations(evs, ps, plan, scale)
        BY DEF LintDeficiencyEvaluations
    <2> QED
        BY <1>2, <2>1, PassedPart
<1> QED
    BY <1>4, <1>5

\* Every finding with an exception is covered by the issued report: a withdrawn conclusion
\* was 'Effective', so what makes the result an exception is still there.
THEOREM ExceptionsReported == AuditPapersSpec => []ExceptionsAreReported
<1>1. ASSUME PapersIInv PROVE ExceptionsAreReported
    <2> SUFFICES ASSUME stage = "issued", NEW i \in DOMAIN papers,
                        papers[i].result = "Exception",
                        \A j \in DOMAIN papers : papers[j].control = papers[i].control => j = i
                 PROVE  \E ev \in ToSet(evaluations) : papers[i].control \in ev.findings
        BY DEF ExceptionsAreReported
    <2> DEFINE E == EffectiveWorkingPapers
    <2>1. PICK prose \in Proses, scale \in DOMAIN ScaleClassifications :
            Passed(LintReport(evaluations, prose, E, racm, scale))
        BY <1>1 DEF PapersIInv, StagesPassed
    <2>2. Uncovered(evaluations, E) = {}
        BY <2>1, ReportPassed
    <2>3. PapersTypeOK
        BY <1>1 DEF PapersIInv
    <2>4. papers[i] \in ToSet(papers) /\ papers[i] \in PaperFindings
        BY <2>3 DEF PapersTypeOK, ToSet
    <2>5. papers[i].prelim
        <3>1. Passed(LintWorkingPapers(papers, racm, FALSE))
            BY <1>1 DEF PapersIInv, StagesPassed
        <3>2. Passed(PreliminaryViolations(papers[i]))
            BY <2>4, <3>1, FindingPassed
        <3>3. ~ (papers[i].prelim # (papers[i].result = "Exception"))
            BY <3>2, RuleHolds DEF PreliminaryViolations
        <3> QED
            BY <3>3
    <2>6. E[i].control = papers[i].control /\ DOMAIN E = DOMAIN papers
        <3> HIDE DEF E
        <3> QED
            BY <2>3, EffectiveFinding DEF E
    <2>7. E[i].prelim
        <3>1. CASE papers[i].control \notin withdrawn
            BY <2>3, <2>5, <3>1, EffectiveFinding
        <3>2. CASE papers[i].control \in withdrawn
            <4>1. PICK k \in DOMAIN papers :
                    /\ papers[k].control = papers[i].control
                    /\ E[i].prelim = (papers[k].prelim
                           /\ DeriveResult(Lowered(papers[k].tod), Lowered(papers[k].toe),
                                           papers[k].exceptions) = "Exception")
                BY <2>3, <3>2, EffectiveFinding
            <4>2. k = i
                BY <4>1
            <4>3. DeriveResult(papers[i].tod, papers[i].toe, papers[i].exceptions) = "Exception"
                <5>1. Consistent(papers[i])
                    BY <2>4, FindingsAreConsistent
                <5> QED
                    BY <5>1, Zenon DEF Consistent
            <4>4. DeriveResult(Lowered(papers[i].tod), Lowered(papers[i].toe),
                               papers[i].exceptions) = "Exception"
                BY <4>3, LoweredKeepsExceptions
            <4> QED
                BY <2>5, <4>1, <4>2, <4>4
        <3> QED
            BY <3>1, <3>2
    <2>8. E[i] \in ToSet(E)
        BY <2>6 DEF ToSet
    <2> QED
        <3> HIDE DEF E
        <3>1. papers[i].control \notin Uncovered(evaluations, E)
            BY <2>2
        <3>2. E[i] \in {f \in ToSet(E) : f.prelim}
            BY <2>7, <2>8
        <3> QED
            BY <2>6, <3>1, <3>2 DEF Uncovered
<1> QED
    BY <1>1, PapersAlways, PTL

\* An issued report rests on no compensating control that a reviewer withdrew or nobody
\* tested: the linter looks at the papers as he left them.
THEOREM CompensationStanding == AuditPapersSpec => []CompensationStands
<1>1. ASSUME PapersIInv PROVE CompensationStands
    <2> SUFFICES ASSUME stage = "issued", NEW ev \in ToSet(evaluations), NEW id \in ev.cited
                 PROVE  id \in FindingIds(papers) \ withdrawn
        BY DEF CompensationStands
    <2>1. PICK E : E = EffectiveWorkingPapers
        OBVIOUS
    <2>2. PICK prose \in Proses, scale \in DOMAIN ScaleClassifications :
            Passed(LintReport(evaluations, prose, E, racm, scale))
        BY <1>1, <2>1 DEF PapersIInv, StagesPassed
    <2>3. Passed(CompensatingViolations(ev, E))
        BY <2>2, ReportPassed
    <2>4. ~ (\E x \in ev.cited :
                x \in FindingIds(E)
                  => \/ FindingOf(E, x).result # "No-exception"
                     \/ FindingOf(E, x).toe # "Effective")
        BY <2>3, RuleHolds DEF CompensatingViolations
    <2>5. id \in FindingIds(E) /\ FindingOf(E, id).toe = "Effective"
        BY <2>4
    <2>6. PapersTypeOK
        BY <1>1 DEF PapersIInv
    <2>7. E \in Seq({E[i] : i \in DOMAIN papers})
        <3>1. E = [i \in DOMAIN papers |-> E[i]]
            BY <2>1 DEF EffectiveWorkingPapers
        <3>2. DOMAIN papers = 1..Len(papers) /\ Len(papers) \in Nat
            BY <2>6 DEF PapersTypeOK
        <3> QED
            BY <3>1, <3>2
    <2>8. PICK i \in DOMAIN E : E[i].control = id /\ FindingOf(E, id) = E[i]
        BY <2>5, <2>7, FindingIsFound
    <2>9. i \in DOMAIN papers
        BY <2>1, <2>8 DEF EffectiveWorkingPapers
    <2>10. papers[i].control = id
        BY <2>1, <2>6, <2>8, <2>9, EffectiveFinding
    <2>11. id \notin withdrawn
        <3>1. SUFFICES ASSUME id \in withdrawn PROVE FALSE
            OBVIOUS
        <3>2. PICK k \in DOMAIN papers : E[i].toe = Lowered(papers[k].toe)
            BY <2>1, <2>6, <2>9, <2>10, <3>1, EffectiveFinding
        <3>3. Lowered(papers[k].toe) # "Effective"
            BY DEF Lowered
        <3> QED
            BY <2>5, <2>8, <3>2, <3>3
    <2> QED
        BY <2>9, <2>10, <2>11 DEF FindingIds, ToSet
<1> QED
    BY <1>1, PapersAlways, PTL

\* The premise of a finding is trusted by some number, and hardly in a trap.
LEMMA EntailmentIsBounded ==
    ASSUME NEW f, NEW c, NEW confidence \in {0, 60, 100}
    PROVE  /\ PremiseEntailment(f, c, confidence) \in Nat
           /\ LintDistortionTraps(f, c) # {} => PremiseEntailment(f, c, confidence) = 500
<1>1. CASE LintDistortionTraps(f, c) # {}
    <2>1. f.result # "Not-tested" /\ f.quote # "none"
        BY <1>1 DEF LintDistortionTraps
    <2> QED
        BY <1>1, <2>1 DEF PremiseEntailment
<1>2. CASE LintDistortionTraps(f, c) = {}
    BY <1>2 DEF PremiseEntailment
<1> QED
    BY <1>1, <1>2

\* What the cascade makes of a consistent finding.
LEMMA CascadeAgrees ==
    ASSUME NEW f, Consistent(f), NEW c, NEW key \in BOOLEAN, NEW confidence \in {0, 60, 100},
           NEW sequence \in {0, 90, 100}
    PROVE  /\ CascadeAction(f, c, key, confidence, sequence) = "fast_accept" =>
                Unverified(<<f>>) = {} /\ LintDistortionTraps(f, c) = {}
           /\ LintDistortionTraps(f, c) # {} =>
                CascadeAction(f, c, key, confidence, sequence) = "abstain_to_human"
<1>1. PICK p \in Nat : /\ p = PremiseEntailment(f, c, confidence)
                       /\ LintDistortionTraps(f, c) # {} => p = 500
    BY EntailmentIsBounded
<1>2. PICK trust : trust = Trust(f, c, confidence, sequence)
    OBVIOUS
<1>3. trust = Span(f) * ((3 * p + 100 * sequence + 2) \div 4)
    BY <1>1, <1>2 DEF Trust
<1>4. (3 * p + 100 * sequence + 2) \div 4 \in Nat
    OBVIOUS
<1>5. Span(f) \in {0, 1}
    BY DEF Span
<1>6. Span(f) = 0 => trust = 0
    BY <1>3, <1>4
<1>7. LintDistortionTraps(f, c) # {} => trust < 5500
    <2>1. SUFFICES ASSUME LintDistortionTraps(f, c) # {} PROVE trust < 5500
        OBVIOUS
    <2>2. CASE Span(f) = 0
        BY <1>6, <2>2
    <2>3. CASE Span(f) = 1
        <3>1. trust = (3 * p + 100 * sequence + 2) \div 4
            BY <1>3, <1>4, <2>3
        <3>2. p = 500
            BY <1>1, <2>1
        <3> QED
            BY <3>1, <3>2
    <2> QED
        BY <1>5, <2>2, <2>3
<1>8. CascadeAction(f, c, key, confidence, sequence)
        = IF trust >= (IF key THEN 9200 ELSE 8000) /\ LintDistortionTraps(f, c) = {}
          THEN "fast_accept"
          ELSE IF trust >= 5500 THEN "escalate_system2" ELSE "abstain_to_human"
    BY <1>2 DEF CascadeAction
<1>9. trust \in Nat
    <2>1. CASE Span(f) = 0
        BY <1>6, <2>1
    <2>2. CASE Span(f) = 1
        BY <1>3, <1>4, <2>2
    <2> QED
        BY <1>5, <2>1, <2>2
<1>10. LintDistortionTraps(f, c) # {} =>
          CascadeAction(f, c, key, confidence, sequence) = "abstain_to_human"
    BY <1>7, <1>8, <1>9
<1>11. ASSUME CascadeAction(f, c, key, confidence, sequence) = "fast_accept"
       PROVE  Unverified(<<f>>) = {} /\ LintDistortionTraps(f, c) = {}
    <2>1. LintDistortionTraps(f, c) = {} /\ trust # 0
        BY <1>8, <1>11
    <2>2. (f.result = "Not-tested" /\ f.quote = "none") \/ f.verified
        BY <1>6, <2>1 DEF Span
    <2>3. ~ (IF f.quote = "none" THEN f.result # "Not-tested" /\ f.toe # "Not-tested"
             ELSE ~ f.verified)
        <3>1. f.result # "Not-tested" => f.quote # "none"
            BY Zenon DEF Consistent
        <3> QED
            BY <2>2, <3>1
    <2>4. ToSet(<<f>>) = {f}
        BY DEF ToSet
    <2> QED
        BY <2>1, <2>3, <2>4 DEF Unverified
<1> QED
    BY <1>10, <1>11

\* The cascade and the linter agree: _consistent keeps a claim without a quote out of the
\* fast path, and a trap takes three quarters of the trust.
THEOREM AcceptedFindings == AuditPapersSpec => []AcceptedFindingsPassTheLinter
<1>1. ASSUME PapersIInv PROVE AcceptedFindingsPassTheLinter
    <2>1. \A f \in ToSet(papers) : Consistent(f)
        BY <1>1, FindingsAreConsistent DEF PapersIInv, PapersTypeOK, ToSet
    <2> QED
        BY <2>1, CascadeAgrees DEF AcceptedFindingsPassTheLinter
<1> QED
    BY <1>1, PapersAlways, PTL
=============================================================================
