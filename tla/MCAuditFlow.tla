---------------------------- MODULE MCAuditFlow ----------------------------
(***************************************************************************)
(* Small instances of AuditFlow for TLC.                                   *)
(***************************************************************************)
EXTENDS AuditFlow, TLC

CONSTANTS pat, pat_alias, ann, ann_alias, bob,  \* names
          c1, c2, d1,                           \* controls and a deficiency
          planA, planB, paperA, paperB, reportA, reportB

\* Pat prepares under two spellings and Ann reviews under two.
MCIdentity(n) == CASE n \in {pat, pat_alias} -> "Pat"
                   [] n \in {ann, ann_alias} -> "Ann"
                   [] n = bob                -> "Bob"
MCIdentities == [n \in Names |-> MCIdentity(n)]

\* Three people with one spelling each: nothing tells them apart.
MCPlainIdentities == [n \in Names |-> n]
MCPeople == Permutations(Names)

Finding(tod, toe, exceptions, quote) ==
    [control |-> c1, tod |-> tod, toe |-> toe, exceptions |-> exceptions, quote |-> quote]

Sound   == Finding("Effective", "Effective", FALSE, "held")
Made_up == Finding("Effective", "Not tested", FALSE, "fabricated")
Failed  == Finding("Effective", "Exceptions noted", FALSE, "held")
Read    == Finding("Effective", "Not tested", FALSE, "held")

MCKeyControls == [p \in Plans |-> IF p = planA THEN {c1} ELSE {}]

\* The flow runs: papers that stand or fall with the vault, and papers with a
\* quote nobody can verify.
MCFlowFindings ==
    [w \in Papers |-> IF w = paperA THEN <<Sound>> ELSE <<Made_up>>]

\* The review runs: the key control was read but not operated on, or it failed.
MCReviewFindings ==
    [w \in Papers |-> IF w = paperA THEN <<Read>> ELSE <<Failed>>]

\* Papers with two findings on one control.
MCDoubleFindings == [w \in Papers |-> <<Sound, Failed>>]

MCClassification ==
    [r \in Reports |-> IF r = reportA THEN [d \in {d1} |-> "Low"] ELSE <<>>]

MCClassifications == {"Low", "High"}
============================================================================
