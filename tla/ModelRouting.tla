---------------------------- MODULE ModelRouting ----------------------------
(***************************************************************************)
(* Which model drafts an audit and which one reviews it: swarm/            *)
(* llm_factory.py and swarm/model_routing.py under one environment, and    *)
(* the provenance audit_flow._start_generation_run writes about them.      *)
(*                                                                         *)
(* A model name is a record [id, words, weights]: the words that           *)
(* detect_model_family looks for and finds in it, and the family its       *)
(* weights really come from.  A model is a name at a provider.             *)
(***************************************************************************)
EXTENDS Integers, Sequences, FiniteSets, SequencesExt

CONSTANTS Unset,        \* an environment variable that is not set
          LocalNames,   \* names for OLLAMA_MODEL
          RouterNames,  \* names for OPENROUTER_MODEL
          QaModels      \* models for QA_LLM_MODEL

VARIABLES env,      \* os.environ
          run,      \* the generation run: its models, and whether two families are verified
          crew, qa, \* the models the drafting agents and the QA agents run on
          critic,   \* a reviewer the router finds for the draft
          jury,     \* a panel of such reviewers
          cast,     \* its votes, in order
          verdict

routing_vars == <<env, run, crew, qa, critic, jury, cast, verdict>>

Name(id, words, weights) == [id |-> id, words |-> words, weights |-> weights]
Model(provider, name) == [provider |-> provider, name |-> name]

Llama   == Name("llama-3.3-70b", {"meta", "llama"}, "meta")
GroqLlama == Name("llama-3.3-70b-versatile", {"llama"}, "meta")
Gemini  == Name("gemini-2.5-flash", {"gemini"}, "google")
Gpt     == Name("gpt-4o-mini", {"gpt-"}, "openai")
O3      == Name("o3-mini", {"o3"}, "openai")
Claude  == Name("claude-3-7-sonnet", {"claude"}, "anthropic")

\* The words in a provider's own name; "ollama" has "llama" in it.
ProviderWords(provider) ==
    CASE provider = "ollama" -> {"llama"}
      [] provider \in {"gemini", "openai", "anthropic", "deepseek"} -> {provider}
      [] OTHER -> {}

Words(model) == ProviderWords(model.provider) \cup model.name.words

\* detect_model_family asks for the families in this order.
FamilyWords == <<
    [family |-> "anthropic", words |-> {"claude", "anthropic"}],
    [family |-> "google",    words |-> {"gemini", "google", "vertex"}],
    [family |-> "openai",    words |-> {"gpt-", "openai", "o1", "o3", "o4"}],
    [family |-> "meta",      words |-> {"llama", "meta"}],
    [family |-> "deepseek",  words |-> {"deepseek"}],
    [family |-> "qwen",      words |-> {"qwen"}],
    [family |-> "mistral",   words |-> {"mistral", "mixtral"}]>>

DetectModelFamily(model) ==
    LET found == {i \in DOMAIN FamilyWords : FamilyWords[i].words \cap Words(model) # {}}
    IN  IF found = {} THEN "other" ELSE FamilyWords[Min(found)].family

\* assert_disjoint_family does not raise.
DisjointFamily(drafter, reviewer) ==
    DetectModelFamily(drafter) = "other"
        \/ DetectModelFamily(drafter) # DetectModelFamily(reviewer)

----------------------------------------------------------------------------
(* The factory.                                                            *)

OneIf(condition, value) == IF condition THEN <<value>> ELSE <<>>

NoModel == Model("unknown", Name("unknown", {}, "unknown"))
FirstModel(models) == IF models = <<>> THEN NoModel ELSE models[1]

RouterModel == Model("openrouter", IF env.openrouter_model = Unset THEN Llama
                                   ELSE env.openrouter_model)

\* get_crew_llm; NoModel where it raises LLMConfigurationError.
GetCrewLlm ==
    FirstModel(OneIf(env.ollama # Unset, Model("ollama", env.ollama))
        \o OneIf("nvidia" \in env.keys, Model("nvidia_nim", Llama))
        \o OneIf("openrouter" \in env.keys, RouterModel)
        \o OneIf("gemini" \in env.keys, Model("gemini", Gemini))
        \o OneIf("openai" \in env.keys, Model("openai", Gpt))
        \o OneIf("groq" \in env.keys, Model("groq", GroqLlama)))

\* describe_crew_llm goes through the providers a second time.
DescribeCrewLlm ==
    IF env.ollama # Unset THEN Model("ollama", env.ollama)
    ELSE IF "nvidia" \in env.keys THEN Model("nvidia_nim", Llama)
    ELSE IF "openrouter" \in env.keys THEN RouterModel
    ELSE IF "gemini" \in env.keys THEN Model("gemini", Gemini)
    ELSE IF "openai" \in env.keys THEN Model("openai", Gpt)
    ELSE IF "groq" \in env.keys THEN Model("groq", GroqLlama)
    ELSE NoModel

DescribeQaLlm == IF env.qa = Unset THEN DescribeCrewLlm ELSE env.qa

\* get_qa_llm, and whether it refuses (ENFORCE_DISJOINT_QA_FAMILY).
GetQaLlm == IF env.qa = Unset THEN GetCrewLlm ELSE env.qa

QaRefused ==
    /\ env.qa # Unset
    /\ env.enforce_qa
    /\ DescribeCrewLlm # NoModel
    /\ ~ DisjointFamily(DescribeCrewLlm, env.qa)

\* The candidates of get_cross_family_qa_llm, in its own order of priority.
CrossFamilyCandidates ==
    OneIf("gemini" \in env.keys, Model("gemini", Gemini))
        \o OneIf("openai" \in env.keys, Model("openai", Gpt))
        \o OneIf("groq" \in env.keys, Model("groq", GroqLlama))
        \o OneIf("nvidia" \in env.keys, Model("nvidia_nim", Llama))

\* get_cross_family_qa_llm: without a candidate it is the usual QA model.
GetCrossFamilyQaLlm ==
    LET others == SelectSeq(CrossFamilyCandidates,
                            LAMBDA m : DetectModelFamily(m) # DetectModelFamily(DescribeCrewLlm))
    IN  IF env.qa = Unset /\ others # <<>> THEN others[1] ELSE GetQaLlm

\* It raises: no provider, or the configured model is of the drafter's family.
CrossFamilyRefused ==
    \/ DescribeCrewLlm = NoModel
    \/ env.qa # Unset /\ ~ DisjointFamily(DescribeCrewLlm, env.qa)

----------------------------------------------------------------------------
(* The catalog of critics and jurors.                                      *)

CatalogFamilies == <<"google", "openai", "anthropic", "meta">>

DefaultFamilyModel(family, effort) ==
    CASE family = "google"    -> Model("gemini", Gemini)
      [] family = "openai"    -> Model("openai", IF effort = "high" THEN O3 ELSE Gpt)
      [] family = "anthropic" -> Model("anthropic", Claude)
      [] OTHER                -> Model("groq", GroqLlama)

\* select_effort_for_complexity, in ten-thousandths.
EffortForComplexity(complexity, is_retry) ==
    IF is_retry \/ complexity >= 7000 THEN "high"
    ELSE IF complexity >= 4500 THEN "medium" ELSE "low"

\* select_cross_family_critic among the families available, or all.
SelectCrossFamilyCritic(drafter, effort, available) ==
    LET order == IF available = <<>> THEN <<"anthropic", "google", "openai", "meta">>
                 ELSE available
        others(families) ==
            SelectSeq(families, LAMBDA f : f \in ToSet(CatalogFamilies)
                                             /\ f # DetectModelFamily(drafter))
    IN  DefaultFamilyModel((others(order) \o others(CatalogFamilies))[1], effort)

\* The families of the catalog but one, in order.
OtherFamilies(family) ==
    OneIf(family # "google", "google")
        \o OneIf(family # "openai", "openai")
        \o OneIf(family # "anthropic", "anthropic")
        \o OneIf(family # "meta", "meta")

\* Mutant of BuildPollJury: the drafter's family has a seat.
PollJuryOfAll(drafter, effort, panel_size) ==
    LET n == IF panel_size < 4 THEN panel_size ELSE 4
    IN  [i \in 1..n |-> DefaultFamilyModel(CatalogFamilies[i], effort)]

\* build_poll_jury_specs
BuildPollJury(drafter, effort, panel_size) ==
    LET others == OtherFamilies(DetectModelFamily(drafter))
        n == IF panel_size < Len(others) THEN panel_size ELSE Len(others)
    IN  [i \in 1..n |-> DefaultFamilyModel(others[i], effort)]

Total(weights) ==
    LET sum[i \in 0..Len(weights)] == IF i = 0 THEN 0 ELSE sum[i - 1] + weights[i]
    IN  sum[Len(weights)]

Weight(votes) == Total([i \in DOMAIN votes |-> votes[i].weight])
ApprovedWeight(votes) ==
    Total([i \in DOMAIN votes |-> IF votes[i].approved THEN votes[i].weight ELSE 0])

\* aggregate_poll_jury: a weighted two thirds, or all but a thousandth.
AggregatePollJury(votes, unanimity) ==
    IF unanimity THEN 1000 * ApprovedWeight(votes) >= 999 * Weight(votes)
    ELSE 3 * ApprovedWeight(votes) >= 2 * Weight(votes)

\* A panel with two judges of one known family is refused.
JuryRefused(votes) ==
    \E i, j \in DOMAIN votes :
        /\ i # j
        /\ DetectModelFamily(votes[i].judge) # "other"
        /\ DetectModelFamily(votes[i].judge) = DetectModelFamily(votes[j].judge)

----------------------------------------------------------------------------
\* Settings without effect are left unset.
Environments ==
    {e \in [keys : SUBSET {"nvidia", "openrouter", "gemini", "openai", "groq"},
             ollama : LocalNames \cup {Unset}, openrouter_model : RouterNames \cup {Unset},
             qa : QaModels \cup {Unset}, enforce_qa : BOOLEAN, enforce : BOOLEAN] :
        /\ e.openrouter_model # Unset => "openrouter" \in e.keys
        /\ e.enforce_qa => e.qa # Unset}

RoutingInit ==
    /\ env \in Environments
    /\ run = <<>> /\ crew = NoModel /\ qa = NoModel /\ critic = NoModel
    /\ jury = <<>> /\ cast = <<>> /\ verdict = "none"

\* _start_generation_run; with AUDIT_ENFORCE_CROSS_FAMILY it raises on one family.
StartRun ==
    /\ run = <<>>
    /\ env.enforce => DisjointFamily(DescribeCrewLlm, DescribeQaLlm)
    /\ LET drafter_family == DetectModelFamily(DescribeCrewLlm)
           qa_family == DetectModelFamily(DescribeQaLlm)
       IN  run' = <<[model |-> DescribeCrewLlm, qa_model |-> DescribeQaLlm,
                     cross_family_verified |->
                        "other" \notin {drafter_family, qa_family}
                            /\ drafter_family # qa_family]>>
    /\ UNCHANGED <<env, crew, qa, critic, jury, cast, verdict>>

\* The agents of a crew are built; without a provider, or refused, none are.
BuildCrew ==
    /\ run # <<>> /\ crew = NoModel
    /\ GetCrewLlm # NoModel /\ ~ QaRefused
    /\ crew' = GetCrewLlm
    /\ qa' = GetQaLlm
    /\ UNCHANGED <<env, run, critic, jury, cast, verdict>>

\* The router looks for a critic of the draft, or seats a panel.
FindCritic ==
    /\ crew # NoModel /\ critic = NoModel /\ jury = <<>>
    /\ ~ CrossFamilyRefused
    /\ critic' = GetCrossFamilyQaLlm
    /\ UNCHANGED <<env, run, crew, qa, jury, cast, verdict>>

SelectCritic(complexity, is_retry, available) ==
    /\ crew # NoModel /\ critic = NoModel /\ jury = <<>>
    /\ critic' = SelectCrossFamilyCritic(crew, EffortForComplexity(complexity, is_retry), available)
    /\ UNCHANGED <<env, run, crew, qa, jury, cast, verdict>>

SeatJury(effort, panel_size) ==
    /\ crew # NoModel /\ critic = NoModel /\ jury = <<>>
    /\ jury' = BuildPollJury(crew, effort, panel_size)
    /\ UNCHANGED <<env, run, crew, qa, critic, cast, verdict>>

Vote(approved, weight) ==
    /\ Len(cast) < Len(jury)
    /\ cast' = Append(cast, [judge |-> jury[Len(cast) + 1], approved |-> approved,
                             weight |-> weight])
    /\ UNCHANGED <<env, run, crew, qa, critic, jury, verdict>>

Aggregate(unanimity) ==
    /\ jury # <<>> /\ Len(cast) = Len(jury) /\ verdict = "none"
    /\ verdict' = IF JuryRefused(cast) THEN "refused"
                  ELSE IF AggregatePollJury(cast, unanimity) THEN "approved" ELSE "rejected"
    /\ UNCHANGED <<env, run, crew, qa, critic, jury, cast>>

RoutingNext ==
    \/ StartRun \/ BuildCrew \/ FindCritic
    \/ \E available \in {<<>>, <<"meta", "qwen">>}, is_retry \in BOOLEAN :
          SelectCritic(4500, is_retry, available)
    \/ SeatJury("low", 2) \/ SeatJury("high", 3)
    \/ \E approved \in BOOLEAN, weight \in 1..2 : Vote(approved, weight)
    \/ \E unanimity \in BOOLEAN : Aggregate(unanimity)

RoutingSpec == RoutingInit /\ [][RoutingNext]_routing_vars

----------------------------------------------------------------------------
(* A panel reaches a verdict (its judges are of different families, as     *)
(* aggregate_poll_jury demands of whoever seats them), none of its judges  *)
(* is of the drafter's family, and one that approves has two thirds of the *)
(* weight behind it: the panel is seated and counted in different places.  *)
VerdictsAreIndependent ==
    /\ verdict # "refused"
    /\ \A i \in DOMAIN jury : DetectModelFamily(jury[i]) # DetectModelFamily(crew)
    /\ verdict = "approved" =>
          3 * (Weight(cast) - ApprovedWeight(cast)) <= Weight(cast)

(* A run that is recorded as reviewed by another family was: the two       *)
(* models' weights are of different families (DECISIONS.md: the two        *)
(* functions "enforce that the QA critic belongs to a disjoint model       *)
(* family from the drafter").                                              *)
VerifiedCrossFamily ==
    run # <<>> /\ crew # NoModel /\ run[1].cross_family_verified =>
        crew.name.weights # qa.name.weights
=============================================================================
