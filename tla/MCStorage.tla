------------------------------ MODULE MCStorage ------------------------------
(***************************************************************************)
(* Small instances of what keeps its state in files: the trail of an audit *)
(* and its anchor, the sessions file, the evidence vault, and the reviewer *)
(* tokens.  They share no state here, so a behaviour is one of one part.   *)
(***************************************************************************)
EXTENDS TrailStore, SessionsFile, EvidenceVault, ReviewerTokens, TLC

VARIABLE part

storage_vars == <<trail_vars, file_vars, vault_vars, token_vars, part>>

StorageInit ==
    /\ part \in {"trail", "file", "vault", "tokens"}
    /\ TrailStoreInit /\ (part # "trail" => flow = Empty /\ trail_key = NoKey)
    /\ SessionsFileInit /\ (part # "file" => sessions_file = Missing)
    /\ EvidenceVaultInit /\ (part # "vault" => vault = <<>> /\ vault_key = NoKey)
    /\ ReviewerTokensInit /\ (part # "tokens" => setting = "declared")

\* Every part but p stands still.
Others(p) ==
    /\ IF p = "trail" THEN TRUE ELSE UNCHANGED trail_vars
    /\ IF p = "file"  THEN TRUE ELSE UNCHANGED file_vars
    /\ IF p = "vault" THEN TRUE ELSE UNCHANGED vault_vars
    /\ IF p = "tokens" THEN TRUE ELSE UNCHANGED token_vars
    /\ UNCHANGED part

StorageNext ==
    \/ part = "trail" /\ TrailStoreNext /\ Others("trail")
    \/ part = "file"  /\ SessionsFileNext /\ Others("file")
    \/ part = "vault" /\ EvidenceVaultNext /\ Others("vault")
    \/ part = "tokens" /\ ReviewerTokensNext /\ Others("tokens")

StorageSpec == StorageInit /\ [][StorageNext]_storage_vars

----------------------------------------------------------------------------
CONSTANTS k1, k2, k3, artA, ok, t1, t2, s1, s2, sA, sB, redB, quote1, quote2, short,
          ann, bob, r1, r2, o1

\* The ID of one session is changed by redaction.
MCRedacted == [s \in VaultSessions |-> IF s = sB THEN redB ELSE s]

\* Two keys of the vault, which nothing tells apart; the trail has a key of its own.
MCVaultKeys == Permutations({k2, k3})

MCPayloads == {{quote1, short}, {quote2}}
=============================================================================
