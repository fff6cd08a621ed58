--------------------------- MODULE EvidenceVault ---------------------------
(***************************************************************************)
(* The evidence vault of swarm/evidence.py: records registered for         *)
(* sessions, plain or encrypted, by this version or before; the quote      *)
(* check of Gate 2; files that are damaged on disk; and the command that   *)
(* replaces the unkeyed digests of old encrypted records, one file after   *)
(* the other, beside the running API, and that may die anywhere.           *)
(***************************************************************************)
EXTENDS Integers, Sequences, FiniteSets, Digests

CONSTANTS Unbound,      \* no session, as a stored session id
          Unreadable,   \* the content of a file json does not parse
          VaultKeys,    \* what VAULT_ENCRYPTION_KEY may be, NoKey included
          VaultSessions,
          Redacted,     \* session -> its id after the redaction of account ids
          Payloads,     \* payloads, each the set of the quotes it contains
          ShortQuotes,  \* quotes shorter than _MIN_QUOTE_LENGTH
          MaxRecords, MaxDamage, MaxMigrations

ASSUME EvidenceVaultAssumption ==
    /\ NoKey \in VaultKeys
    /\ DOMAIN Redacted = VaultSessions
    \* "[REDACTED]" is in no session id, which is a UUID
    /\ \A s \in VaultSessions : /\ s # Unbound /\ Redacted[s] # Unbound
                                /\ Redacted[s] \in VaultSessions => Redacted[s] = s
    /\ MaxRecords \in Nat /\ MaxDamage \in Nat /\ MaxMigrations \in Nat

VARIABLES vault,      \* the record files, in the order of their names
          vault_key,  \* VAULT_ENCRYPTION_KEY of the API process
          migration,  \* migrate_legacy_digests
          registered, \* history: what was registered, and for which session
          damage, migrations  \* how often so far

vault_vars == <<vault, vault_key, migration, registered, damage, migrations>>

Quotes == UNION Payloads

\* record_session_id: where the session is, in records of this version and older ones.
ByParameters(s) == [session_id |-> Unbound, parameters |-> Redacted[s]]
Bindings(s) == {[session_id |-> s, parameters |-> Unbound], ByParameters(s)}
NoBinding == [session_id |-> Unbound, parameters |-> Unbound]
AllBindings == {NoBinding} \cup UNION {Bindings(s) : s \in VaultSessions}

RecordSession(r) ==
    IF r.binding.session_id # Unbound THEN r.binding.session_id ELSE r.binding.parameters

\* The digest covers the payload, and the metadata if there is any.
DigestInput(payload, binding) ==
    IF binding = NoBinding THEN <<payload>> ELSE <<payload, binding>>

\* lock is the key the payload is encrypted with; alg names the digest's field.
Record(payload, binding, lock, alg, key) ==
    [payload |-> payload, binding |-> binding, lock |-> lock, alg |-> alg,
     digest |-> Digest(DigestInput(payload, binding), alg, key)]

\* What stands for a file that does not parse is no record.
ASSUME RecordsAreReadable ==
    \A p \in Payloads, b \in AllBindings, lock, key \in VaultKeys :
        Record(p, b, lock, Keyed, key) # Unreadable

Decrypts(r, key) == r.lock \in {NoKey, key}

----------------------------------------------------------------------------
(* verify_exact_quote and unverified_findings.                             *)

DigestMatches(r, key) ==
    /\ r.alg = Keyed => key # NoKey
    /\ r.digest = Digest(DigestInput(r.payload, r.binding), r.alg, key)

OfSession(r, s) == RecordSession(r) \in {Unbound, s, Redacted[s]}

VerifyExactQuote(r, quote, s, key) ==
    /\ quote \notin ShortQuotes
    /\ r # Unreadable
    /\ Decrypts(r, key)
    /\ DigestMatches(r, key)
    /\ OfSession(r, s)
    /\ quote \in r.payload

\* A finding without a quote passes if it says that the control was not tested.
Findings == [quote : Quotes \cup {{}}, vault_id : 1..MaxRecords, not_tested : BOOLEAN]

FindingVerified(f, s, key) ==
    IF f.quote = {} THEN f.not_tested
    ELSE /\ f.vault_id \in DOMAIN vault
         /\ VerifyExactQuote(vault[f.vault_id], f.quote, s, key)

----------------------------------------------------------------------------
NoMigration ==
    [pc |-> "idle", key |-> NoKey, at |-> 0, files |-> 0, record |-> Unreadable,
     failed |-> {}]

\* Records from before the keyed digest: encrypted or not, with a plain digest,
\* bound through their parameters or not at all.
LegacyRecords ==
    {Record(p, b, k, Plain, k) : p \in Payloads, k \in VaultKeys,
        b \in {NoBinding} \cup {ByParameters(s) : s \in VaultSessions}}

SessionsBoundBy(b) == {s \in VaultSessions : b \in Bindings(s)}

Registration(p, b) ==
    [payload |-> p, for |-> IF b = NoBinding THEN VaultSessions ELSE SessionsBoundBy(b)]

EvidenceVaultInit ==
    /\ vault \in UNION {[1..n -> LegacyRecords] : n \in 0..MaxRecords}
    /\ registered = {Registration(vault[i].payload, vault[i].binding) : i \in DOMAIN vault}
    /\ vault_key \in VaultKeys
    /\ migration = NoMigration
    /\ damage = 0 /\ migrations = 0

\* register_evidence: by the tools of a run (session_id), by an import of the API
\* (parameters), or outside a session.
RegisterEvidence ==
    /\ Len(vault) < MaxRecords
    /\ \E p \in Payloads, b \in AllBindings :
          /\ vault' = Append(vault, Record(p, b, vault_key, AlgorithmOf(vault_key), vault_key))
          /\ registered' = registered \cup {Registration(p, b)}
    /\ UNCHANGED <<vault_key, migration, damage, migrations>>

\* The API is started again with another key, or with none.
ChangeKey ==
    /\ vault_key' \in VaultKeys
    /\ UNCHANGED <<vault, migration, registered, damage, migrations>>

\* A file is damaged on disk: it is cut, or its payload or its metadata becomes another
\* record's.  An encrypted payload that is not some record's is not decrypted.
Damaged(r) ==
    {Unreadable}
    \cup {[r EXCEPT !.payload = p] : p \in IF r.lock = NoKey THEN Payloads ELSE {}}
    \cup {[r EXCEPT !.payload = vault[j].payload, !.lock = vault[j].lock] :
            j \in {i \in DOMAIN vault : vault[i] # Unreadable
                                         /\ (vault[i].lock = NoKey <=> r.lock = NoKey)}}
    \cup {[r EXCEPT !.binding = b] : b \in UNION {Bindings(s) : s \in VaultSessions}}

Damage ==
    /\ damage < MaxDamage
    /\ \E i \in DOMAIN vault :
          /\ vault[i] # Unreadable
          /\ \E r \in Damaged(vault[i]) \ {vault[i]} : vault' = [vault EXCEPT ![i] = r]
    /\ damage' = damage + 1
    /\ UNCHANGED <<vault_key, migration, registered, migrations>>

----------------------------------------------------------------------------
(* migrate_legacy_digests, a command of its own.                           *)

\* It refuses to start without a key, and lists the files once.
StartMigration ==
    /\ migration.pc \in {"idle", "ended"}
    /\ migrations < MaxMigrations
    /\ \E key \in VaultKeys \ {NoKey} :
          migration' = [NoMigration EXCEPT !.pc = "read", !.key = key, !.at = 1,
                                           !.files = Len(vault)]
    /\ migrations' = migrations + 1
    /\ UNCHANGED <<vault, vault_key, registered, damage>>

\* The loop goes on with the next file.
NextFile(m, failed) ==
    [m EXCEPT !.pc = IF m.at = m.files THEN "ended" ELSE "read",
              !.at = @ + 1, !.failed = @ \cup failed, !.record = Unreadable]

IsLegacy(r) == r.lock # NoKey /\ r.alg = Plain

\* Mutant of Sound: a record that decrypts is re-sealed.
SoundIfDecrypted(r, key) == Decrypts(r, key)

\* What is migrated: a payload that decrypts and matches its plain digest.
Sound(r, key) == Decrypts(r, key) /\ DigestMatches(r, key)

ReadRecord ==
    /\ migration.pc = "read" /\ migration.at <= migration.files
    /\ LET r == vault[migration.at]
       IN  migration' =
             IF r # Unreadable /\ ~ IsLegacy(r) THEN NextFile(migration, {})
             ELSE IF r # Unreadable /\ Sound(r, migration.key)
             THEN [migration EXCEPT !.pc = "replace", !.record = r]
             ELSE NextFile(migration, {migration.at})
    /\ UNCHANGED <<vault, vault_key, registered, damage, migrations>>

\* An empty vault: nothing to read.
NothingToRead ==
    /\ migration.pc = "read" /\ migration.files = 0
    /\ migration' = [migration EXCEPT !.pc = "ended"]
    /\ UNCHANGED <<vault, vault_key, registered, damage, migrations>>

\* Mutant of Migrated: the keyed digest is taken of the payload alone.
MigratedPayload(r, key) ==
    [r EXCEPT !.alg = Keyed, !.digest = Digest(<<r.payload>>, Keyed, key)]

Migrated(r, key) ==
    [r EXCEPT !.alg = Keyed, !.digest = Digest(DigestInput(r.payload, r.binding), Keyed, key)]

\* The record as it was read, with its new digest, is renamed into place.
ReplaceRecord ==
    /\ migration.pc = "replace"
    /\ vault' = [vault EXCEPT ![migration.at] = Migrated(migration.record, migration.key)]
    /\ migration' = NextFile(migration, {})
    /\ UNCHANGED <<vault_key, registered, damage, migrations>>

\* The temporary file cannot be written or renamed.
ReplaceFails ==
    /\ migration.pc = "replace"
    /\ migration' = NextFile(migration, {migration.at})
    /\ UNCHANGED <<vault, vault_key, registered, damage, migrations>>

MigrationDies ==
    /\ migration.pc \in {"read", "replace"}
    /\ migration' = NoMigration
    /\ UNCHANGED <<vault, vault_key, registered, damage, migrations>>

EvidenceVaultNext ==
    \/ RegisterEvidence \/ ChangeKey \/ Damage
    \/ StartMigration \/ ReadRecord \/ NothingToRead \/ ReplaceRecord \/ ReplaceFails
    \/ MigrationDies

EvidenceVaultSpec == EvidenceVaultInit /\ [][EvidenceVaultNext]_vault_vars

----------------------------------------------------------------------------
(* The Gate 2 check passes a quote of a session's finding only if it is in *)
(* a payload registered for that session, or for none: whatever files were *)
(* damaged, whenever the key changed, and however far a migration came     *)
(* ("corrupted evidence is never re-sealed with a valid digest").          *)
VerifiedQuotesWereCollected ==
    \A f \in Findings, s \in VaultSessions :
        FindingVerified(f, s, vault_key) /\ ~ f.not_tested =>
            \E g \in registered : f.quote \in g.payload /\ s \in g.for

(* No step of the migration takes a quote away that verified before it,    *)
(* under the key of the API whatever it is; a crash between two records    *)
(* leaves a vault that verifies as before.  (The file is as it was read.)  *)
MigrationLosesNoEvidence ==
    [][/\ migration' # migration /\ vault' # vault
       /\ migration.pc = "replace" => vault[migration.at] = migration.record
       =>
        \A f \in Findings, s \in VaultSessions, k \in VaultKeys :
            FindingVerified(f, s, k) => FindingVerified(f, s, k)']_vault_vars
=============================================================================
