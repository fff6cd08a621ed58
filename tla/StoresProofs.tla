---------------------------- MODULE StoresProofs ----------------------------
(***************************************************************************)
(* Theorems about the evidence vault (EvidenceVault), the reviewer tokens  *)
(* file (ReviewerTokens) and the sessions file (SessionsFile), three       *)
(* stores that share nothing.                                              *)
(***************************************************************************)
EXTENDS EvidenceVault, ReviewerTokens, SessionsFile, SequenceTheorems, TLAPS

---------------------------------------------------------------------------
(* The evidence vault.                                                     *)

\* A digest is of one value: SHA-256 is taken to have no collisions.
LEMMA DigestCoversOneValue ==
    ASSUME NEW v, NEW w, NEW alg, NEW alg2, NEW key, NEW key2,
           Digest(v, alg, key) = Digest(w, alg2, key2)
    PROVE  v = w
<1>1. Digest(v, alg, key)[3] = v /\ Digest(w, alg2, key2)[3] = w
    BY DEF Digest
<1> QED
    BY <1>1

\* What is digested names the payload and, if there is one, the binding.
LEMMA DigestInputIsOfOneRecord ==
    ASSUME NEW p, NEW b, NEW q, NEW c, DigestInput(p, b) = DigestInput(q, c)
    PROVE  p = q /\ (b = c \/ (b = NoBinding /\ c = NoBinding))
<1>1. Len(<<p>>) = 1 /\ Len(<<q>>) = 1 /\ Len(<<p, b>>) = 2 /\ Len(<<q, c>>) = 2
    OBVIOUS
<1>2. <<p>> # <<q, c>> /\ <<p, b>> # <<q>>
    BY <1>1
<1> QED
    BY <1>2 DEF DigestInput

\* What a file has that is a record.
IsVaultRecord(r) ==
    r = [payload |-> r.payload, binding |-> r.binding, lock |-> r.lock, alg |-> r.alg,
         digest |-> r.digest]

\* The digest of a record is of something that was registered; the rest of the file may
\* have been damaged.
Genuine(r) ==
    /\ IsVaultRecord(r)
    /\ r.payload \in Payloads /\ r.binding \in AllBindings /\ r.lock \in VaultKeys
    /\ \E p \in Payloads, b \in AllBindings : \E alg, key :
          /\ Registration(p, b) \in registered
          /\ r.digest = Digest(DigestInput(p, b), alg, key)

\* The files of a vault, in the order of their names.
IsList(v) == Len(v) \in Nat /\ v = [i \in 1..Len(v) |-> v[i]]

IsMigration(m) ==
    m = [pc |-> m.pc, key |-> m.key, at |-> m.at, files |-> m.files, record |-> m.record,
         failed |-> m.failed]

\* A record the migration is about to replace is sound, and so is its new digest then.
VaultInv ==
    /\ IsList(vault)
    /\ \A i \in 1..Len(vault) : vault[i] # Unreadable => Genuine(vault[i])
    /\ vault_key \in VaultKeys
    /\ IsMigration(migration)
    /\ migration.pc \in {"read", "replace"} =>
         /\ migration.at \in Nat \ {0}
         /\ migration.files \in 0..Len(vault)
         /\ migration.key \in VaultKeys \ {NoKey}
    /\ migration.pc = "replace" =>
         /\ Genuine(migration.record)
         /\ IsLegacy(migration.record) /\ Sound(migration.record, migration.key)

\* As many files as before.
LEMMA SameNumber ==
    ASSUME NEW v, IsList(v), NEW w, w = [i \in 1..Len(v) |-> w[i]]
    PROVE  IsList(w) /\ Len(w) = Len(v)
<1>1. DOMAIN w = 1..Len(v) /\ Len(v) \in Nat
    BY DEF IsList
<1>2. Len(w) = Len(v)
    BY <1>1
<1> QED
    BY <1>1, <1>2 DEF IsList

\* A file is added.
LEMMA OneAdded ==
    ASSUME NEW v, IsList(v), NEW x
    PROVE  /\ Len(Append(v, x)) = Len(v) + 1 /\ IsList(Append(v, x))
           /\ \A i \in 1..Len(v) : Append(v, x)[i] = v[i]
           /\ Append(v, x)[Len(v) + 1] = x
<1> DEFINE S == {v[i] : i \in 1..Len(v)} \cup {x}
<1>1. PICK n \in Nat : n = Len(v)
    BY DEF IsList
<1> DEFINE w == Append(v, x)
<1>2. v \in [1..n -> S]
    BY <1>1 DEF IsList
<1> HIDE DEF S
<1>3. v \in Seq(S) /\ x \in S
    BY <1>1, <1>2, SeqDef DEF S
<1>4. /\ w \in Seq(S) /\ Len(w) = n + 1
      /\ \A i \in 1..n : w[i] = v[i]
      /\ w[n + 1] = x
    BY <1>1, <1>3, AppendProperties
<1>5. w = [i \in 1..Len(w) |-> w[i]]
    BY <1>4, LenProperties
<1> HIDE DEF w
<1>6. Len(w) = Len(v) + 1 /\ IsList(w)
    BY <1>1, <1>4, <1>5 DEF IsList
<1> QED
    BY <1>1, <1>4, <1>6 DEF w

\* What is registered is genuine.
LEMMA RecordIsGenuine ==
    ASSUME NEW p \in Payloads, NEW b \in AllBindings, NEW lock \in VaultKeys, NEW alg, NEW key,
           Registration(p, b) \in registered
    PROVE  Genuine(Record(p, b, lock, alg, key))
<1>1. PICK r : r = Record(p, b, lock, alg, key)
    OBVIOUS
<1>2. /\ IsVaultRecord(r) /\ r.payload = p /\ r.binding = b /\ r.lock = lock
      /\ r.digest = Digest(DigestInput(p, b), alg, key)
    BY <1>1 DEF Record, IsVaultRecord
<1> QED
    BY <1>1, <1>2 DEF Genuine

\* A damaged file that can still be read has the digest it had.
LEMMA DamageKeepsTheDigest ==
    ASSUME VaultInv, NEW r, Genuine(r), NEW d \in Damaged(r), d # Unreadable
    PROVE  Genuine(d)
<1>1. \A j \in DOMAIN vault : vault[j] # Unreadable =>
                                vault[j].payload \in Payloads /\ vault[j].lock \in VaultKeys
    BY DEF VaultInv, IsList, Genuine
<1>2. \/ \E p \in Payloads : d = [r EXCEPT !.payload = p]
      \/ \E p \in Payloads, lock \in VaultKeys : d = [r EXCEPT !.payload = p, !.lock = lock]
      \/ \E b \in AllBindings : d = [r EXCEPT !.binding = b]
    BY <1>1 DEF Damaged, AllBindings
<1>3. /\ IsVaultRecord(d) /\ d.digest = r.digest
      /\ d.payload \in Payloads /\ d.binding \in AllBindings /\ d.lock \in VaultKeys
    BY <1>2 DEF Genuine, IsVaultRecord
<1> QED
    BY <1>3 DEF Genuine

\* The new digest of a sound record is of what its old one was of.
LEMMA MigratedIsGenuine ==
    ASSUME NEW r, Genuine(r), NEW key, Sound(r, key)
    PROVE  Genuine(Migrated(r, key))
<1>1. PICK p \in Payloads, b \in AllBindings :
          /\ Registration(p, b) \in registered
          /\ \E alg, k : r.digest = Digest(DigestInput(p, b), alg, k)
    BY DEF Genuine
<1>1a. PICK alg, k : r.digest = Digest(DigestInput(p, b), alg, k)
    BY <1>1
<1>2. r.digest = Digest(DigestInput(r.payload, r.binding), r.alg, key)
    BY DEF Sound, DigestMatches
<1>3. DigestInput(r.payload, r.binding) = DigestInput(p, b)
    <2>1. Digest(DigestInput(r.payload, r.binding), r.alg, key)
            = Digest(DigestInput(p, b), alg, k)
        BY <1>1a, <1>2
    <2> QED
        BY <2>1, DigestCoversOneValue
<1>4. PICK d : d = Digest(DigestInput(r.payload, r.binding), Keyed, key)
    OBVIOUS
<1>5. PICK m : m = [r EXCEPT !.alg = Keyed, !.digest = d]
    OBVIOUS
<1>6. m = Migrated(r, key)
    BY <1>4, <1>5 DEF Migrated
<1>7. /\ IsVaultRecord(m) /\ m.digest = d
      /\ m.payload = r.payload /\ m.binding = r.binding /\ m.lock = r.lock
    BY <1>5 DEF Genuine, IsVaultRecord
<1>8. m.digest = Digest(DigestInput(p, b), Keyed, key)
    BY <1>3, <1>4, <1>7
<1> QED
    BY <1>1, <1>6, <1>7, <1>8 DEF Genuine

\* The vault of an older version has what was registered then.
LEMMA VaultInit == ASSUME EvidenceVaultInit PROVE VaultInv
<1>1. PICK n \in Nat : vault \in [1..n -> LegacyRecords]
    BY EvidenceVaultAssumption DEF EvidenceVaultInit
<1>2. Len(vault) = n /\ vault = [i \in 1..n |-> vault[i]] /\ DOMAIN vault = 1..n
    BY <1>1
<1>3. ASSUME NEW i \in 1..n PROVE Genuine(vault[i])
    <2>1. PICK p \in Payloads, k \in VaultKeys,
               b \in {NoBinding} \cup {ByParameters(s) : s \in VaultSessions} :
                 vault[i] = Record(p, b, k, Plain, k)
        BY <1>1 DEF LegacyRecords
    <2>2. b \in AllBindings
        BY DEF AllBindings, Bindings
    <2>3. vault[i].payload = p /\ vault[i].binding = b
        BY <2>1 DEF Record
    <2>4. Registration(p, b) \in registered
        BY <1>2, <2>3 DEF EvidenceVaultInit
    <2> QED
        BY <2>1, <2>2, <2>4, RecordIsGenuine
<1>4. migration.pc = "idle" /\ IsMigration(migration) /\ vault_key \in VaultKeys
    BY DEF EvidenceVaultInit, NoMigration, IsMigration
<1> QED
    BY <1>2, <1>3, <1>4 DEF VaultInv, IsList

\* Registrations, damage, other keys and the migration, wherever it dies: no digest is
\* made for what was not registered.
LEMMA VaultStep ==
    ASSUME VaultInv, [EvidenceVaultNext]_vault_vars
    PROVE  VaultInv'
<1>0. vault_key' \in VaultKeys
    BY DEF VaultInv, EvidenceVaultNext, RegisterEvidence, ChangeKey, Damage, StartMigration,
           ReadRecord, NothingToRead, ReplaceRecord, ReplaceFails, MigrationDies, vault_vars
<1>1. CASE RegisterEvidence
    <2>1. PICK p \in Payloads, b \in AllBindings :
             /\ vault' = Append(vault, Record(p, b, vault_key, AlgorithmOf(vault_key), vault_key))
             /\ registered' = registered \cup {Registration(p, b)}
        BY <1>1 DEF RegisterEvidence
    <2>2. PICK r : r = Record(p, b, vault_key, AlgorithmOf(vault_key), vault_key)
        OBVIOUS
    <2>3. /\ IsList(vault') /\ Len(vault) \in Nat /\ Len(vault') = Len(vault) + 1
          /\ \A i \in 1..Len(vault) : vault'[i] = vault[i]
          /\ vault'[Len(vault) + 1] = r
        <3>1. vault' = Append(vault, r) /\ IsList(vault) /\ Len(vault) \in Nat
            BY <2>1, <2>2 DEF VaultInv, IsList
        <3> QED
            BY <3>1, OneAdded
    <2>4. \A x : Genuine(x) => Genuine(x)'
        BY <2>1 DEF Genuine
    <2>5. Genuine(r)'
        <3>1. b \in AllBindings
            OBVIOUS
        <3>2. /\ IsVaultRecord(r) /\ r.payload = p /\ r.binding = b /\ r.lock \in VaultKeys
              /\ r.digest = Digest(DigestInput(p, b), AlgorithmOf(vault_key), vault_key)
            BY <2>2 DEF Record, IsVaultRecord, VaultInv
        <3> QED
            BY <2>1, <3>1, <3>2 DEF Genuine
    <2>6. migration' = migration
        BY <1>1 DEF RegisterEvidence
    <2> QED
        BY <1>0, <2>3, <2>4, <2>5, <2>6 DEF VaultInv
<1>2. CASE ChangeKey
    BY <1>2 DEF ChangeKey, VaultInv, Genuine
<1>3. CASE Damage
    <2>0. PICK i \in DOMAIN vault :
             /\ vault[i] # Unreadable
             /\ \E r \in Damaged(vault[i]) : vault' = [vault EXCEPT ![i] = r]
        BY <1>3 DEF Damage
    <2>1. PICK r \in Damaged(vault[i]) : vault' = [vault EXCEPT ![i] = r]
        BY <2>0
    <2>2. UNCHANGED <<registered, migration>>
        BY <1>3 DEF Damage
    <2>3. IsList(vault) /\ DOMAIN vault = 1..Len(vault)
        BY DEF VaultInv, IsList
    <2>4. r # Unreadable => Genuine(r)
        BY <2>0, <2>1, <2>3, DamageKeepsTheDigest DEF VaultInv
    <2>5. /\ Len(vault') = Len(vault) /\ IsList(vault')
          /\ \A j \in 1..Len(vault) : vault'[j] = IF j = i THEN r ELSE vault[j]
        <3>1. /\ vault' = [j \in 1..Len(vault) |-> vault'[j]]
              /\ \A j \in 1..Len(vault) : vault'[j] = IF j = i THEN r ELSE vault[j]
            BY <2>1, <2>3
        <3> QED
            BY <2>3, <3>1, SameNumber
    <2> QED
        BY <1>0, <2>2, <2>3, <2>4, <2>5 DEF VaultInv, Genuine
<1>4. CASE StartMigration
    <2>1. PICK key \in VaultKeys \ {NoKey} :
             migration' = [NoMigration EXCEPT !.pc = "read", !.key = key, !.at = 1,
                                              !.files = Len(vault)]
        BY <1>4 DEF StartMigration
    <2>2. /\ IsMigration(migration') /\ migration'.pc = "read" /\ migration'.at = 1
          /\ migration'.files = Len(vault) /\ migration'.key \in VaultKeys \ {NoKey}
        BY <2>1 DEF NoMigration, IsMigration
    <2>3. Len(vault) \in 0..Len(vault)
        BY DEF VaultInv, IsList
    <2> QED
        BY <1>4, <2>2, <2>3 DEF StartMigration, VaultInv, Genuine
<1>5. CASE ReadRecord
    <2> DEFINE i == migration.at
    <2>1. /\ migration.pc = "read" /\ i \in 1..Len(vault) /\ i \in Nat \ {0}
          /\ migration.files \in 0..Len(vault) /\ migration.key \in VaultKeys \ {NoKey}
          /\ UNCHANGED <<vault, registered>>
        BY <1>5 DEF ReadRecord, VaultInv
    <2>2. CASE \E failed : migration' = NextFile(migration, failed)
        <3>1. /\ IsMigration(migration') /\ migration'.pc \in {"read", "ended"}
              /\ migration'.at = i + 1 /\ migration'.files = migration.files
              /\ migration'.key = migration.key
            BY <2>2 DEF NextFile, IsMigration, VaultInv
        <3> QED
            BY <1>0, <2>1, <3>1 DEF VaultInv, Genuine
    <2>3. CASE /\ vault[i] # Unreadable /\ IsLegacy(vault[i]) /\ Sound(vault[i], migration.key)
               /\ migration' = [migration EXCEPT !.pc = "replace", !.record = vault[i]]
        <3>1. /\ IsMigration(migration') /\ migration'.pc = "replace"
              /\ migration'.at = i /\ migration'.files = migration.files
              /\ migration'.key = migration.key /\ migration'.record = vault[i]
            BY <2>3 DEF IsMigration, VaultInv
        <3>2. Genuine(vault[i])
            BY <2>1, <2>3 DEF VaultInv
        <3> QED
            BY <1>0, <2>1, <2>3, <3>1, <3>2 DEF VaultInv, Genuine
    <2> QED
        BY <1>5, <2>2, <2>3 DEF ReadRecord
<1>6. CASE NothingToRead
    BY <1>6 DEF NothingToRead, IsMigration, VaultInv, Genuine
<1>7. CASE ReplaceRecord
    <2>1. PICK r : r = Migrated(migration.record, migration.key)
        OBVIOUS
    <2>2. Genuine(r)
        BY <1>7, <2>1, MigratedIsGenuine DEF ReplaceRecord, VaultInv
    <2>3. vault' = [vault EXCEPT ![migration.at] = r] /\ registered' = registered
        BY <1>7, <2>1 DEF ReplaceRecord
    <2>4. IsList(vault)
        BY DEF VaultInv
    <2>5. /\ Len(vault') = Len(vault) /\ IsList(vault')
          /\ \A j \in 1..Len(vault) : vault'[j] = IF j = migration.at THEN r ELSE vault[j]
        <3>1. DOMAIN vault = 1..Len(vault)
            BY <2>4 DEF IsList
        <3>2. /\ vault' = [j \in 1..Len(vault) |-> vault'[j]]
              /\ \A j \in 1..Len(vault) : vault'[j] = IF j = migration.at THEN r ELSE vault[j]
            BY <2>3, <3>1
        <3> QED
            BY <2>4, <3>2, SameNumber
    <2>6. /\ migration'.pc \in {"read", "ended"} /\ IsMigration(migration')
          /\ migration'.at = migration.at + 1 /\ migration'.files = migration.files
          /\ migration'.key = migration.key
        BY <1>7 DEF ReplaceRecord, NextFile, IsMigration, VaultInv
    <2>7. /\ migration.at \in Nat \ {0} /\ migration.files \in 0..Len(vault)
          /\ migration.key \in VaultKeys \ {NoKey}
        BY <1>7 DEF ReplaceRecord, VaultInv
    <2> QED
        BY <1>0, <2>2, <2>3, <2>4, <2>5, <2>6, <2>7 DEF VaultInv, Genuine
<1>8. CASE ReplaceFails
    <2>1. /\ migration'.pc \in {"read", "ended"} /\ IsMigration(migration')
          /\ migration'.at = migration.at + 1 /\ migration'.files = migration.files
          /\ migration'.key = migration.key
        BY <1>8 DEF ReplaceFails, NextFile, IsMigration, VaultInv
    <2> QED
        BY <1>8, <2>1 DEF ReplaceFails, VaultInv, Genuine
<1>9. CASE MigrationDies
    BY <1>9 DEF MigrationDies, NoMigration, IsMigration, VaultInv, Genuine
<1>10. CASE UNCHANGED vault_vars
    BY <1>10 DEF vault_vars, VaultInv, Genuine
<1> QED
    BY <1>1, <1>2, <1>3, <1>4, <1>5, <1>6, <1>7, <1>8, <1>9, <1>10 DEF EvidenceVaultNext

\* A quote that passes is in what was registered, in a state in which no digest was made for
\* anything else.
LEMMA VerifiedIsCollected ==
    ASSUME VaultInv PROVE VerifiedQuotesWereCollected
<1> SUFFICES ASSUME NEW f \in Findings, NEW s \in VaultSessions,
                    FindingVerified(f, s, vault_key), ~ f.not_tested
             PROVE  \E g \in registered : f.quote \in g.payload /\ s \in g.for
    BY DEF VerifiedQuotesWereCollected
<1> DEFINE r == vault[f.vault_id]
<1>1. f.vault_id \in DOMAIN vault /\ VerifyExactQuote(r, f.quote, s, vault_key)
    BY DEF FindingVerified
<1>2. Genuine(r)
    BY <1>1 DEF VaultInv, IsList, VerifyExactQuote
<1> HIDE DEF r
<1>3. PICK p \in Payloads, b \in AllBindings :
          /\ Registration(p, b) \in registered
          /\ \E alg, key : r.digest = Digest(DigestInput(p, b), alg, key)
    BY <1>2 DEF Genuine
<1>3a. PICK alg, key : r.digest = Digest(DigestInput(p, b), alg, key)
    BY <1>3
<1>4. DigestInput(r.payload, r.binding) = DigestInput(p, b)
    <2>1. Digest(DigestInput(r.payload, r.binding), r.alg, vault_key)
            = Digest(DigestInput(p, b), alg, key)
        BY <1>1, <1>3a DEF VerifyExactQuote, DigestMatches
    <2> QED
        BY <2>1, DigestCoversOneValue
<1>5. r.payload = p /\ r.binding = b
    BY <1>4, DigestInputIsOfOneRecord
<1>6. f.quote \in p /\ RecordSession(r) \in {Unbound, s, Redacted[s]}
    BY <1>1, <1>5 DEF VerifyExactQuote, OfSession
<1>7. s \in Registration(p, b).for
    <2>1. CASE b = NoBinding
        BY <2>1 DEF Registration
    <2>2. CASE b # NoBinding
        <3>1. PICK s2 \in VaultSessions : b \in Bindings(s2)
            BY <2>2 DEF AllBindings
        <3>2. CASE b = [session_id |-> s2, parameters |-> Unbound]
            <4>1. RecordSession(r) = s2 /\ s2 # Unbound
                BY <1>5, <3>2, EvidenceVaultAssumption DEF RecordSession
            <4>2. s2 = s
                BY <1>6, <4>1, EvidenceVaultAssumption
            <4>3. b \in Bindings(s)
                BY <3>1, <4>2
            <4> QED
                BY <2>2, <4>3 DEF Registration, SessionsBoundBy
        <3>3. CASE b = ByParameters(s2)
            <4>1. RecordSession(r) = Redacted[s2] /\ Redacted[s2] # Unbound
                BY <1>5, <3>3, EvidenceVaultAssumption DEF RecordSession, ByParameters
            <4>2. Redacted[s2] = Redacted[s]
                BY <1>6, <4>1, EvidenceVaultAssumption
            <4>3. b \in Bindings(s)
                BY <3>3, <4>2 DEF Bindings, ByParameters
            <4> QED
                BY <2>2, <4>3 DEF Registration, SessionsBoundBy
        <3> QED
            BY <3>1, <3>2, <3>3 DEF Bindings
    <2> QED
        BY <2>1, <2>2
<1>8. Registration(p, b).payload = p
    BY DEF Registration
<1> QED
    BY <1>3, <1>6, <1>7, <1>8

\* No digest is ever made for what was not registered.
LEMMA VaultAlways == EvidenceVaultSpec => []VaultInv
    BY VaultInit, VaultStep, PTL DEF EvidenceVaultSpec

\* The quote check of Gate 2 (verify_exact_quote) passes only what was collected for the
\* session, or for none, whatever files are damaged and wherever migrate_legacy_digests dies:
\* it re-seals no record that was changed.
THEOREM QuotesWereCollected == EvidenceVaultSpec => []VerifiedQuotesWereCollected
    BY VaultAlways, VerifiedIsCollected, PTL

\* migrate_legacy_digests takes no quote away that verified: the keyed digest it writes is
\* under the key the payload is encrypted with, so whoever can read the record can check it.
THEOREM MigrationsLoseNothing == EvidenceVaultSpec => MigrationLosesNoEvidence
<1> DEFINE Kept == /\ migration' # migration /\ vault' # vault
                   /\ migration.pc = "replace" => vault[migration.at] = migration.record
                   => \A f \in Findings, s \in VaultSessions, k \in VaultKeys :
                        FindingVerified(f, s, k) => FindingVerified(f, s, k)'
<1>1. ASSUME VaultInv, [EvidenceVaultNext]_vault_vars PROVE Kept
    <2> SUFFICES ASSUME migration' # migration,
                        migration.pc = "replace" => vault[migration.at] = migration.record,
                        NEW f \in Findings, NEW s \in VaultSessions, NEW k \in VaultKeys,
                        FindingVerified(f, s, k)
                 PROVE  FindingVerified(f, s, k)'
        OBVIOUS
    <2>1. CASE vault' = vault
        BY <2>1 DEF FindingVerified
    <2>2. CASE ReplaceRecord
        <3> DEFINE r == migration.record
                   key == migration.key
        <3>1. /\ vault' = [vault EXCEPT ![migration.at] = Migrated(r, key)]
              /\ IsLegacy(r) /\ Sound(r, key) /\ key \in VaultKeys \ {NoKey} /\ IsVaultRecord(r)
              /\ r.payload \in Payloads /\ r.binding \in AllBindings /\ r.lock \in VaultKeys
              /\ vault[migration.at] = r
            BY <1>1, <2>2 DEF ReplaceRecord, VaultInv, Genuine
        <3>2. CASE f.quote = {}
            BY <3>2 DEF FindingVerified
        <3>3. CASE f.quote # {}
            <4>1. f.vault_id \in DOMAIN vault /\ VerifyExactQuote(vault[f.vault_id], f.quote, s, k)
                BY <3>3 DEF FindingVerified
            <4>2. CASE f.vault_id # migration.at
                <5>1. f.vault_id \in DOMAIN vault' /\ vault'[f.vault_id] = vault[f.vault_id]
                    BY <3>1, <4>1, <4>2
                <5> QED
                    BY <3>3, <4>1, <5>1 DEF FindingVerified
            <4>3. CASE f.vault_id = migration.at
                <5>1. PICK m : m = Migrated(r, key)
                    OBVIOUS
                <5>2. /\ m.payload = r.payload /\ m.binding = r.binding /\ m.lock = r.lock
                      /\ m.alg = Keyed
                      /\ m.digest = Digest(DigestInput(r.payload, r.binding), Keyed, key)
                    BY <3>1, <5>1 DEF Migrated, IsVaultRecord
                <5>3. k = key
                    BY <3>1, <4>1, <4>3 DEF IsLegacy, Sound, Decrypts, VerifyExactQuote
                <5>4. DigestMatches(m, k) /\ Decrypts(m, k) /\ OfSession(m, s)
                    BY <3>1, <4>1, <4>3, <5>2, <5>3
                       DEF DigestMatches, Decrypts, OfSession, RecordSession, VerifyExactQuote
                <5>5. m # Unreadable
                    <6>1. m = Record(r.payload, r.binding, r.lock, Keyed, key)
                        BY <3>1, <5>1 DEF Migrated, Record, IsVaultRecord
                    <6> QED
                        BY <3>1, <6>1, RecordsAreReadable
                <5>6. f.vault_id \in DOMAIN vault' /\ vault'[f.vault_id] = m
                    BY <3>1, <4>1, <4>3, <5>1
                <5>7. VerifyExactQuote(m, f.quote, s, k)
                    BY <3>1, <4>1, <4>3, <5>2, <5>4, <5>5 DEF VerifyExactQuote
                <5> QED
                    BY <3>3, <5>6, <5>7 DEF FindingVerified
            <4> QED
                BY <4>2, <4>3
        <3> QED
            BY <3>2, <3>3
    <2>3. CASE RegisterEvidence \/ Damage
        BY <2>3 DEF RegisterEvidence, Damage
    <2>4. CASE ChangeKey \/ StartMigration
        <3>1. CASE ChangeKey
            BY <2>1, <3>1 DEF ChangeKey
        <3>2. CASE StartMigration
            BY <2>1, <3>2 DEF StartMigration
        <3> QED
            BY <2>4, <3>1, <3>2
    <2>5. CASE ReadRecord
        <3>1. vault' = vault
            BY <2>5 DEF ReadRecord
        <3> QED
            BY <2>1, <3>1
    <2>6. CASE NothingToRead \/ ReplaceFails \/ MigrationDies
        <3>1. vault' = vault
            BY <2>6 DEF NothingToRead, ReplaceFails, MigrationDies
        <3> QED
            BY <2>1, <3>1
    <2>7. CASE UNCHANGED vault_vars
        BY <2>1, <2>7 DEF vault_vars
    <2> QED
        BY <1>1, <2>2, <2>3, <2>4, <2>5, <2>6, <2>7 DEF EvidenceVaultNext
<1> QED
    BY <1>1, VaultAlways, PTL DEF EvidenceVaultSpec, MigrationLosesNoEvidence

---------------------------------------------------------------------------
(* The reviewer tokens.                                                    *)

\* Runs of the command do not overlap: of two that read before either writes, one edit is
\* lost, with what it said of a token.
OneOperator == \A o, p \in Operators : o = p

IsAttempt(a) ==
    a = [pc |-> a.pc, token |-> a.token, stamp |-> a.stamp, registry |-> a.registry,
         outcome |-> a.outcome, before |-> a.before]

\* Whoever reads the file as it is reads no revoked token and every granted one.
TokensFileInv ==
    /\ tokens_file = [stamp |-> tokens_file.stamp, state |-> tokens_file.state,
                      reviewers |-> tokens_file.reviewers]
    /\ tokens_file.stamp \in Nat /\ issued \in Nat
    /\ \A e \in tokens_file.reviewers : e = Entry(e.name, e.token) /\ e.token \in 1..issued
    /\ \A e, g \in tokens_file.reviewers : e.token = g.token => e = g
    /\ revoked \subseteq 1..issued
    /\ \A e \in tokens_file.reviewers : e.token \notin revoked
    /\ \A t \in granted : /\ tokens_file.state = "ok"
                          /\ \E e \in tokens_file.reviewers : e.token = t

\* The command works on the file as it is, and takes back only what is no longer granted.
EditInv ==
    /\ edit = [o \in Operators |-> edit[o]]
    /\ \A o \in Operators :
          edit[o].pc # "idle" => /\ edit[o].reviewers = tokens_file.reviewers
                                 /\ TokensOf(edit[o].reviewers, edit[o].name) \cap granted = {}

\* A registry that can answer a request: what was revoked when the request came in is not in
\* it, and what was granted then and still is, is.
Answers(registry, a) ==
    /\ a.before = "revoked" => \A e \in registry : e.token # a.token
    /\ a.before = "granted" /\ a.token \in granted => \E e \in registry : e.token = a.token

\* The cache is the file as it is, or as it was under an older stamp.
CacheInv ==
    /\ cache.stamp \in Int /\ cache.stamp <= tokens_file.stamp
    /\ cache.stamp = tokens_file.stamp => cache.registry = tokens_file.reviewers

\* A request asks for the file under its stamp of after it came in, so what it finds in the
\* cache was read after that stamp was made.
AttemptInv(a) ==
    /\ IsAttempt(a)
    /\ a.token \in 0..issued
    /\ a.before = "revoked" => a.token \in revoked
    /\ a.pc \in {"lookup", "read", "store", "check"} => a.stamp \in 0..tokens_file.stamp
    /\ a.pc = "store" /\ a.stamp = tokens_file.stamp => a.registry = tokens_file.reviewers
    /\ a.pc \in {"store", "check"} => Answers(a.registry, a)
    /\ a.before = "revoked" => a.outcome \notin {"authenticated", "mismatch"}
    /\ a.before = "granted" /\ a.token \in granted => a.outcome # "invalid"

\* What a request may find under its stamp: in the cache, and in what others are about to
\* store there.
LookUpInv(a) ==
    a.pc = "lookup" =>
        /\ cache.stamp = a.stamp => Answers(cache.registry, a)
        /\ \A q \in Requests : attempt[q].pc = "store" /\ attempt[q].stamp = a.stamp
                                 => Answers(attempt[q].registry, a)

AttemptsInv ==
    /\ attempt = [r \in Requests |-> attempt[r]]
    /\ \A r \in Requests : AttemptInv(attempt[r]) /\ LookUpInv(attempt[r])

TokenInv == TokensFileInv /\ EditInv /\ CacheInv /\ AttemptsInv

\* The file as it is answers every request.
LEMMA FileAnswers ==
    ASSUME TokensFileInv, NEW a, AttemptInv(a)
    PROVE  Answers(tokens_file.reviewers, a)
    BY DEF TokensFileInv, AttemptInv, Answers

\* No file, no tokens, no requests.
LEMMA TokenInit == ASSUME ReviewerTokensInit PROVE TokenInv
<1>1. TokensFileInv /\ CacheInv
    BY DEF ReviewerTokensInit, TokensFileInv, CacheInv
<1>2. EditInv
    BY DEF ReviewerTokensInit, EditInv, NoEdit
<1>3. AttemptInv(NoAttempt) /\ NoAttempt.pc = "idle"
    BY DEF ReviewerTokensInit, AttemptInv, IsAttempt, NoAttempt
<1>4. AttemptsInv
    BY <1>3 DEF ReviewerTokensInit, AttemptsInv, LookUpInv
<1> QED
    BY <1>1, <1>2, <1>4 DEF TokenInv

\* A change of the file, and of what is granted and revoked, leaves the requests under way
\* what they were: their stamps get old, and no token of theirs is granted anew.
LEMMA FileChangesUnderRequests ==
    ASSUME TokenInv, UNCHANGED <<attempt, cache>>,
           issued' \in Nat, issued <= issued', revoked \subseteq revoked',
           \A t \in 0..issued : t \in granted' => t \in granted,
           \/ tokens_file' = tokens_file
           \/ tokens_file'.stamp = tokens_file.stamp + 1
    PROVE  CacheInv' /\ AttemptsInv'
<1>1. /\ tokens_file.stamp \in Nat /\ issued \in Nat
      /\ CacheInv /\ AttemptsInv
    BY DEF TokenInv, TokensFileInv
<1>2. CacheInv'
    BY <1>1 DEF CacheInv
<1>3. ASSUME NEW a, AttemptInv(a), NEW registry, Answers(registry, a) PROVE Answers(registry, a)'
    BY <1>3 DEF AttemptInv, Answers
<1>4. ASSUME NEW r \in Requests PROVE AttemptInv(attempt[r])'
    <2>1. PICK a : a = attempt[r]
        OBVIOUS
    <2>2. AttemptInv(a)
        BY <1>1, <2>1 DEF AttemptsInv
    <2>3. /\ a.token \in 0..issued' /\ (a.before = "revoked" => a.token \in revoked')
          /\ (a.before = "granted" /\ a.token \in granted' => a.outcome # "invalid")
        BY <1>1, <2>2 DEF AttemptInv
    <2>4. a.pc \in {"store", "check"} => Answers(a.registry, a)'
        BY <1>3, <2>2 DEF AttemptInv
    <2>5. /\ a.pc \in {"lookup", "read", "store", "check"} => a.stamp \in 0..tokens_file'.stamp
          /\ a.pc = "store" /\ a.stamp = tokens_file'.stamp => a.registry = tokens_file'.reviewers
        BY <1>1, <2>2 DEF AttemptInv
    <2>6. AttemptInv(a)'
        BY <2>2, <2>3, <2>4, <2>5 DEF AttemptInv
    <2> QED
        BY <2>1, <2>6
<1>5. ASSUME NEW r \in Requests PROVE LookUpInv(attempt[r])'
    <2>1. PICK a : a = attempt[r]
        OBVIOUS
    <2>2. AttemptInv(a) /\ LookUpInv(a)
        BY <1>1, <2>1 DEF AttemptsInv
    <2>3. LookUpInv(a)'
        BY <1>3, <2>2 DEF LookUpInv
    <2> QED
        BY <2>1, <2>3
<1>6. AttemptsInv'
    BY <1>1, <1>4, <1>5 DEF AttemptsInv
<1> QED
    BY <1>2, <1>6

\* The command writes what it read but for one name: nothing granted is lost and nothing
\* revoked comes back.
LEMMA EndEditKeepsTheFile ==
    ASSUME TokenInv, OneOperator, NEW o \in Operators, EndEdit(o)
    PROVE  /\ TokensFileInv' /\ EditInv'
           /\ issued' \in Nat /\ issued <= issued' /\ revoked \subseteq revoked'
           /\ \A t \in 0..issued : t \in granted' => t \in granted
           /\ tokens_file'.stamp = tokens_file.stamp + 1
<1> DEFINE now == tokens_file.reviewers
           name == edit[o].name
           new == IF edit[o].op = "remove" THEN {} ELSE {issued + 1}
<1>1. /\ edit[o].reviewers = now
      /\ \A t \in granted : \A e \in now : e.token = t => e.name # name
    <2>1. edit[o].pc # "idle"
        BY DEF EndEdit
    <2>2. edit[o].reviewers = now /\ TokensOf(now, name) \cap granted = {}
        BY <2>1 DEF TokenInv, EditInv
    <2> QED
        BY <2>2 DEF TokensOf
<1>2. /\ tokens_file.stamp \in Nat /\ issued \in Nat
      /\ \A e \in now : e = Entry(e.name, e.token) /\ e.token \in 1..issued
      /\ \A e, g \in now : e.token = g.token => e = g
      /\ revoked \subseteq 1..issued
      /\ \A e \in now : e.token \notin revoked
      /\ \A t \in granted : \E e \in now : e.token = t
    BY DEF TokenInv, TokensFileInv
<1>3. /\ tokens_file' = [stamp |-> tokens_file.stamp + 1, state |-> "ok",
                         reviewers |-> WithoutName(now, name) \cup {Entry(name, t) : t \in new}]
      /\ issued' = IF new = {} THEN issued ELSE issued + 1
      /\ granted' = granted \cup new
      /\ revoked' = revoked \cup TokensOf(now, name)
      /\ edit' = [edit EXCEPT ![o] = NoEdit]
    BY <1>1 DEF EndEdit, Written
<1>4. /\ issued' \in Nat /\ issued <= issued' /\ revoked \subseteq revoked'
      /\ \A t \in new : t = issued + 1 /\ t \in 1..issued'
      /\ \A t \in 1..issued : t \in 1..issued'
    BY <1>2, <1>3
<1> HIDE DEF new
<1>5. \A t \in 0..issued : t \in granted' => t \in granted
    BY <1>2, <1>3, <1>4
<1>6. \A e \in tokens_file'.reviewers :
          \/ e \in now /\ e.name # name
          \/ \E t \in new : e = Entry(name, t)
    BY <1>3 DEF WithoutName
<1>7. \A e \in now : e.name # name => e \in tokens_file'.reviewers
    BY <1>3 DEF WithoutName
<1>8. \A n, t : Entry(n, t).name = n /\ Entry(n, t).token = t
    BY DEF Entry
<1>9. \A e \in tokens_file'.reviewers : e = Entry(e.name, e.token) /\ e.token \in 1..issued'
    BY <1>2, <1>4, <1>6, <1>8
<1>10. ASSUME NEW e \in tokens_file'.reviewers, NEW g \in tokens_file'.reviewers,
              e.token = g.token
       PROVE  e = g
    <2>1. \A t \in new : t \notin 1..issued
        BY <1>2, <1>4
    <2> QED
        BY <1>2, <1>4, <1>6, <1>8, <1>10, <2>1
<1>11. revoked' \subseteq 1..issued'
    <2>1. TokensOf(now, name) \subseteq 1..issued
        BY <1>2 DEF TokensOf
    <2>2. 1..issued \subseteq 1..issued'
        BY <1>4
    <2> QED
        BY <1>2, <1>3, <2>1, <2>2
<1>12. ASSUME NEW e \in tokens_file'.reviewers PROVE e.token \notin revoked'
    <2>1. CASE e \in now /\ e.name # name
        <3>1. e.token \notin TokensOf(now, name)
            BY <1>2, <2>1 DEF TokensOf
        <3> QED
            BY <1>2, <1>3, <2>1, <3>1
    <2>2. CASE \E t \in new : e = Entry(name, t)
        <3>1. e.token = issued + 1
            BY <1>4, <1>8, <2>2
        <3>2. issued + 1 \notin revoked /\ issued + 1 \notin TokensOf(now, name)
            BY <1>2 DEF TokensOf
        <3> QED
            BY <1>3, <3>1, <3>2
    <2> QED
        BY <1>6, <2>1, <2>2
<1>13. ASSUME NEW t \in granted' PROVE \E e \in tokens_file'.reviewers : e.token = t
    <2>1. CASE t \in granted
        <3>1. PICK e \in now : e.token = t
            BY <1>2, <2>1
        <3> QED
            BY <1>1, <1>7, <2>1, <3>1
    <2>2. CASE t \in new
        <3>1. Entry(name, t) \in tokens_file'.reviewers
            BY <1>3, <2>2
        <3> QED
            BY <1>8, <3>1
    <2> QED
        BY <1>3, <2>1, <2>2
<1>14. TokensFileInv'
    <2>1. /\ tokens_file' = [stamp |-> tokens_file'.stamp, state |-> tokens_file'.state,
                             reviewers |-> tokens_file'.reviewers]
          /\ tokens_file'.stamp \in Nat /\ tokens_file'.state = "ok"
        BY <1>2, <1>3
    <2> QED
        BY <1>4, <1>9, <1>10, <1>11, <1>12, <1>13, <2>1 DEF TokensFileInv
<1>15. EditInv'
    <2>1. edit = [q \in Operators |-> edit[q]]
        BY DEF TokenInv, EditInv
    <2>2. /\ edit' = [q \in Operators |-> edit'[q]]
          /\ \A q \in Operators : edit'[q] = NoEdit
        BY <1>3, <2>1 DEF OneOperator
    <2> QED
        BY <2>2 DEF EditInv, NoEdit
<1>16. tokens_file'.stamp = tokens_file.stamp + 1
    BY <1>3
<1> QED
    BY <1>4, <1>5, <1>14, <1>15, <1>16

\* A change of what the file's operators do.
LEMMA TokenEdits ==
    ASSUME TokenInv, OneOperator,
           \/ \E o \in Operators : BeginEdit(o) \/ EndEdit(o) \/ EditFails(o)
           \/ EditByHand
    PROVE  TokenInv'
<1>0. issued \in Nat /\ TokensFileInv /\ EditInv
    BY DEF TokenInv, TokensFileInv
<1>1. ASSUME NEW o \in Operators, BeginEdit(o) PROVE TokenInv'
    <2>1. PICK name \in Names, op \in {"add", "replace", "remove"} :
             /\ edit' = [edit EXCEPT ![o] = [pc |-> "write", op |-> op, name |-> name,
                                              reviewers |-> tokens_file.reviewers]]
             /\ granted' = granted \ TokensOf(tokens_file.reviewers, name)
             /\ UNCHANGED <<tokens_file, cache, attempt, setting, issued, revoked>>
        BY <1>1 DEF BeginEdit
    <2>2. CacheInv' /\ AttemptsInv'
        BY <1>0, <2>1, FileChangesUnderRequests
    <2>3. TokensFileInv'
        BY <1>0, <2>1 DEF TokensFileInv
    <2>4. /\ edit' = [q \in Operators |-> edit'[q]]
          /\ \A q \in Operators : /\ edit'[q].reviewers = tokens_file.reviewers
                                  /\ edit'[q].name = name
        BY <1>0, <2>1 DEF EditInv, OneOperator
    <2>5. EditInv'
        BY <2>1, <2>4 DEF EditInv
    <2> QED
        BY <2>2, <2>3, <2>5 DEF TokenInv
<1>2. ASSUME NEW o \in Operators, EndEdit(o) PROVE TokenInv'
    <2>1. /\ TokensFileInv' /\ EditInv'
          /\ issued' \in Nat /\ issued <= issued' /\ revoked \subseteq revoked'
          /\ \A t \in 0..issued : t \in granted' => t \in granted
          /\ tokens_file'.stamp = tokens_file.stamp + 1
        BY <1>2, EndEditKeepsTheFile
    <2>2. UNCHANGED <<attempt, cache>>
        BY <1>2 DEF EndEdit
    <2> QED
        BY <2>1, <2>2, FileChangesUnderRequests DEF TokenInv
<1>3. ASSUME NEW o \in Operators, EditFails(o) PROVE TokenInv'
    <2>1. /\ edit' = [edit EXCEPT ![o] = NoEdit]
          /\ UNCHANGED <<tokens_file, cache, attempt, setting, issued, granted, revoked>>
        BY <1>3 DEF EditFails
    <2>2. CacheInv' /\ AttemptsInv'
        BY <1>0, <2>1, FileChangesUnderRequests
    <2>3. EditInv' /\ TokensFileInv'
        BY <1>0, <2>1 DEF EditInv, TokensFileInv, NoEdit
    <2> QED
        BY <2>2, <2>3 DEF TokenInv
<1>4. CASE EditByHand
    <2>1. PICK state : tokens_file' = [stamp |-> tokens_file.stamp + 1, state |-> state,
                                       reviewers |-> {}]
        BY <1>4 DEF EditByHand, Written
    <2>2. /\ granted' = {} /\ \A o \in Operators : edit[o].pc = "idle"
          /\ UNCHANGED <<cache, attempt, edit, setting, issued, revoked>>
        BY <1>4 DEF EditByHand
    <2>3. CacheInv' /\ AttemptsInv'
        BY <1>0, <2>1, <2>2, FileChangesUnderRequests
    <2>4. TokensFileInv'
        BY <1>0, <2>1, <2>2 DEF TokensFileInv
    <2>5. EditInv'
        BY <1>0, <2>2 DEF EditInv
    <2> QED
        BY <2>3, <2>4, <2>5 DEF TokenInv
<1> QED
    BY <1>1, <1>2, <1>3, <1>4

\* One request takes a step of its own, and the file is what it was: the others need only
\* look at what it puts before them, a registry that it is about to store.
LEMMA RequestSteps ==
    ASSUME TokenInv, NEW r \in Requests, NEW b, attempt' = [attempt EXCEPT ![r] = b],
           UNCHANGED <<tokens_file, edit, issued, granted, revoked>>,
           CacheInv', AttemptInv(b),
           b.pc = "lookup" => /\ cache'.stamp = b.stamp => Answers(cache'.registry, b)
                              /\ \A q \in Requests : attempt[q].pc = "store" /\ attempt[q].stamp = b.stamp
                                                       => Answers(attempt[q].registry, b),
           b.pc = "store" => \A q \in Requests : attempt[q].pc = "lookup" /\ attempt[q].stamp = b.stamp
                                                       => Answers(b.registry, attempt[q]),
           \A q \in Requests : attempt[q].pc = "lookup" /\ attempt[q].stamp = cache'.stamp
                                                       => Answers(cache'.registry, attempt[q])
    PROVE  TokenInv'
<1>1. TokensFileInv' /\ EditInv'
    BY DEF TokenInv, TokensFileInv, EditInv
<1>2. /\ attempt = [q \in Requests |-> attempt[q]]
      /\ \A q \in Requests : AttemptInv(attempt[q]) /\ LookUpInv(attempt[q])
    BY DEF TokenInv, AttemptsInv
<1>3. /\ attempt' = [q \in Requests |-> attempt'[q]]
      /\ \A q \in Requests : attempt'[q] = IF q = r THEN b ELSE attempt[q]
    BY <1>2
<1>4. \A a : AttemptInv(a) => AttemptInv(a)'
    BY DEF AttemptInv, Answers
<1>5. ASSUME NEW q \in Requests PROVE AttemptInv(attempt[q])'
    <2>1. PICK a : a = attempt'[q]
        OBVIOUS
    <2>2. AttemptInv(a)
        BY <1>2, <1>3, <2>1
    <2>3. AttemptInv(a)'
        BY <1>4, <2>2
    <2> QED
        BY <2>1, <2>3
<1>6. ASSUME NEW q \in Requests PROVE LookUpInv(attempt[q])'
    <2>1. PICK a : a = attempt'[q]
        OBVIOUS
    <2> SUFFICES ASSUME a.pc = "lookup"
                 PROVE  /\ cache'.stamp = a.stamp => Answers(cache'.registry, a)
                        /\ \A p \in Requests : attempt'[p].pc = "store" /\ attempt'[p].stamp = a.stamp
                                                 => Answers(attempt'[p].registry, a)
        BY <2>1 DEF LookUpInv, Answers
    <2>2. cache'.stamp = a.stamp => Answers(cache'.registry, a)
        BY <1>3, <2>1
    <2>3. ASSUME NEW p \in Requests, attempt'[p].pc = "store", attempt'[p].stamp = a.stamp
          PROVE  Answers(attempt'[p].registry, a)
        <3>1. CASE p = r
            BY <1>3, <2>1, <2>3, <3>1
        <3>2. CASE p # r
            BY <1>2, <1>3, <2>1, <2>3, <3>2 DEF LookUpInv
        <3> QED
            BY <3>1, <3>2
    <2> QED
        BY <2>2, <2>3
<1>7. AttemptsInv'
    BY <1>3, <1>5, <1>6 DEF AttemptsInv
<1> QED
    BY <1>1, <1>7 DEF TokenInv

\* What a request ends with keeps its token and what was true of it.
LEMMA RequestEnds ==
    ASSUME TokenInv, NEW r \in Requests, NEW outcome, Ends(r, outcome),
           UNCHANGED <<tokens_file, cache, edit, issued, granted, revoked>>,
           attempt[r].before = "revoked" => outcome \notin {"authenticated", "mismatch"},
           attempt[r].before = "granted" /\ attempt[r].token \in granted => outcome # "invalid"
    PROVE  TokenInv'
<1>1. PICK a : a = attempt[r]
    OBVIOUS
<1>2. PICK b : b = [NoAttempt EXCEPT !.token = a.token, !.before = a.before, !.outcome = outcome]
    OBVIOUS
<1>3. attempt' = [attempt EXCEPT ![r] = b]
    BY <1>1, <1>2 DEF Ends
<1>4. /\ IsAttempt(b) /\ b.pc = "idle" /\ b.token = a.token /\ b.before = a.before
      /\ b.outcome = outcome
    BY <1>2 DEF NoAttempt, IsAttempt
<1>5. AttemptInv(a) /\ CacheInv
    BY <1>1 DEF TokenInv, AttemptsInv
<1>6. AttemptInv(b)
    BY <1>1, <1>4, <1>5 DEF AttemptInv
<1>7. CacheInv'
    BY <1>5 DEF CacheInv
<1>8. \A q \in Requests : attempt[q].pc = "lookup" /\ attempt[q].stamp = cache'.stamp
                            => Answers(cache'.registry, attempt[q])
    BY DEF TokenInv, AttemptsInv, LookUpInv
<1> QED
    BY <1>3, <1>4, <1>6, <1>7, <1>8, RequestSteps

\* Requests, by their steps.
LEMMA TokenRequests ==
    ASSUME TokenInv, NEW r \in Requests,
           \/ BeginRequest(r) \/ StatFile(r) \/ LookUp(r) \/ ReadRegistry(r)
           \/ StoreRegistry(r) \/ CheckToken(r) \/ RefuseUnchecked(r)
    PROVE  TokenInv'
<1>1. PICK a : a = attempt[r]
    OBVIOUS
<1>2. /\ AttemptInv(a) /\ LookUpInv(a) /\ TokensFileInv /\ CacheInv
      /\ \A q \in Requests : AttemptInv(attempt[q]) /\ LookUpInv(attempt[q])
    BY <1>1 DEF TokenInv, AttemptsInv
<1>3. /\ IsAttempt(a) /\ a.token \in 0..issued /\ (a.before = "revoked" => a.token \in revoked)
      /\ issued \in Nat /\ tokens_file.stamp \in Nat
    BY <1>2 DEF AttemptInv, TokensFileInv
\* what others may find in the cache, if it is left alone
<1>4. ASSUME cache' = cache
      PROVE  \A q \in Requests : attempt[q].pc = "lookup" /\ attempt[q].stamp = cache'.stamp
                                   => Answers(cache'.registry, attempt[q])
    BY <1>2, <1>4 DEF LookUpInv
<1>5. ASSUME cache' = cache, tokens_file' = tokens_file PROVE CacheInv'
    BY <1>2, <1>5 DEF CacheInv
<1>6. CASE BeginRequest(r)
    <2>1. PICK token \in 0..issued, before \in {"revoked", "granted", "none"} :
             /\ attempt' = [attempt EXCEPT ![r] =
                   [NoAttempt EXCEPT !.pc = "stat", !.token = token, !.before = before]]
             /\ before = IF token \in revoked THEN "revoked"
                         ELSE IF token \in granted THEN "granted" ELSE "none"
        BY <1>6 DEF BeginRequest
    <2>2. PICK b : b = [NoAttempt EXCEPT !.pc = "stat", !.token = token, !.before = before]
        OBVIOUS
    <2>3. /\ IsAttempt(b) /\ b.pc = "stat" /\ b.token = token /\ b.before = before
          /\ b.outcome = "none"
        BY <2>2 DEF NoAttempt, IsAttempt
    <2>4. AttemptInv(b)
        BY <2>1, <2>3 DEF AttemptInv
    <2>5. attempt' = [attempt EXCEPT ![r] = b]
          /\ UNCHANGED <<tokens_file, cache, edit, issued, granted, revoked>>
        BY <1>6, <2>1, <2>2 DEF BeginRequest
    <2> QED
        BY <1>4, <1>5, <2>3, <2>4, <2>5, RequestSteps
<1>7. CASE StatFile(r)
    <2>1. UNCHANGED <<tokens_file, cache, edit, issued, granted, revoked>>
        BY <1>7 DEF StatFile
    <2>2. CASE \E outcome \in {"declared", "unavailable"} : Ends(r, outcome)
        BY <2>1, <2>2, RequestEnds
    <2>3. CASE attempt' = [attempt EXCEPT ![r].pc = "lookup", ![r].stamp = tokens_file.stamp]
        <3>1. PICK b : b = [a EXCEPT !.pc = "lookup", !.stamp = tokens_file.stamp]
            OBVIOUS
        <3>2. attempt' = [attempt EXCEPT ![r] = b]
            BY <1>1, <2>3, <3>1
        <3>3. /\ IsAttempt(b) /\ b.pc = "lookup" /\ b.stamp = tokens_file.stamp
              /\ b.token = a.token /\ b.before = a.before /\ b.outcome = a.outcome
            BY <1>3, <3>1 DEF IsAttempt
        <3>4. AttemptInv(b)
            BY <1>2, <1>3, <3>3 DEF AttemptInv
        <3>5. Answers(tokens_file.reviewers, b)
            BY <1>2, <3>4, FileAnswers
        <3>6. cache'.stamp = b.stamp => Answers(cache'.registry, b)
            BY <1>2, <2>1, <3>3, <3>5 DEF CacheInv
        <3>7. \A q \in Requests : attempt[q].pc = "store" /\ attempt[q].stamp = b.stamp
                                    => Answers(attempt[q].registry, b)
            BY <1>2, <3>3, <3>5 DEF AttemptInv
        <3> QED
            BY <1>4, <1>5, <2>1, <3>2, <3>3, <3>4, <3>6, <3>7, RequestSteps
    <2> QED
        BY <1>7, <2>2, <2>3 DEF StatFile
<1>8. CASE LookUp(r)
    <2>1. /\ UNCHANGED <<tokens_file, cache, edit, issued, granted, revoked>>
          /\ a.pc = "lookup"
        BY <1>1, <1>8 DEF LookUp
    <2>2. PICK b : b = IF cache.stamp = a.stamp
                       THEN [a EXCEPT !.pc = "check", !.registry = cache.registry]
                       ELSE [a EXCEPT !.pc = "read"]
        OBVIOUS
    <2>3. attempt' = [attempt EXCEPT ![r] = b]
        BY <1>1, <1>8, <2>2 DEF LookUp
    <2>4. /\ IsAttempt(b) /\ b.pc \in {"check", "read"} /\ b.stamp = a.stamp
          /\ b.token = a.token /\ b.before = a.before /\ b.outcome = a.outcome
          /\ b.pc = "check" => b.registry = cache.registry /\ cache.stamp = a.stamp
        BY <1>3, <2>2 DEF IsAttempt
    <2>5. b.pc = "check" => Answers(b.registry, b)
        BY <1>2, <2>1, <2>4 DEF LookUpInv, Answers
    <2>6. AttemptInv(b)
        BY <1>2, <1>3, <2>1, <2>4, <2>5 DEF AttemptInv
    <2> QED
        BY <1>4, <1>5, <2>1, <2>3, <2>4, <2>6, RequestSteps
<1>9. CASE ReadRegistry(r)
    <2>1. UNCHANGED <<tokens_file, cache, edit, issued, granted, revoked>> /\ a.pc = "read"
        BY <1>1, <1>9 DEF ReadRegistry
    <2>2. CASE Ends(r, "unavailable")
        BY <2>1, <2>2, RequestEnds
    <2>3. CASE attempt' = [attempt EXCEPT ![r].pc = "store", ![r].registry = tokens_file.reviewers]
        <3>1. PICK b : b = [a EXCEPT !.pc = "store", !.registry = tokens_file.reviewers]
            OBVIOUS
        <3>2. attempt' = [attempt EXCEPT ![r] = b]
            BY <1>1, <2>3, <3>1
        <3>3. /\ IsAttempt(b) /\ b.pc = "store" /\ b.registry = tokens_file.reviewers
              /\ b.stamp = a.stamp
              /\ b.token = a.token /\ b.before = a.before /\ b.outcome = a.outcome
            BY <1>3, <3>1 DEF IsAttempt
        <3>4. Answers(tokens_file.reviewers, b)
            <4>1. Answers(tokens_file.reviewers, a)
                BY <1>2, FileAnswers
            <4> QED
                BY <3>3, <4>1 DEF Answers
        <3>5. AttemptInv(b)
            BY <1>2, <1>3, <2>1, <3>3, <3>4 DEF AttemptInv
        <3>6. \A q \in Requests : Answers(b.registry, attempt[q])
            BY <1>2, <3>3, FileAnswers
        <3> QED
            BY <1>4, <1>5, <2>1, <3>2, <3>3, <3>5, <3>6, RequestSteps
    <2> QED
        BY <1>9, <2>2, <2>3 DEF ReadRegistry
<1>10. CASE StoreRegistry(r)
    <2>1. /\ UNCHANGED <<tokens_file, edit, issued, granted, revoked>> /\ a.pc = "store"
          /\ cache' = [stamp |-> a.stamp, registry |-> a.registry]
        BY <1>1, <1>10 DEF StoreRegistry
    <2>2. PICK b : b = [a EXCEPT !.pc = "check"]
        OBVIOUS
    <2>3. attempt' = [attempt EXCEPT ![r] = b]
        BY <1>1, <1>10, <2>2 DEF StoreRegistry
    <2>4. /\ IsAttempt(b) /\ b.pc = "check" /\ b.registry = a.registry /\ b.stamp = a.stamp
          /\ b.token = a.token /\ b.before = a.before /\ b.outcome = a.outcome
        BY <1>3, <2>2 DEF IsAttempt
    <2>5. AttemptInv(b)
        BY <1>2, <2>1, <2>4 DEF AttemptInv, Answers
    <2>6. CacheInv'
        BY <1>2, <1>3, <2>1 DEF CacheInv, AttemptInv
    <2>7. \A q \in Requests : attempt[q].pc = "lookup" /\ attempt[q].stamp = cache'.stamp
                                => Answers(cache'.registry, attempt[q])
        BY <1>1, <1>2, <2>1 DEF LookUpInv
    <2> QED
        BY <2>1, <2>3, <2>4, <2>5, <2>6, <2>7, RequestSteps
<1>11. CASE CheckToken(r)
    <2>1. /\ UNCHANGED <<tokens_file, cache, edit, issued, granted, revoked>>
          /\ a.pc = "check" /\ Answers(a.registry, a)
        BY <1>1, <1>2, <1>11 DEF CheckToken, AttemptInv
    <2>2. CASE Authenticate(a.registry, a.token) = {}
        <3>1. Ends(r, "invalid")
            BY <1>1, <1>11, <2>2 DEF CheckToken
        <3>2. \A e \in a.registry : e.token # a.token
            BY <2>2 DEF Authenticate
        <3>3. ~ (a.before = "granted" /\ a.token \in granted)
            BY <2>1, <3>2 DEF Answers
        <3> QED
            BY <1>1, <2>1, <3>1, <3>3, RequestEnds
    <2>3. CASE Authenticate(a.registry, a.token) # {}
        <3>1. PICK outcome \in {"authenticated", "mismatch"} : Ends(r, outcome)
            BY <1>1, <1>11, <2>3 DEF CheckToken
        <3>2. \E e \in a.registry : e.token = a.token
            BY <2>3 DEF Authenticate
        <3>3. a.before # "revoked"
            BY <2>1, <3>2 DEF Answers
        <3> QED
            BY <1>1, <2>1, <3>1, <3>3, RequestEnds
    <2> QED
        BY <2>2, <2>3
<1>12. CASE RefuseUnchecked(r)
    <2>1. UNCHANGED <<tokens_file, cache, edit, issued, granted, revoked>>
        BY <1>12 DEF RefuseUnchecked
    <2>2. PICK outcome \in {"missing", "limited"} : Ends(r, outcome)
        BY <1>12 DEF RefuseUnchecked
    <2> QED
        BY <2>1, <2>2, RequestEnds
<1> QED
    BY <1>6, <1>7, <1>8, <1>9, <1>10, <1>11, <1>12

\* Every step of the command, of a hand on the file, and of the API.
LEMMA TokenStep ==
    ASSUME TokenInv, OneOperator, [ReviewerTokensNext]_token_vars
    PROVE  TokenInv'
<1>1. CASE RestartApi
    <2>1. /\ cache' = [stamp |-> -1, registry |-> NoRegistry]
          /\ attempt' = [r \in Requests |-> NoAttempt]
          /\ UNCHANGED <<tokens_file, edit, setting, issued, granted, revoked>>
        BY <1>1 DEF RestartApi
    <2>2. TokensFileInv' /\ EditInv'
        BY <2>1 DEF TokenInv, TokensFileInv, EditInv
    <2>3. CacheInv'
        BY <2>1 DEF TokenInv, TokensFileInv, CacheInv
    <2>4. AttemptInv(NoAttempt)' /\ NoAttempt.pc = "idle"
        BY <2>1 DEF TokenInv, TokensFileInv, AttemptInv, IsAttempt, NoAttempt
    <2>5. AttemptsInv'
        BY <2>1, <2>4 DEF AttemptsInv, LookUpInv
    <2> QED
        BY <2>2, <2>3, <2>5 DEF TokenInv
<1>2. CASE UNCHANGED token_vars
    BY <1>2 DEF token_vars, TokenInv, TokensFileInv, EditInv, CacheInv, AttemptsInv, AttemptInv,
                LookUpInv, Answers
<1>3. CASE \E r \in Requests :
              \/ BeginRequest(r) \/ StatFile(r) \/ LookUp(r) \/ ReadRegistry(r)
              \/ StoreRegistry(r) \/ CheckToken(r) \/ RefuseUnchecked(r)
    BY <1>3, TokenRequests
<1>4. CASE \/ \E o \in Operators : BeginEdit(o) \/ EndEdit(o) \/ EditFails(o)
           \/ EditByHand
    BY <1>4, TokenEdits
<1> QED
    BY <1>1, <1>2, <1>3, <1>4 DEF ReviewerTokensNext

\* The inductive invariant holds.
LEMMA TokensAlways == ASSUME OneOperator PROVE ReviewerTokensSpec => []TokenInv
<1>1. ReviewerTokensInit => TokenInv
    BY TokenInit
<1>2. TokenInv /\ [ReviewerTokensNext]_token_vars => TokenInv'
    BY TokenStep
<1> QED
    BY <1>1, <1>2, PTL DEF ReviewerTokensSpec

\* A removed or replaced token lets nobody in from the moment the command has said so, for
\* any number of requests under way and whatever load_registry has cached.  It takes that no
\* two runs of the command overlap.
THEOREM RevocationsTakeEffect ==
    ASSUME OneOperator PROVE ReviewerTokensSpec => []RevokedTokensAreRefused
<1>1. TokenInv => RevokedTokensAreRefused
    BY DEF TokenInv, AttemptsInv, AttemptInv, RevokedTokensAreRefused
<1> QED
    BY <1>1, TokensAlways, PTL

\* A token that was handed out is good from the next request on, until somebody begins to
\* take it back: load_registry does not answer from a registry that is older than the
\* request.  It takes that no two runs of the command overlap.
THEOREM GrantsTakeEffect ==
    ASSUME OneOperator PROVE ReviewerTokensSpec => []IssuedTokensWork
<1>1. TokenInv => IssuedTokensWork
    BY DEF TokenInv, AttemptsInv, AttemptInv, IssuedTokensWork
<1> QED
    BY <1>1, TokensAlways, PTL

---------------------------------------------------------------------------
(* The sessions file: no write to it is lost, and only one call at a time  *)
(* is between reading it for a change and replacing it.                    *)

\* What json may hold: the sessions there are, with the number of their writes.
Maps == UNION {[some -> Nat] : some \in SUBSET Sessions}

Places == {"idle", "read", "recheck", "enter", "lock", "load", "move_aside", "store",
           "drop_anchor", "anchor"}

\* Where a call holds _LOCK.
Exclusive == {"load", "move_aside", "store", "drop_anchor"}

Calls == [kind : Kinds \cup {"none"}, session : Sessions \cup {"none"}, pc : Places,
          data : Maps]

FileTypes ==
    /\ sessions_file \in {Missing, Corrupt} \cup Maps
    /\ call \in [Threads -> Calls]

(* Whoever is at work on the file holds its lock; a file that is about to  *)
(* be moved aside is corrupt, and one about to be replaced holds the map   *)
(* that the writer started from.                                           *)
WriterIsCurrent ==
    \A t \in Threads :
        /\ call[t].pc # "idle" => call[t].session \in Sessions
        /\ call[t].pc \in Exclusive => file_lock = t
        /\ call[t].pc = "move_aside" => sessions_file = Corrupt
        /\ call[t].pc = "store" => sessions_file # Corrupt /\ call[t].data = StoredMap

FileInv == FileTypes /\ WriterIsCurrent

\* One call's work on the map.
OneWrite ==
    \/ StoredMap' = StoredMap
    \/ \E s \in Sessions : StoredMap' \in {WrittenOnce(StoredMap, s), Without(StoredMap, s)}

----------------------------------------------------------------------------
(* The empty map is a map, and so is what one write makes of a map.        *)
LEMMA EmptyMap == <<>> \in Maps
<1>1. {} \in SUBSET Sessions
    OBVIOUS
<1>2. <<>> \in [{} -> Nat]
    OBVIOUS
<1> QED
    BY <1>1, <1>2 DEF Maps

\* One write to a map makes a map.
LEMMA WritesMakeMaps ==
    ASSUME NEW map \in Maps, NEW s \in Sessions
    PROVE  WrittenOnce(map, s) \in Maps /\ Without(map, s) \in Maps
<1>1. PICK some \in SUBSET Sessions : map \in [some -> Nat]
    BY DEF Maps
<1>2. WrittenOnce(map, s) \in [some \cup {s} -> Nat] /\ some \cup {s} \in SUBSET Sessions
    BY <1>1 DEF WrittenOnce
<1>3. Without(map, s) \in [some \ {s} -> Nat] /\ some \ {s} \in SUBSET Sessions
    BY <1>1 DEF Without
<1> QED
    BY <1>2, <1>3 DEF Maps

(* A call that ends, or goes on with a map, leaves the calls well-typed.   *)
LEMMA ReturnIsTyped ==
    ASSUME FileTypes, NEW t \in Threads, Return(t)
    PROVE  call' \in [Threads -> Calls] /\ call'[t] = Returned
<1>1. Returned \in Calls
    BY EmptyMap DEF Returned, Calls, Places
<1> QED
    BY <1>1 DEF FileTypes, Return

\* A call that only goes to its next place stays well-typed, on its session.
LEMMA GoToIsTyped ==
    ASSUME FileTypes, NEW t \in Threads, NEW pc \in Places, GoTo(t, pc)
    PROVE  /\ call' \in [Threads -> Calls]
           /\ call'[t].pc = pc /\ call'[t].session = call[t].session
    BY DEF FileTypes, GoTo, Calls

\* A writer that goes on ends its call or comes to the place where it stores its map.
LEMMA GoOnIsTyped ==
    ASSUME FileTypes, NEW t \in Threads, NEW map \in Maps, GoOnWith(t, map)
    PROVE  /\ call' \in [Threads -> Calls]
           /\ \A u \in Threads \ {t} : call'[u] = call[u]
           /\ \/ Return(t)
              \/ /\ call'[t].pc = "store" /\ call'[t].data = map
                 /\ call'[t].session = call[t].session
                 /\ file_lock' = file_lock
<1>1. CASE Return(t)
    BY <1>1, ReturnIsTyped DEF Return, FileTypes
<1>2. CASE /\ call' = [call EXCEPT ![t].pc = "store", ![t].data = map]
           /\ file_lock' = file_lock
    BY <1>2 DEF FileTypes, Calls, Places
<1> QED
    BY <1>1, <1>2 DEF GoOnWith

----------------------------------------------------------------------------
(* Only the calls of one thread move in a step that it takes.              *)
LEMMA ThreadKeepsOthers ==
    ASSUME FileInv, NEW t \in Threads,
           call' \in [Threads -> Calls],
           \A u \in Threads \ {t} : call'[u] = call[u],
           file_lock' = file_lock \/ file_lock = t \/ file_lock = NoThread,
           sessions_file' = sessions_file \/ call[t].pc \in Exclusive,
           sessions_file' \in {Missing, Corrupt} \cup Maps,
           call'[t].pc # "idle" => call'[t].session \in Sessions,
           call'[t].pc \in Exclusive => file_lock' = t,
           call'[t].pc = "move_aside" => sessions_file' = Corrupt,
           call'[t].pc = "store" => sessions_file' # Corrupt /\ call'[t].data = StoredMap'
    PROVE  FileInv'
<1>1. ASSUME NEW u \in Threads \ {t}, call[u].pc \in Exclusive
      PROVE  file_lock = u /\ file_lock' = u /\ sessions_file' = sessions_file
    BY <1>1, SessionsFileAssumption DEF FileInv, WriterIsCurrent
<1>2. ASSUME NEW u \in Threads \ {t}
      PROVE  /\ call'[u].pc # "idle" => call'[u].session \in Sessions
             /\ call'[u].pc \in Exclusive => file_lock' = u
             /\ call'[u].pc = "move_aside" => sessions_file' = Corrupt
             /\ call'[u].pc = "store" =>
                    sessions_file' # Corrupt /\ call'[u].data = StoredMap'
    <2>1. CASE call[u].pc \in Exclusive
        BY <1>1, <1>2, <2>1 DEF FileInv, WriterIsCurrent, StoredMap
    <2>2. CASE call[u].pc \notin Exclusive
        BY <1>2, <2>2 DEF FileInv, WriterIsCurrent, Exclusive
    <2> QED
        BY <2>1, <2>2
<1> QED
    BY <1>2 DEF FileInv, FileTypes, WriterIsCurrent

----------------------------------------------------------------------------
(* The invariant and what a step does to the map, action by action.        *)
LEMMA FileInitInv == SessionsFileInit => FileInv
<1>1. Returned \in Calls
    BY EmptyMap DEF Returned, Calls, Places
<1> QED
    BY <1>1 DEF SessionsFileInit, FileInv, FileTypes, WriterIsCurrent, Returned, Exclusive

(* A step that ends the thread's call and leaves the file alone.           *)
LEMMA ReturnKeepsInv ==
    ASSUME FileInv, NEW t \in Threads, Return(t), sessions_file' = sessions_file
    PROVE  FileInv'
<1>1. call' \in [Threads -> Calls] /\ call'[t].pc = "idle"
    BY ReturnIsTyped DEF FileInv, Returned
<1> QED
    BY <1>1, ThreadKeepsOthers DEF Return, FileInv, FileTypes, Exclusive

(* A step that only goes to a place that needs no lock.                    *)
LEMMA GoToKeepsInv ==
    ASSUME FileInv, NEW t \in Threads, NEW pc \in Places, GoTo(t, pc),
           call[t].pc # "idle", sessions_file' = sessions_file,
           file_lock' = file_lock \/ file_lock = t \/ file_lock = NoThread,
           pc \in Exclusive => file_lock' = t,
           pc = "move_aside" => sessions_file = Corrupt,
           pc # "store"
    PROVE  FileInv'
<1>1. /\ call' \in [Threads -> Calls]
      /\ call'[t].pc = pc /\ call'[t].session = call[t].session
    BY GoToIsTyped DEF FileInv
<1>2. \A u \in Threads \ {t} : call'[u] = call[u]
    BY DEF GoTo, FileInv, FileTypes
<1>3. call[t].session \in Sessions
    BY DEF FileInv, WriterIsCurrent
<1> QED
    BY <1>1, <1>2, <1>3, ThreadKeepsOthers DEF FileInv, FileTypes

(* A writer that goes on with the map in the file.                         *)
LEMMA GoOnKeepsInv ==
    ASSUME FileInv, NEW t \in Threads, NEW map \in Maps, GoOnWith(t, map),
           call[t].pc \in Exclusive,
           sessions_file' \in {Missing} \cup Maps, map = AsMap(sessions_file')
    PROVE  FileInv'
<1>1. sessions_file' # Corrupt
    BY SessionsFileAssumption DEF Maps
<1>2. StoredMap' = map
    BY <1>1 DEF StoredMap, AsMap
<1>3. /\ call' \in [Threads -> Calls]
      /\ \A u \in Threads \ {t} : call'[u] = call[u]
    BY GoOnIsTyped DEF FileInv
<1>4. file_lock = t /\ call[t].session \in Sessions
    BY DEF FileInv, WriterIsCurrent, Exclusive
<1>5. CASE Return(t)
    <2>1. call'[t].pc = "idle"
        BY <1>5, ReturnIsTyped DEF FileInv, Returned
    <2> QED
        BY <1>3, <1>4, <2>1, ThreadKeepsOthers DEF Exclusive
<1>6. CASE /\ call'[t].pc = "store" /\ call'[t].data = map
           /\ call'[t].session = call[t].session
           /\ file_lock' = file_lock
    BY <1>1, <1>2, <1>3, <1>4, <1>6, ThreadKeepsOthers
<1> QED
    BY <1>5, <1>6, GoOnIsTyped DEF FileInv

----------------------------------------------------------------------------
\* A step that leaves the file alone writes nothing.
LEMMA QuietIsOneWrite ==
    ASSUME sessions_file' = sessions_file
    PROVE  OneWrite
BY DEF OneWrite, StoredMap

\* A step of a thread keeps the invariant, and writes at most one call's work.
LEMMA ThreadStep ==
    ASSUME FileInv, NEW t \in Threads,
           \/ CallFile(t) \/ ReadFile(t) \/ Recheck(t) \/ EnterSave(t) \/ BeginWrite(t)
           \/ LoadFile(t) \/ MoveAside(t) \/ StoreFile(t) \/ DropAnchor(t) \/ SaveAnchor(t)
           \/ FileFails(t)
    PROVE  FileInv' /\ OneWrite
<1>1. CASE CallFile(t)
    <2>1. PICK kind \in Kinds, s \in Sessions, pc \in {"read", "enter", "lock"} :
              call' = [call EXCEPT ![t] = [kind |-> kind, session |-> s, data |-> <<>>,
                                           pc |-> pc]]
        BY <1>1 DEF CallFile
    <2>2. [kind |-> kind, session |-> s, data |-> <<>>, pc |-> pc] \in Calls
        BY EmptyMap DEF Calls, Places
    <2>3. /\ call' \in [Threads -> Calls]
          /\ call'[t].pc = pc /\ call'[t].session = s
          /\ \A u \in Threads \ {t} : call'[u] = call[u]
        BY <2>1, <2>2 DEF FileInv, FileTypes
    <2> QED
        BY <1>1, <2>3, ThreadKeepsOthers, QuietIsOneWrite
        DEF CallFile, Exclusive, FileInv, FileTypes
<1>2. CASE ReadFile(t)
    <2>1. CASE sessions_file = Corrupt
        BY <1>2, <2>1, GoToKeepsInv, QuietIsOneWrite DEF ReadFile, At, Places, Exclusive
    <2>2. CASE sessions_file # Corrupt
        BY <1>2, <2>2, ReturnKeepsInv, QuietIsOneWrite DEF ReadFile
    <2> QED
        BY <2>1, <2>2
<1>3. CASE Recheck(t)
    <2>1. CASE sessions_file = Corrupt
        BY <1>3, <2>1, GoToKeepsInv, QuietIsOneWrite DEF Recheck, LockFile, At, Places
    <2>2. CASE sessions_file # Corrupt
        BY <1>3, <2>2, ReturnKeepsInv, QuietIsOneWrite DEF Recheck
    <2> QED
        BY <2>1, <2>2
<1>4. CASE EnterSave(t)
    BY <1>4, GoToKeepsInv, QuietIsOneWrite DEF EnterSave, At, Places, Exclusive
<1>5. CASE BeginWrite(t)
    BY <1>5, GoToKeepsInv, QuietIsOneWrite DEF BeginWrite, LockFile, At, Places
<1>6. CASE LoadFile(t)
    <2>1. file_lock = t
        BY <1>6 DEF LoadFile, At, FileInv, WriterIsCurrent, Exclusive
    <2>2. CASE sessions_file = Corrupt
        BY <1>6, <2>1, <2>2, GoToKeepsInv, QuietIsOneWrite DEF LoadFile, At, Places
    <2>3. CASE sessions_file # Corrupt
        <3>1. sessions_file \in {Missing} \cup Maps /\ sessions_file' = sessions_file
            BY <1>6, <2>3 DEF LoadFile, FileInv, FileTypes
        <3>2. AsMap(sessions_file) \in Maps
            BY <3>1, EmptyMap DEF AsMap
        <3> QED
            BY <1>6, <2>3, <3>1, <3>2, GoOnKeepsInv, QuietIsOneWrite
            DEF LoadFile, At, Exclusive, AsMap
    <2> QED
        BY <2>2, <2>3
<1>7. CASE MoveAside(t)
    <2>1. /\ sessions_file = Corrupt /\ file_lock = t /\ call[t].pc \in Exclusive
          /\ sessions_file' = Missing
        BY <1>7 DEF MoveAside, At, FileInv, WriterIsCurrent, Exclusive
    <2>2. OneWrite
        BY <2>1, SessionsFileAssumption DEF OneWrite, StoredMap, AsMap
    <2>3. CASE Return(t)
        <3>1. call' \in [Threads -> Calls] /\ call'[t].pc = "idle"
            BY <2>3, ReturnIsTyped DEF FileInv, Returned
        <3> QED
            BY <2>1, <2>2, <2>3, <3>1, ThreadKeepsOthers DEF Return, FileInv, FileTypes, Exclusive
    <2>4. CASE GoOnWith(t, <<>>)
        BY <2>1, <2>2, <2>4, EmptyMap, GoOnKeepsInv DEF AsMap
    <2> QED
        BY <1>7, <2>3, <2>4 DEF MoveAside
<1>8. CASE StoreFile(t)
    <2> DEFINE s == call[t].session
               map == call[t].data
    <2>1. /\ sessions_file # Corrupt /\ map = StoredMap /\ map \in Maps
          /\ file_lock = t /\ call[t].pc \in Exclusive /\ s \in Sessions
        BY <1>8 DEF StoreFile, At, FileInv, FileTypes, WriterIsCurrent, Exclusive, Calls
    <2>2. sessions_file' \in {WrittenOnce(map, s), Without(map, s)}
        BY <1>8 DEF StoreFile
    <2>3. sessions_file' \in Maps
        BY <2>1, <2>2, WritesMakeMaps
    <2>4. StoredMap' = sessions_file'
        BY <2>3, SessionsFileAssumption DEF StoredMap, AsMap, Maps
    <2>5. OneWrite
        BY <2>1, <2>2, <2>4 DEF OneWrite
    <2>6. CASE Return(t)
        <3>1. call' \in [Threads -> Calls] /\ call'[t].pc = "idle"
            BY <2>6, ReturnIsTyped DEF FileInv, Returned
        <3>2. /\ \A u \in Threads \ {t} : call'[u] = call[u]
              /\ file_lock' = NoThread
            BY <2>1, <2>6 DEF Return, FileInv, FileTypes
        <3> QED
            BY <2>1, <2>3, <2>5, <3>1, <3>2, ThreadKeepsOthers DEF Exclusive
    <2>7. ASSUME NEW pc \in {"drop_anchor", "anchor"}, GoTo(t, pc),
                 pc = "drop_anchor" => file_lock' = file_lock,
                 file_lock' \in {file_lock, NoThread}
          PROVE  FileInv'
        <3>1. /\ call' \in [Threads -> Calls]
              /\ call'[t].pc = pc /\ call'[t].session = s
            BY <2>7, GoToIsTyped DEF FileInv, Places
        <3>2. \A u \in Threads \ {t} : call'[u] = call[u]
            BY <2>7 DEF GoTo, FileInv, FileTypes
        <3> QED
            BY <2>1, <2>3, <2>7, <3>1, <3>2, ThreadKeepsOthers DEF Exclusive
    <2>8. \/ Return(t)
          \/ GoTo(t, "drop_anchor") /\ file_lock' = file_lock
          \/ GoTo(t, "anchor") /\ file_lock' = NoThread
        BY <1>8 DEF StoreFile
    <2> QED
        BY <2>5, <2>6, <2>7, <2>8
<1>9. CASE DropAnchor(t) \/ SaveAnchor(t) \/ FileFails(t)
    BY <1>9, ReturnKeepsInv, QuietIsOneWrite DEF DropAnchor, SaveAnchor, FileFails
<1> QED
    BY <1>1, <1>2, <1>3, <1>4, <1>5, <1>6, <1>7, <1>8, <1>9

\* Every step does that, of a thread, of the process or from outside.
LEMMA FileStep ==
    ASSUME FileInv, [SessionsFileNext]_file_vars
    PROVE  FileInv' /\ OneWrite
<1>1. CASE \E t \in Threads :
              \/ CallFile(t) \/ ReadFile(t) \/ Recheck(t) \/ EnterSave(t) \/ BeginWrite(t)
              \/ LoadFile(t) \/ MoveAside(t) \/ StoreFile(t) \/ DropAnchor(t)
              \/ SaveAnchor(t) \/ FileFails(t)
    BY <1>1, ThreadStep
<1>2. CASE FileProcessDies
    <2>1. Returned \in Calls
        BY EmptyMap DEF Returned, Calls, Places
    <2> QED
        BY <1>2, <2>1, QuietIsOneWrite
        DEF FileProcessDies, FileInv, FileTypes, WriterIsCurrent, Returned, Exclusive
<1>3. CASE UNCHANGED file_vars
    BY <1>3, QuietIsOneWrite DEF file_vars, FileInv, FileTypes, WriterIsCurrent, StoredMap
<1> QED
    BY <1>1, <1>2, <1>3 DEF SessionsFileNext

(* The locks work as their callers need it: a call between reading the     *)
(* file for a change and replacing it is the only one there, and the file  *)
(* is still as it read it.                                                 *)
THEOREM WritersAreAlone == SessionsFileSpec => []FileInv
<1>1. FileInv /\ [SessionsFileNext]_file_vars => FileInv'
    BY FileStep
<1> QED
    BY FileInitInv, <1>1, PTL DEF SessionsFileSpec

(* No completed save, update or delete is lost, for any number of threads, *)
(* sessions and writes, whatever fails and whenever the process dies: the  *)
(* file changes by one call's work on the map as it is.                    *)
THEOREM WritesAreKept == SessionsFileSpec => NoWriteIsLost
<1>1. FileInv /\ [SessionsFileNext]_file_vars => [OneWrite]_file_vars
    BY FileStep
<1> QED
    BY WritersAreAlone, <1>1, PTL DEF SessionsFileSpec, NoWriteIsLost, OneWrite
==============================================================================
