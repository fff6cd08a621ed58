------------------------------ MODULE Digests ------------------------------
(***************************************************************************)
(* SHA-256 and HMAC-SHA256 as the approval trail and the evidence vault    *)
(* use them.  A digest is the term of what it covers, so two digests are   *)
(* equal exactly if algorithm, key and content are.  Each of the two users *)
(* has its own HMAC key, derived from VAULT_ENCRYPTION_KEY under its own   *)
(* label; no digest of one is ever compared with a digest of the other.    *)
(***************************************************************************)
CONSTANT NoKey  \* VAULT_ENCRYPTION_KEY is not set

Keyed == "hmac-sha256"
Plain == "sha256"

\* The digest of a value; the unkeyed one does not depend on the key.
Digest(value, alg, key) ==
    <<alg, IF alg = Keyed THEN key ELSE NoKey, value>>

AlgorithmOf(key) == IF key = NoKey THEN Plain ELSE Keyed
=============================================================================
