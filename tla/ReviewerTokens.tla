--------------------------- MODULE ReviewerTokens ---------------------------
(***************************************************************************)
(* The reviewer tokens file: operators edit it with the command of         *)
(* api/reviewer_tokens.py (and now and then by hand), the API reads it     *)
(* through a cache, and requests are authenticated against what it read    *)
(* (api/auth.py).  A token is the serial number of its issue; 0 is one     *)
(* nobody was given.  FailureLimiter has the limiter; here it may refuse   *)
(* any request that carries a token.                                       *)
(***************************************************************************)
EXTENDS Integers, FiniteSets

CONSTANTS NoRegistry,
          Names,      \* reviewers, after normalise_identity
          NoName,     \* the name field of a request, left empty
          Requests,   \* requests at work at the same time
          Operators,  \* runs of the command at the same time
          MaxTokenEdits    \* bound on the changes of the file

ASSUME ReviewerTokensAssumption == MaxTokenEdits \in Nat /\ NoName \notin Names

VARIABLES tokens_file,  \* mtime and size, and what is in the file
          cache,        \* of the API: a stamp and the registry parsed under it
          attempt,      \* what each request has come to
          edit,         \* what each run of the command has come to
          setting,      \* REVIEWER_TOKENS_FILE is set ("tokens"), or not, and reviewer_tokens_mandatory()
          issued,       \* tokens issued so far
          granted,      \* history: tokens handed out, until somebody begins to revoke them
          revoked       \* history: tokens whose removal or replacement has been confirmed

token_vars == <<tokens_file, cache, attempt, edit, setting, issued, granted, revoked>>

\* A registry is the set of its entries; the file may also be missing or unusable.
Entry(name, token) == [name |-> name, token |-> token]
Authenticate(registry, token) == {e.name : e \in {x \in registry : x.token = token}}
TokensOf(registry, name) == {e.token : e \in {x \in registry : x.name = name}}
WithoutName(registry, name) == {e \in registry : e.name # name}

NoAttempt == [pc |-> "idle", token |-> 0, stamp |-> 0, registry |-> NoRegistry,
              outcome |-> "none", before |-> "none"]
NoEdit == [pc |-> "idle", op |-> "none", name |-> NoName, reviewers |-> {}]

ReviewerTokensInit ==
    /\ tokens_file = [stamp |-> 0, state |-> "missing", reviewers |-> {}]
    /\ cache = [stamp |-> -1, registry |-> NoRegistry]
    /\ attempt = [r \in Requests |-> NoAttempt]
    /\ edit = [o \in Operators |-> NoEdit]
    /\ setting \in {"tokens", "declared", "mandatory"}
    /\ issued = 0
    /\ granted = {} /\ revoked = {}

----------------------------------------------------------------------------
(* The command.                                                            *)

\* Every write leaves another mtime or size than any before.
Written(state, reviewers) ==
    [stamp |-> tokens_file.stamp + 1, state |-> state, reviewers |-> reviewers]

\* add, add --replace, or remove: _load_for_edit.
BeginEdit(o) ==
    /\ edit[o].pc = "idle"
    /\ tokens_file.state # "bad"  \* otherwise it stops with an error
    /\ \E name \in Names, op \in {"add", "replace", "remove"} :
          LET now == TokensOf(tokens_file.reviewers, name)
          IN  /\ op = "add" => now = {}
              /\ op = "remove" => now # {}
              /\ edit' = [edit EXCEPT ![o] = [pc |-> "write", op |-> op, name |-> name,
                                              reviewers |-> tokens_file.reviewers]]
              /\ granted' = granted \ now
    /\ UNCHANGED <<tokens_file, cache, attempt, setting, issued, revoked>>

\* _write_atomic; the new token is printed.
EndEdit(o) ==
    /\ edit[o].pc = "write"
    /\ tokens_file.stamp < MaxTokenEdits
    /\ LET e    == edit[o]
           kept == WithoutName(e.reviewers, e.name)
       IN  IF e.op = "remove"
           THEN /\ tokens_file' = Written("ok", kept)
                /\ UNCHANGED <<issued, granted>>
           ELSE /\ tokens_file' = Written("ok", kept \cup {Entry(e.name, issued + 1)})
                /\ issued' = issued + 1
                /\ granted' = granted \cup {issued + 1}
    /\ revoked' = revoked \cup TokensOf(edit[o].reviewers, edit[o].name)
    /\ edit' = [edit EXCEPT ![o] = NoEdit]
    /\ UNCHANGED <<cache, attempt, setting>>

\* The command is interrupted, or cannot write.
EditFails(o) ==
    /\ edit[o].pc = "write"
    /\ edit' = [edit EXCEPT ![o] = NoEdit]
    /\ UNCHANGED <<tokens_file, cache, attempt, setting, issued, granted, revoked>>

\* By hand: the file is deleted, or left in a state parse_registry refuses.
EditByHand ==
    /\ tokens_file.stamp < MaxTokenEdits
    /\ \A o \in Operators : edit[o].pc = "idle"
    /\ \E state \in {"missing", "bad"} : tokens_file' = Written(state, {})
    /\ granted' = {}
    /\ UNCHANGED <<cache, attempt, edit, setting, issued, revoked>>

----------------------------------------------------------------------------
(* A request: reviewer_identity, and resolve for the name it types.        *)

\* The answer; before is what was true of the token when the request came in.
Ends(r, outcome) ==
    attempt' = [attempt EXCEPT ![r] =
                  [NoAttempt EXCEPT !.token = attempt[r].token, !.before = attempt[r].before,
                                    !.outcome = outcome]]

BeginRequest(r) ==
    /\ attempt[r].pc = "idle"
    /\ \E token \in 0..issued :
          attempt' = [attempt EXCEPT ![r] =
              [NoAttempt EXCEPT !.pc = "stat", !.token = token,
                                !.before = IF token \in revoked THEN "revoked"
                                           ELSE IF token \in granted THEN "granted" ELSE "none"]]
    /\ UNCHANGED <<tokens_file, cache, edit, setting, issued, granted, revoked>>

\* load_registry: os.stat.
StatFile(r) ==
    /\ attempt[r].pc = "stat"
    /\ IF setting = "declared" THEN Ends(r, "declared")
       ELSE IF setting = "mandatory" \/ tokens_file.state = "missing" THEN Ends(r, "unavailable")
       ELSE attempt' = [attempt EXCEPT ![r].pc = "lookup", ![r].stamp = tokens_file.stamp]
    /\ UNCHANGED <<tokens_file, cache, edit, setting, issued, granted, revoked>>

\* Mutant of LookUp: a file that was parsed once is not read again.
LookUpOnce(r) ==
    /\ attempt[r].pc = "lookup"
    /\ attempt' = [attempt EXCEPT ![r] =
          IF cache.registry # NoRegistry THEN [@ EXCEPT !.pc = "check", !.registry = cache.registry]
                                         ELSE [@ EXCEPT !.pc = "read"]]
    /\ UNCHANGED <<tokens_file, cache, edit, setting, issued, granted, revoked>>

\* The cache counts if its stamp is the file's.
LookUp(r) ==
    /\ attempt[r].pc = "lookup"
    /\ attempt' = [attempt EXCEPT ![r] =
          IF cache.stamp = @.stamp THEN [@ EXCEPT !.pc = "check", !.registry = cache.registry]
                                   ELSE [@ EXCEPT !.pc = "read"]]
    /\ UNCHANGED <<tokens_file, cache, edit, setting, issued, granted, revoked>>

\* read_registry: the file as it is by now.
ReadRegistry(r) ==
    /\ attempt[r].pc = "read"
    /\ IF tokens_file.state = "ok"
       THEN attempt' = [attempt EXCEPT ![r].pc = "store", ![r].registry = tokens_file.reviewers]
       ELSE Ends(r, "unavailable")
    /\ UNCHANGED <<tokens_file, cache, edit, setting, issued, granted, revoked>>

\* Mutant of StoreRegistry: what was read is filed under the stamp the file has by now.
StoreUnderNewStamp(r) ==
    /\ attempt[r].pc = "store"
    /\ cache' = [stamp |-> tokens_file.stamp, registry |-> attempt[r].registry]
    /\ attempt' = [attempt EXCEPT ![r].pc = "check"]
    /\ UNCHANGED <<tokens_file, edit, setting, issued, granted, revoked>>

StoreRegistry(r) ==
    /\ attempt[r].pc = "store"
    /\ cache' = [stamp |-> attempt[r].stamp, registry |-> attempt[r].registry]
    /\ attempt' = [attempt EXCEPT ![r].pc = "check"]
    /\ UNCHANGED <<tokens_file, edit, setting, issued, granted, revoked>>

\* The token, and the name the request types against the token's.
CheckToken(r) ==
    /\ attempt[r].pc = "check"
    /\ LET names == Authenticate(attempt[r].registry, attempt[r].token)
       IN  IF names = {} THEN Ends(r, "invalid")
           ELSE \E typed \in Names \cup {NoName} :
                  Ends(r, IF typed \in {NoName} \cup names THEN "authenticated" ELSE "mismatch")
    /\ UNCHANGED <<tokens_file, cache, edit, setting, issued, granted, revoked>>

\* No token, or the limiter refuses.
RefuseUnchecked(r) ==
    /\ attempt[r].pc = "check"
    /\ Ends(r, IF attempt[r].token = 0 THEN "missing" ELSE "limited")
    /\ UNCHANGED <<tokens_file, cache, edit, setting, issued, granted, revoked>>

RestartApi ==
    /\ cache' = [stamp |-> -1, registry |-> NoRegistry]
    /\ attempt' = [r \in Requests |-> NoAttempt]
    /\ UNCHANGED <<tokens_file, edit, setting, issued, granted, revoked>>

ReviewerTokensNext ==
    \/ \E o \in Operators : BeginEdit(o) \/ EndEdit(o) \/ EditFails(o)
    \/ EditByHand
    \/ \E r \in Requests :
          \/ BeginRequest(r) \/ StatFile(r) \/ LookUp(r) \/ ReadRegistry(r)
          \/ StoreRegistry(r) \/ CheckToken(r) \/ RefuseUnchecked(r)
    \/ RestartApi

ReviewerTokensSpec == ReviewerTokensInit /\ [][ReviewerTokensNext]_token_vars

----------------------------------------------------------------------------
(* A removed or replaced token lets nobody in from the moment the command  *)
(* has said so, whatever requests were under way and cached meanwhile      *)
(* (the command's help: "revoke a reviewer's token").                      *)
RevokedTokensAreRefused ==
    \A r \in Requests :
        attempt[r].before = "revoked" =>
            attempt[r].outcome \notin {"authenticated", "mismatch"}

(* A token that was handed out is good from the next request on, until     *)
(* somebody begins to take it back (load_registry: "a token added or       *)
(* removed with the CLI takes effect on the next request").                *)
IssuedTokensWork ==
    \A r \in Requests :
        attempt[r].before = "granted" /\ attempt[r].token \in granted =>
            attempt[r].outcome # "invalid"
=============================================================================
