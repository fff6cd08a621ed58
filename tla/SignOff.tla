------------------------------ MODULE SignOff ------------------------------
(***************************************************************************)
(* What an audit promises whoever relies on it, without crews, retries,    *)
(* decisions or a trail: three drafts are signed off one after the other,  *)
(* a draft changes only while its own phase is open, nobody signs work     *)
(* they prepared, and the report is signed by somebody other than the      *)
(* person who signed the fieldwork.  AuditFlow implements it.              *)
(***************************************************************************)
EXTENDS Naturals

CONSTANTS
    Names,      \* names people act under
    Identity,   \* name -> the person behind it
    Plans,      \* what may be drafted in each phase
    Papers,
    Reports,
    None        \* nobody, nothing

VARIABLES
    preparer,   \* the name of the person preparing the audit
    draft,      \* phase -> its draft
    signed      \* gate -> who signed which draft, or None

signOffVars == <<preparer, draft, signed>>

Gates == 1..3

DraftsOf(p) == CASE p = 1 -> Plans [] p = 2 -> Papers [] p = 3 -> Reports

Init ==
    /\ preparer = None
    /\ draft = [p \in Gates |-> None]
    /\ signed = [g \in Gates |-> None]

\* The phase whose gate is the next to be signed.
Open(p) == /\ \A g \in 1..(p - 1) : signed[g] # None
           /\ signed[p] = None

Prepare(h) ==
    /\ preparer = None
    /\ preparer' = h
    /\ UNCHANGED <<draft, signed>>

Redraft(p, d) ==
    /\ preparer # None
    /\ Open(p)
    /\ draft' = [draft EXCEPT ![p] = d]
    /\ UNCHANGED <<preparer, signed>>

Sign(g, h) ==
    /\ preparer # None
    /\ Open(g)
    /\ draft[g] # None
    /\ Identity[h] # Identity[preparer]
    /\ g = 3 => Identity[h] # Identity[signed[2].by]
    /\ signed' = [signed EXCEPT ![g] = [by |-> h, draft |-> draft[g]]]
    /\ UNCHANGED <<preparer, draft>>

Next ==
    \/ \E h \in Names : Prepare(h)
    \/ \E p \in Gates : \E d \in DraftsOf(p) \cup {None} : Redraft(p, d)
    \/ \E g \in Gates, h \in Names : Sign(g, h)

Spec == Init /\ [][Next]_signOffVars
============================================================================
