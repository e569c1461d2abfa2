------------------------------- MODULE Allowlist -------------------------------
(***************************************************************************)
(* The feedback allowlist (dlp/allowlist.go and its handlers): values that *)
(* are never blocked again, for a destination and for a time.              *)
(*                                                                         *)
(* The module follows one value: its row of dlp_allowlist and its entry in *)
(* memory, which scans read.  Add and Remove change the row, then, under   *)
(* another lock, the entry.  Expired rows and entries stay where they are  *)
(* and are passed over: nothing calls Cleanup.                             *)
(***************************************************************************)
EXTENDS Integers

CONSTANTS
    AllowRequest,    \* requests of POST and DELETE /api/dlp/allowlist
    Destination,     \* destination kinds
    Lifetime,        \* ttl_seconds of the requests; not positive: for ever
    MaxNow,          \* bound on the clock
    MaxAllowTrouble  \* bound on failures and restarts

ASSUME AllowAssumption ==
    Lifetime \subseteq Int /\ MaxNow \in Nat \ {0} /\ MaxAllowTrouble \in Nat

\* A row or an entry: the scope and the time it ends, 0 for never.
Scope == Destination \cup {"*"}
Forever == 0
NoGrant == [scope |-> "none", until |-> Forever]
Grant == [scope : Scope, until : Nat]

VARIABLES
    row,           \* the row of the value
    allowed,       \* its entry in memory
    allowOn,       \* the pipeline has an allowlist
    allowNow,      \* the clock
    allowAt,       \* what each request does next
    allowNew,      \* allowNew[r]: what r writes; NoGrant removes
    allowTrouble,
    \* History variables:
    overtaken,     \* requests whose row another one has changed since
    allowMixed     \* the entry was written by an overtaken request

allowVars == <<row, allowed, allowOn, allowNow, allowAt, allowNew, allowTrouble, overtaken, allowMixed>>

AllowTypeOK ==
    /\ row \in Grant \cup {NoGrant}
    /\ allowed \in Grant \cup {NoGrant}
    /\ allowOn \in BOOLEAN
    /\ allowNow \in 1..MaxNow
    /\ allowAt \in [AllowRequest -> {"new", "entry", "done"}]
    /\ allowNew \in [AllowRequest -> Grant \cup {NoGrant}]
    /\ allowTrouble \in 0..MaxAllowTrouble
    /\ overtaken \subseteq AllowRequest
    /\ allowMixed \in BOOLEAN

AllowInit ==
    /\ row = NoGrant /\ allowed = NoGrant /\ allowOn = TRUE /\ allowNow = 1
    /\ allowAt = [r \in AllowRequest |-> "new"]
    /\ allowNew = [r \in AllowRequest |-> NoGrant]
    /\ allowTrouble = 0 /\ overtaken = {} /\ allowMixed = FALSE

AllowTrouble == allowTrouble < MaxAllowTrouble /\ allowTrouble' = allowTrouble + 1

-----------------------------------------------------------------------------
\* The end of a grant made now.
Until(ttl) == IF ttl > 0 THEN allowNow + ttl ELSE Forever

\* The statement on the table: the row of every other request under way is
\* not the last any more.
WritesRow(r, grant) ==
    /\ allowAt[r] = "new" /\ allowOn
    /\ row' = grant
    /\ allowNew' = [allowNew EXCEPT ![r] = grant]
    /\ allowAt' = [allowAt EXCEPT ![r] = "entry"]
    /\ overtaken' = overtaken \cup {q \in AllowRequest : allowAt[q] = "entry"}
    /\ UNCHANGED <<allowed, allowOn, allowNow, allowTrouble, allowMixed>>

\* Allowlist.Add: a row that is there gets the new scope and end.
AddRow(r) ==
    \E scope \in Scope, ttl \in Lifetime : WritesRow(r, [scope |-> scope, until |-> Until(ttl)])

\* Allowlist.Remove: whether or not there is a row.
RemoveRow(r) == WritesRow(r, NoGrant)

\* Mutant: an entry that is there keeps its scope and end.
KeepEntry(r) == IF allowNew[r] = NoGrant \/ allowed = NoGrant THEN allowNew[r] ELSE allowed

\* The map under the allowlist's lock.
EntryOf(r) == allowNew[r]

WritesEntry(r) ==
    /\ allowAt[r] = "entry"
    /\ allowed' = EntryOf(r)
    /\ allowAt' = [allowAt EXCEPT ![r] = "done"]
    /\ allowMixed' = (r \in overtaken)
    /\ UNCHANGED <<row, allowOn, allowNow, allowNew, allowTrouble, overtaken>>

\* The statement fails, or the request is refused: nothing has happened.
AllowRefused(r) ==
    /\ allowAt[r] = "new"
    /\ allowAt' = [allowAt EXCEPT ![r] = "done"]
    /\ UNCHANGED <<row, allowed, allowOn, allowNow, allowNew, allowTrouble, overtaken, allowMixed>>

\* The agent ends and starts again: NewAllowlist reads the table.  When it
\* cannot, the agent runs without an allowlist, and the handlers answer 503.
AllowRestart ==
    /\ AllowTrouble
    /\ allowOn' \in BOOLEAN
    /\ allowed' = IF allowOn' THEN row ELSE NoGrant
    /\ allowAt' = [r \in AllowRequest |-> IF allowAt[r] = "entry" THEN "done" ELSE allowAt[r]]
    /\ allowMixed' = FALSE
    /\ UNCHANGED <<row, allowNow, allowNew, overtaken>>

AllowTick ==
    /\ allowNow < MaxNow
    /\ allowNow' = allowNow + 1
    /\ UNCHANGED <<row, allowed, allowOn, allowAt, allowNew, allowTrouble, overtaken, allowMixed>>

AllowStep(r) == AddRow(r) \/ RemoveRow(r) \/ WritesEntry(r) \/ AllowRefused(r)

AllowNext == (\E r \in AllowRequest : AllowStep(r)) \/ AllowRestart \/ AllowTick

AllowSpec == AllowInit /\ [][AllowNext]_allowVars

-----------------------------------------------------------------------------
(* Properties                                                              *)

\* Allowlist.Allows, of an entry or as the table would have it.
Grants(grant, kind) ==
    /\ grant.scope \in {"*", kind}
    /\ grant.until = Forever \/ grant.until > allowNow

\* When no request is under way, a scan passes over the value exactly when the
\* table has a grant for its destination that has not ended, renewed or cut
\* short as the last request said: unless that request's entry was written
\* over by one whose row it had replaced.
AllowsAsStored ==
    (allowOn /\ ~allowMixed /\ \A r \in AllowRequest : allowAt[r] # "entry")
    => \A kind \in Destination : Grants(allowed, kind) = Grants(row, kind)
=============================================================================
