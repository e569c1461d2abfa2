----------------------------- MODULE OverrideStore -----------------------------
(***************************************************************************)
(* The administrator's override lists (agent/internal/rules/override.go):  *)
(* two sets in memory and a file for each, changed together under one      *)
(* mutex, over write failures and crashes, and what the lists make of a    *)
(* domain once the engine has reloaded (RuleLookup).                       *)
(*                                                                         *)
(* writeOverrideFile writes a temporary file and renames it: a file is     *)
(* replaced in one step or not at all.  The two files of an operation are  *)
(* two steps.                                                              *)
(***************************************************************************)
EXTENDS RuleLookup, FiniteSets

CONSTANTS
    OverrideEntry,  \* the entries the administrator adds and removes
    MaxEntries,     \* maxOverrideEntries
    FileCategory,   \* the categories of bundled rule files
    Shipments,      \* the lists of bundled rule files an agent may run with
    Policy          \* the category_policies table

List == {"allow", "block"}
Other(l) == IF l = "allow" THEN "block" ELSE "allow"
Category(l) == IF l = "allow" THEN "allow_admin" ELSE "block_admin"

RuleFile ==
    [category : FileCategory \cup {Category(l) : l \in List}, entries : SUBSET Entry]

ASSUME OverrideAssumption == MaxEntries \in Nat /\ OverrideEntry \subseteq Entry
ASSUME ShipmentsAssumption == Shipments \subseteq Seq(RuleFile)
\* The two categories have a row of the table (ConfigureDatabase seeds them).
ASSUME PolicyAssumption == \A l \in List : Category(l) \in DOMAIN Policy /\ Category(l) # NoMatch

\* An acknowledged intention for an entry; Open: its last request has not
\* been answered with success.
Absent == "absent"
Open == "open"
Intent == List \cup {Absent, Open}

VARIABLES
    mem,      \* OverrideStore.allow and .block
    disk,     \* the content of the two files
    op,       \* the operation holding OverrideStore.mu, if any
    shipped,  \* the bundled rule files, which the store never touches
    \* History variables:
    intent,   \* intent[e]: what the last request for e was told
    failed,   \* some write has failed
    settled   \* the last operation succeeded, or the agent restarted since

overrideVars == <<mem, disk, op, shipped, intent, failed, settled>>

NoOp == [kind |-> "none"]
Op == [kind : {"change"}, entry : OverrideEntry, wants : List \cup {Absent},
       todo : Seq(List)]

OverrideTypeOK ==
    /\ mem \in [List -> SUBSET OverrideEntry]
    /\ disk \in [List -> SUBSET OverrideEntry]
    /\ op \in Op \cup {NoOp}
    /\ shipped \in Shipments
    /\ intent \in [OverrideEntry -> Intent]
    /\ failed \in BOOLEAN
    /\ settled \in BOOLEAN

\* A first start: NewOverrideStore creates both files empty.
OverrideInit ==
    /\ mem = [l \in List |-> {}]
    /\ disk = [l \in List |-> {}]
    /\ op = NoOp
    /\ shipped \in Shipments
    /\ intent = [e \in OverrideEntry |-> Absent]
    /\ failed = FALSE
    /\ settled = TRUE

-----------------------------------------------------------------------------
(* The operations.  Each takes the mutex, changes the sets in memory and   *)
(* then writes both files.                                                 *)

Begin(e, wants, todo) ==
    /\ op = NoOp
    /\ op' = [kind |-> "change", entry |-> e, wants |-> wants, todo |-> todo]
    /\ intent' = [intent EXCEPT ![e] = Open]
    /\ settled' = FALSE
    /\ UNCHANGED <<disk, shipped, failed>>

\* Mutant: the entry stays in the other list.
AddWithoutMirror(e, l) ==
    /\ Cardinality(mem[l]) < MaxEntries
    /\ mem' = [mem EXCEPT ![l] = @ \cup {e}]
    /\ Begin(e, l, <<Other(l), l>>)

\* AddOverride.  A full list refuses every entry, also one it already has.
AddOverride(e, l) ==
    /\ Cardinality(mem[l]) < MaxEntries
    /\ mem' = [mem EXCEPT ![l] = @ \cup {e}, ![Other(l)] = @ \ {e}]
    /\ Begin(e, l, <<Other(l), l>>)

\* Mutant: only the allow list's file is rewritten.
RemoveFromAllow(e) ==
    /\ mem' = [l \in List |-> mem[l] \ {e}]
    /\ Begin(e, Absent, <<"allow">>)

\* RemoveOverride
RemoveOverride(e) ==
    /\ mem' = [l \in List |-> mem[l] \ {e}]
    /\ Begin(e, Absent, <<"allow", "block">>)

\* writeOverrideFile succeeds.
WriteFile ==
    /\ op # NoOp
    /\ op.todo # <<>>
    /\ disk' = [disk EXCEPT ![Head(op.todo)] = mem[Head(op.todo)]]
    /\ op' = [op EXCEPT !.todo = Tail(@)]
    /\ UNCHANGED <<mem, shipped, intent, failed, settled>>

\* writeOverrideFile returns an error: so does the operation, the sets in
\* memory keep the change.
WriteFails ==
    /\ op # NoOp
    /\ op.todo # <<>>
    /\ op' = NoOp
    /\ failed' = TRUE
    /\ UNCHANGED <<mem, disk, shipped, intent, settled>>

Return ==
    /\ op # NoOp
    /\ op.todo = <<>>
    /\ op' = NoOp
    /\ intent' = [intent EXCEPT ![op.entry] = op.wants]
    /\ settled' = TRUE
    /\ UNCHANGED <<mem, disk, shipped, failed>>

\* The agent dies at any point; NewOverrideStore then reads both files.
Restart ==
    /\ mem' = disk
    /\ op' = NoOp
    /\ settled' = TRUE
    /\ UNCHANGED <<disk, shipped, intent, failed>>

OverrideNext ==
    \/ \E e \in OverrideEntry : RemoveOverride(e) \/ \E l \in List : AddOverride(e, l)
    \/ WriteFile \/ WriteFails \/ Return \/ Restart

OverrideSpec == OverrideInit /\ [][OverrideNext]_overrideVars

-----------------------------------------------------------------------------
(* What a Reload makes of the files (main registers the override files     *)
(* after the bundled ones).                                                *)

OverrideSource(l) == [category |-> Category(l), entries |-> disk[l]]
Sources == shipped \o <<OverrideSource("allow"), OverrideSource("block")>>
Decision(d) == CheckDomain(Build(Sources), Policy, d)

Exactly(d) == [base |-> d, sub |-> FALSE]
Below(d) == [base |-> d, sub |-> TRUE]

-----------------------------------------------------------------------------
(* Properties                                                              *)

\* After a successful operation, or a restart, the lists an administrator is
\* shown are the lists on disk.
ListsMatchFiles == settled => mem = disk

\* The lists stay mutually exclusive, in memory and on disk, also between the
\* two writes of an operation and after a crash there, as long as no write has
\* failed: the other list's file is always written first.
MutuallyExclusive ==
    ~failed => /\ mem["allow"] \cap mem["block"] = {}
               /\ disk["allow"] \cap disk["block"] = {}

\* What a request was told stays true, in memory and on disk, whatever fails
\* or crashes afterwards in requests for other entries.
AcknowledgedIntentKept ==
    \A e \in OverrideEntry : intent[e] # Open =>
        \A l \in List :
            /\ e \in mem[l] <=> intent[e] = l
            /\ e \in disk[l] <=> intent[e] = l

\* An acknowledged override of a domain decides it, whatever wildcards the
\* bundled files and the lists have, when no bundled file names the domain
\* itself and, for a block, the allow list does not open the same domain.
OverrideDecides ==
    \A d \in Domain :
        LET e == Exactly(d) IN
        (/\ e \in OverrideEntry
         /\ \A i \in DOMAIN shipped : {Exactly(d), Below(d)} \cap shipped[i].entries = {}) =>
            /\ intent[e] = "allow" => Decision(d) = Policy["allow_admin"]
            /\ intent[e] = "block" /\ Below(d) \notin disk["allow"]
                  => Decision(d) = Policy["block_admin"]

\* The index gives every domain the category of the first file that names it,
\* else of the first file that opens its nearest opened parent.
IndexMatchesReference ==
    \A d \in Domain : LookupDomain(Build(Sources), d) = CategoryOf(Sources, d)
=============================================================================
