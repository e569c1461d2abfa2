------------------------------ MODULE RequestPath ------------------------------
(***************************************************************************)
(* A request on its way through the proxy (proxy/proxy.go, extract.go) and *)
(* through redaction (dlp/redact.go).                                      *)
(*                                                                         *)
(* The connection is judged once, at CONNECT; every request on a decrypted *)
(* connection is judged again; its body is scanned, or masked and scanned  *)
(* again.  The administrator changes the category's policy, the DLP action *)
(* and the patterns between any two of these reads.  Whatever follows must *)
(* not let out what all the settings of that time wanted held back.        *)
(*                                                                         *)
(* A text is a row of cells; a secret (one per pattern) lies in spans of   *)
(* cells, and a text leaks it when one of those cells goes out unmasked.   *)
(***************************************************************************)
EXTENDS Integers, Sequences, FiniteSets

CONSTANTS
    Secret,       \* the values the patterns find
    Body,         \* the request bodies in play
    MaxRequest,   \* bound on requests
    MaxChange,    \* bound on changes of the settings
    MaxTrouble    \* bound on read, compression and store errors and panics

\* at[s]: spans <<first, behind last>> of a secret; veiled: found only after
\* normalisation; packed: in base64 that only decodeBase64Text opens (wrapped
\* lines, the URL alphabet); aside: in the name of a form field, or outside of
\* the parts of a multipart body; depth: how far into the body the secrets lie.
\* In a form every secret has a field of its own (one that cannot be parsed is
\* a single field).
Encoding == {"identity", "gzip", "other"}
Shape == {"plain", "form", "multipart"}
Depth == {"scanned", "buffered", "beyond"}

\* locateSecrets skips an empty match.
Span == {x \in Nat \X Nat : x[1] < x[2]}

ASSUME SecretAssumption == IsFiniteSet(Secret)
ASSUME BodyAssumption ==
    \A b \in Body : /\ b.at \in [Secret -> SUBSET Span]
                    /\ \A s \in Secret : IsFiniteSet(b.at[s])
                    /\ b.veiled \subseteq Secret
                    /\ b.packed \subseteq Secret
                    /\ b.aside \subseteq Secret
                    /\ b.shape = "plain" => b.aside = {}
                    /\ b.encoding \in Encoding
                    /\ b.shape \in Shape
                    /\ b.shape = "form" => \A s, t \in Secret : \A x \in b.at[s], y \in b.at[t] :
                                     s # t => x[2] <= y[1] \/ y[2] <= x[1]
                    /\ b.depth \in Depth
ASSUME BoundAssumption == MaxRequest \in Nat /\ MaxChange \in Nat /\ MaxTrouble \in Nat

VARIABLES
    policy,     \* what the category of the host is set to
    mode,       \* dlp_config.action
    enabled,    \* patterns the pipeline has
    conn,       \* the connection to the host
    pc,         \* what the request does next
    req,        \* its body, and whether its path is telemetry
    dlpAction,  \* what the request has read of mode
    part,       \* the text that is being redacted, by its secrets
    todo,       \* form fields still to be redacted
    masked,     \* cells replaced so far
    hit,        \* cells located in the text at hand
    out,        \* what became of the request
    tally,      \* counters of the proxy and of the store
    requests, changes, trouble,
    held        \* history: what every setting since the request began holds back

settings == <<policy, mode, enabled>>
redaction == <<part, todo, masked, hit>>
bounds == <<requests, changes, trouble>>
vars == <<settings, conn, pc, req, dlpAction, redaction, out, tally, bounds, held>>

Tally == [scans : Nat, blocks : Nat, dbScans : Nat, dbBlocks : Nat]
NoReq == [none |-> TRUE]
Outcome == {"none", "tunnelled", "forwarded", "unscanned", "masked", "denied",
            "blocked", "error"}

TypeOK ==
    /\ policy \in {"allow", "monitor", "allow_with_dlp", "deny"}
    /\ mode \in {"block", "mask", "bypass"}
    /\ enabled \subseteq Secret
    /\ conn \in {"none", "tunnel", "mitm"}
    /\ pc \in {"idle", "policy", "mode", "read", "scan",
              "base", "locate", "verify", "done"}
    /\ req \in [body : Body, quiet : BOOLEAN] \cup {NoReq}
    /\ dlpAction \in {"none", "block", "mask", "bypass"}
    /\ part \subseteq Secret /\ todo \subseteq Secret
    /\ masked \subseteq Nat /\ hit \subseteq Nat
    /\ out \in Outcome
    /\ tally \in Tally
    /\ requests \in 0..MaxRequest /\ changes \in 0..MaxChange /\ trouble \in 0..MaxTrouble
    /\ held \subseteq Secret

Zero == [scans |-> 0, blocks |-> 0, dbScans |-> 0, dbBlocks |-> 0]

Init ==
    /\ policy \in {"allow", "monitor", "allow_with_dlp", "deny"}
    /\ mode \in {"block", "mask"} /\ enabled = Secret
    /\ conn = "none" /\ pc = "idle" /\ req = NoReq
    /\ dlpAction = "none" /\ part = {} /\ todo = {} /\ masked = {} /\ hit = {}
    /\ out = "none" /\ tally = Zero /\ requests = 0 /\ changes = 0 /\ trouble = 0 /\ held = {}

Trouble == trouble < MaxTrouble /\ trouble' = trouble + 1

-----------------------------------------------------------------------------
(* Texts: locateSecrets, mergeSpans, spliceSpans.                          *)

Text == req.body
Holds(s) == Text.at[s] # {}
IsForm == Text.shape = "form"

\* Mutant: a merged span ends where the later of the two ends.
ExtendToLater(spans, s) ==
    LET last == spans[Len(spans)]
    IN IF spans # << >> /\ s[1] <= last[2]
       THEN [spans EXCEPT ![Len(spans)] = <<last[1], s[2]>>]
       ELSE Append(spans, s)

\* One step of mergeSpans: s overlaps or touches the last span, or follows it.
MergeSpan(spans, s) ==
    LET last == spans[Len(spans)]
    IN IF spans # << >> /\ s[1] <= last[2]
       THEN [spans EXCEPT ![Len(spans)] = <<last[1], IF s[2] > last[2] THEN s[2] ELSE last[2]>>]
       ELSE Append(spans, s)

\* sort.Slice: spans with the same start come in any order.
ByStart(spans) ==
    CHOOSE q \in [1..Cardinality(spans) -> spans] :
        \A i, j \in 1..Cardinality(spans) : i < j => q[i] # q[j] /\ q[i][1] <= q[j][1]

\* mergeSpans, span by span.
Merged(spans) ==
    LET merged[i \in 0..Cardinality(spans)] ==
            IF i = 0 THEN << >> ELSE MergeSpan(merged[i - 1], ByStart(spans)[i])
    IN  merged

mergeSpans(spans) == Merged(spans)[Cardinality(spans)]

Cells(span) == span[1] .. (span[2] - 1)

\* The cells that the tokens of spliceSpans replace.
Spliced(spans) ==
    LET merged == mergeSpans(spans) IN UNION {Cells(merged[i]) : i \in DOMAIN merged}

\* Cells that hold a secret of S.
CellsOf(S) == UNION {Cells(span) : span \in UNION {Text.at[s] : s \in S}}

\* What the scanner finds in the text in which the cells M have been replaced:
\* an occurrence that is left whole, and not packed.
Found(M) == {s \in Secret \ Text.packed : \E span \in Text.at[s] : Cells(span) \cap M = {}}

\* What goes out of the secrets when the cells M are replaced.
Leaked(M) == {s \in Secret : CellsOf({s}) \ M # {}}

-----------------------------------------------------------------------------
(* The settings change at any moment.                                      *)

\* What they hold back now.
HeldBack(p, m, e) == IF p = "allow_with_dlp" /\ m # "bypass" THEN e ELSE {}

Change ==
    /\ changes < MaxChange
    /\ changes' = changes + 1
    /\ \/ policy' \in {"allow", "monitor", "allow_with_dlp", "deny"} \ {policy}
          /\ UNCHANGED <<mode, enabled>>
       \/ mode' \in {"block", "mask", "bypass"} \ {mode}
          /\ UNCHANGED <<policy, enabled>>
       \/ enabled' \in SUBSET Secret \ {enabled}
          /\ UNCHANGED <<policy, mode>>
    /\ held' = held \cap HeldBack(policy', mode', enabled')
    /\ UNCHANGED <<conn, pc, req, dlpAction, redaction, out, tally, requests, trouble>>

-----------------------------------------------------------------------------
(* The connection and the request.                                         *)

\* HandleConnectFunc.  Plain HTTP needs no CONNECT and is judged like "mitm".
Connect ==
    /\ conn = "none"
    /\ conn' = IF policy = "allow" THEN "tunnel" ELSE "mitm"
    /\ UNCHANGED <<settings, pc, req, dlpAction, redaction, out, tally, bounds, held>>

Close ==
    /\ conn # "none"
    /\ pc \in {"idle", "done"}
    /\ conn' = "none" /\ pc' = "idle"
    /\ UNCHANGED <<settings, req, dlpAction, redaction, out, tally, bounds, held>>

\* The client sends a request on the open connection; a tunnel is opaque.
Send ==
    /\ conn # "none"
    /\ pc \in {"idle", "done"}
    /\ requests < MaxRequest
    /\ requests' = requests + 1
    /\ \E b \in Body, quiet \in BOOLEAN : req' = [body |-> b, quiet |-> quiet]
    /\ held' = HeldBack(policy, mode, enabled)
    /\ dlpAction' = "none" /\ part' = {} /\ todo' = {} /\ masked' = {} /\ hit' = {}
    /\ IF conn = "tunnel" THEN pc' = "done" /\ out' = "tunnelled"
                           ELSE pc' = "policy" /\ out' = "none"
    /\ UNCHANGED <<settings, conn, tally, changes, trouble>>

Goes(next) == pc' = next /\ UNCHANGED out
Ends(as) == pc' = "done" /\ out' = as

\* What no step of a request changes.
around == <<settings, conn, req, requests, changes, held>>

\* DoFunc: the live policy.
ChecksPolicy ==
    /\ pc = "policy"
    /\ CASE policy = "deny" -> Ends("denied")
         [] policy = "allow_with_dlp" -> Goes("mode")
         [] OTHER -> Ends("forwarded")
    /\ UNCHANGED <<around, dlpAction, redaction, tally, trouble>>

ReadsMode ==
    /\ pc = "mode"
    /\ dlpAction' = mode
    /\ IF mode = "bypass" \/ req.quiet THEN Ends("forwarded") ELSE Goes("read")
    /\ UNCHANGED <<around, redaction, tally, trouble>>

\* notifyBlock, recordEvent and the answer 451.
Refused(t) == tally' = [t EXCEPT !.blocks = @ + 1] /\ Ends("blocked")

\* readScanBody and decompressForScan: in mask mode what cannot be opened is
\* blocked, in block mode it is scanned as it is.
Reads ==
    /\ pc = "read"
    /\ \/ Trouble /\ Ends("error") /\ UNCHANGED <<todo, tally>>
       \/ dlpAction = "block" /\ Goes("scan") /\ UNCHANGED <<todo, tally, trouble>>
       \/ /\ dlpAction = "mask" /\ Text.encoding = "other"
          /\ Refused([tally EXCEPT !.scans = @ + 1])
          /\ UNCHANGED <<todo, trouble>>
       \/ /\ dlpAction = "mask" /\ Text.encoding # "other"
          /\ todo' = IF IsForm THEN {s \in Secret : Holds(s)} ELSE {}
          /\ IF IsForm /\ todo' = {} THEN Ends("forwarded") ELSE Goes("base")
          /\ UNCHANGED <<tally, trouble>>
    /\ UNCHANGED <<around, dlpAction, part, masked, hit>>

\* maxScanBytes bounds what is scanned, maxFileBytes what is masked.
InReach == Text.depth = "scanned" \/ (dlpAction = "mask" /\ Text.depth = "buffered")

\* bumpStats: an error is swallowed.
Bumped(t, blocked) ==
    \/ /\ tally' = [t EXCEPT !.dbScans = @ + 1, !.dbBlocks = @ + IF blocked THEN 1 ELSE 0]
       /\ UNCHANGED trouble
    \/ tally' = t /\ Trouble

\* decodeBase64Text; decodeScanBody does not call it for the values of a form.
Unpacked == IF IsForm THEN {} ELSE {s \in Text.packed : Holds(s)}

\* extractMultipart takes the parts of a multipart body and their file names, as
\* decodeScanBody takes the values of a form.
Extracted == Secret \ Text.aside

\* decodeScanBody
Seen ==
    IF InReach /\ Text.encoding # "other"
    THEN (Found({}) \cup Unpacked) \cap Extracted \cap enabled
    ELSE {}

\* scanBodySafely: a panic counts as a clean scan.
Scans ==
    /\ pc = "scan"
    /\ LET counted == [tally EXCEPT !.scans = @ + 1]
       IN \/ Seen # {} /\ Bumped([counted EXCEPT !.blocks = @ + 1], TRUE) /\ Ends("blocked")
          \/ Seen = {} /\ Bumped(counted, FALSE) /\ Ends("forwarded")
          \/ tally' = [counted EXCEPT !.dbScans = @ + 1] /\ Trouble /\ Ends("unscanned")
    /\ UNCHANGED <<around, dlpAction, redaction>>

-----------------------------------------------------------------------------
(* Masking: Redact reads the pipeline three times, for each text anew.     *)

\* compressRedactedBody packs the masked body again as it was.
CompressFails == Text.encoding = "gzip" /\ Trouble

\* After the last text: DoFunc sends what was masked, or the body as it is.
\* Nothing is counted when nothing was masked.
Delivers(m) ==
    IF m = {} THEN Ends("forwarded") /\ UNCHANGED <<tally, trouble>>
    ELSE \/ CompressFails /\ Refused(tally)
         \/ Bumped([tally EXCEPT !.scans = @ + 1], TRUE) /\ Ends("masked")

\* A text is done; redactFormBody takes the next field.
Finishes(m) ==
    /\ masked' = m
    /\ todo' = todo \ part
    /\ IF todo' # {} THEN Goes("base") /\ UNCHANGED <<tally, trouble>> ELSE Delivers(m)

\* The text stays blocked: fatal for a body, but a form field is kept as it is.
StaysBlocked ==
    IF IsForm THEN Finishes(masked)
    ELSE /\ Refused([tally EXCEPT !.scans = @ + 1])
         /\ UNCHANGED <<todo, masked, trouble>>

\* Of a form the values are masked, of any other body the text as it is.
Present(texts) == {s \in Found({}) : InReach /\ s \in texts /\ (IsForm => s \notin Text.aside)}

\* The scan.
RedactBegins ==
    /\ pc = "base"
    /\ IF IsForm THEN \E s \in todo : part' = {s} ELSE part' = Secret
    /\ IF Present(part') \cap enabled = {} THEN Goes("verify") /\ hit' = {}
       ELSE Goes("locate") /\ UNCHANGED hit
    /\ UNCHANGED <<around, dlpAction, todo, masked, tally, trouble>>

\* locateSecrets and spliceSpans.
Locates ==
    /\ pc = "locate"
    /\ LET wanted == Present(part) \cap enabled
       IN IF wanted = {} \/ wanted \cap Text.veiled # {} THEN StaysBlocked /\ UNCHANGED hit
          ELSE /\ hit' = Spliced(UNION {Text.at[s] : s \in wanted})
               /\ Goes("verify")
               /\ UNCHANGED <<todo, masked, tally, trouble>>
    /\ UNCHANGED <<around, dlpAction, part>>

\* The verify-pass.  Nothing has been located when the first scan was clean.
Verifies ==
    /\ pc = "verify"
    /\ IF hit # {} /\ Found(hit) \cap Present(part) \cap enabled # {} THEN StaysBlocked
       ELSE Finishes(masked \cup hit)
    /\ UNCHANGED <<around, dlpAction, part, hit>>

-----------------------------------------------------------------------------
Next ==
    \/ Change \/ Connect \/ Close \/ Send
    \/ ChecksPolicy \/ ReadsMode \/ Reads \/ Scans
    \/ RedactBegins \/ Locates \/ Verifies

Spec == Init /\ [][Next]_vars

-----------------------------------------------------------------------------
(* Properties                                                              *)

\* Secrets that have gone out with the request.
Gone ==
    CASE out \in {"tunnelled", "forwarded", "unscanned"} -> Leaked({})
      [] out = "masked" -> Leaked(masked)
      [] OTHER -> {}

\* What the proxy lets pass with open eyes: tunnels, telemetry paths, a panic,
\* what is too deep or, in block mode, compressed in an unknown way, the form
\* fields in which a secret is found but cannot be located, what is packed and
\* would have to be masked or stands in a form, and what lies aside.
Unheld(s) ==
    \/ out \in {"tunnelled", "unscanned"} \/ req.quiet \/ ~InReach
    \/ dlpAction = "block" /\ Text.encoding = "other"
    \/ dlpAction = "mask" /\ IsForm /\ s \in Text.veiled
    \/ s \in Text.packed /\ (dlpAction = "mask" \/ IsForm)
    \/ s \in Text.aside /\ (dlpAction = "block" \/ IsForm)

\* Whatever the administrator changes while a request is on its way, it does
\* not carry out any cell of a secret that every setting since it began holds
\* back.
HeldBackStays == pc = "done" => \A s \in Gone \cap held : Unheld(s)
=============================================================================
