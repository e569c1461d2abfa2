------------------------------- MODULE MCDLPMatch -------------------------------
(* Rules and texts for DLPMatch: a key with a prefix, mail addresses that count *)
(* in pairs and next to a hotword, and texts in which prefixes overlap and hits *)
(* lie at the borders of the windows.                                           *)
EXTENDS DLPMatch

Key == [category |-> "cloud", prefix |-> 2, severity |-> "critical", weight |-> 1,
        minMatches |-> 0, hotwordWindow |-> 2, hotwordBoost |-> 0, requireHotword |-> FALSE,
        entropyMin |-> 3, bias |-> <<>>]
Mail == [category |-> "pii", prefix |-> 0, severity |-> "medium", weight |-> 0,
         minMatches |-> 2, hotwordWindow |-> 2, hotwordBoost |-> 1, requireHotword |-> TRUE,
         entropyMin |-> 0, bias |-> [code_host |-> -1]]
MCRule == {"key", "mail"}
MCPattern == [p \in MCRule |-> IF p = "key" THEN Key ELSE Mail]

Tests == [appliesTo |-> MCRule, kind |-> "proximity", window |-> 2, values |-> {}, suppress |-> FALSE]
Docs == [appliesTo |-> {"key"}, kind |-> "exact", window |-> 0, values |-> {"weak"}, suppress |-> FALSE]
MCExclusion == {"tests", "docs"}
MCException == [x \in MCExclusion |-> IF x = "tests" THEN Tests ELSE Docs]

MCBundle ==
    {[rules |-> MCRule, exclusions |-> x] : x \in {{}, MCExclusion}}
    \cup {[rules |-> {"key"}, exclusions |-> {"docs"}]}

MCValue == {"strong", "weak"}
MCEntropy == [v \in MCValue |-> IF v = "strong" THEN 4 ELSE 2]

HitAt(i, v) == [at |-> <<i, i + 2>>, value |-> v]
TextOf(size, occurs, keys, mails) ==
    [size |-> size,
     occurs |-> [p \in MCRule |-> IF p = "key" THEN occurs ELSE {}],
     hits |-> [p \in MCRule |-> IF p = "key" THEN keys ELSE mails],
     hotwords |-> [p \in MCRule |-> {<<2, 3>>}],
     words |-> [x \in MCExclusion |-> {<<5, 6>>}]]

MCContent ==
    \* the prefix stands in prose, overlaps itself, or is far from the hit
    {TextOf(9, o, {HitAt(i, "strong")}, {}) : o \in {{0, 1}, {1, 5}, {0, 1, 5}}, i \in {1, 5}}
    \* a short text, keys that an exclusion or the allowlist may clear
    \cup {TextOf(6, {0}, {HitAt(0, v), HitAt(3, w)}, {}) : v \in MCValue, w \in {"weak"}}
    \* mail addresses
    \cup {TextOf(n, {}, {}, {HitAt(0, "strong"), HitAt(3, "weak")}) : n \in {9}}

Anywhere == [kind |-> "", element |-> "", fenced |-> FALSE, language |-> "", path |-> ""]
MCPage ==
    {Anywhere,
     [Anywhere EXCEPT !.kind = "code_host", !.path = "test", !.fenced = TRUE, !.language = "test"]}

MCSignals ==
    {[hotwordBoost |-> 2, entropyBoost |-> 1, entropyPenalty |-> -2,
      exclusionPenalty |-> x, multiMatchBoost |-> 1] : x \in {-3, 1}}
MCBars == {[critical |-> 1, high |-> 2, medium |-> n, low |-> 4] : n \in {2, 4}}
=============================================================================
