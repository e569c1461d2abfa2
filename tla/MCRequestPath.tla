----------------------------- MODULE MCRequestPath -----------------------------
(* Bodies for RequestPath: two secrets that lie apart, touch, overlap or lie   *)
(* in one another, once or twice, plain or veiled, in every wrapping.          *)
EXTENDS RequestPath

Body1(a, b, veiled, encoding, shape, depth) ==
    [at |-> [s \in Secret |-> IF s = "key" THEN a ELSE b], veiled |-> veiled,
     packed |-> {}, aside |-> {}, encoding |-> encoding, shape |-> shape, depth |-> depth]

MCSecret == {"key", "mail"}

MCBody ==
    \* spans that interfere
    {Body1(a, b, {}, "identity", "plain", "scanned") :
        a \in {{<<0, 4>>}, {<<0, 2>>}, {<<0, 2>>, <<3, 5>>}}, b \in {{<<1, 2>>}, {<<1, 3>>}, {<<2, 3>>}}}
    \* wrappings
    \cup {Body1({<<0, 1>>}, {<<1, 2>>}, v, e, f, "scanned") :
        v \in {{}, {"mail"}}, e \in Encoding, f \in {"plain", "form"}}
    \* places
    \cup {[Body1({<<0, 1>>}, {<<1, 2>>}, {}, "identity", f, "scanned")
              EXCEPT !.packed = p, !.aside = IF f = "plain" THEN {} ELSE {"mail"} \ p] :
        f \in Shape, p \in {{}, {"key"}, {"mail"}}}
    \cup {Body1({<<0, 1>>}, {}, {}, "gzip", "plain", d) : d \in Depth}
    \* a form without any
    \cup {Body1({}, {}, {}, "identity", "form", "scanned")}
=============================================================================
