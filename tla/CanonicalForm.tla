---------------------------- MODULE CanonicalForm ---------------------------
(***************************************************************************)
(* What is asked of a program that computes canonical forms of coloured    *)
(* directed graphs, and the terms to say it in.  A coloured graph is a     *)
(* record [g, colors]: g maps a vertex to the set of its out-neighbours    *)
(* and colors maps it to the number of vertices of smaller colours.        *)
(***************************************************************************)
EXTENDS Integers, Sequences, FiniteSets

VARIABLES
    input,      \* the coloured graph at hand
    labelling,  \* <<>>, or <<s>> when the answer is to put v at s[v]
    answers     \* the earlier inputs with their labellings: a set of <<input, s>>

contractVars == <<input, labelling, answers>>

\* The isomorphisms from a to b as sequences of images, built vertex by vertex.
Isomorphisms(a, b) ==
    LET n == Cardinality(DOMAIN a.g)
        Fits(s, v, w) ==
            /\ a.colors[v] = b.colors[w]
            /\ v \in a.g[v] <=> w \in b.g[w]
            /\ \A u \in 0 .. v - 1 :
                   /\ s[u + 1] # w
                   /\ u \in a.g[v] <=> s[u + 1] \in b.g[w]
                   /\ v \in a.g[u] <=> w \in b.g[s[u + 1]]
        Partial[k \in 0 .. n] ==
            IF k = 0 THEN {<<>>}
            ELSE UNION {{Append(s, w) : w \in {x \in DOMAIN b.g : Fits(s, k - 1, x)}}
                        : s \in Partial[k - 1]}
    IN  Partial[n]

Isomorphic(a, b) ==
    Cardinality(DOMAIN a.g) = Cardinality(DOMAIN b.g) /\ Isomorphisms(a, b) # {}

Automorphisms(a) == Isomorphisms(a, a)

\* Whether putting v where s puts it turns the graph a into itself.
IsAutomorphism(a, s) ==
    /\ {s[v] : v \in DOMAIN a.g} = DOMAIN a.g
    /\ \A v \in DOMAIN a.g :
           a.colors[s[v]] = a.colors[v] /\ a.g[s[v]] = {s[w] : w \in a.g[v]}

OrbitOf(a, v) == {s[v + 1] : s \in Automorphisms(a)}

\* The graph a with every vertex v put at s[v].
Form(a, s) ==
    {<<s[arc[1]], s[arc[2]]>> :
        arc \in {e \in (DOMAIN a.g) \X (DOMAIN a.g) : e[2] \in a.g[e[1]]}}

\* The vertices are permuted, and those of a colour stay before those of the next.
IsLabelling(a, s) ==
    /\ DOMAIN s = DOMAIN a.g
    /\ {s[v] : v \in DOMAIN s} = DOMAIN a.g
    /\ \A v, w \in DOMAIN s : a.colors[v] < a.colors[w] => s[v] < s[w]

ContractInit == labelling = <<>> /\ answers = {}

\* Equal forms for isomorphic graphs of equal colours, and only for those.
Answer ==
    /\ labelling = <<>>
    /\ Len(labelling') = 1
    /\ LET s == labelling'[1]
       IN  /\ IsLabelling(input, s)
           /\ \A old \in answers :
                  /\ DOMAIN old[2] = DOMAIN s
                  /\ Form(old[1], old[2]) = Form(input, s) <=> Isomorphic(old[1], input)
    /\ UNCHANGED <<input, answers>>

\* The next graph, with as many vertices of each colour.
Ask ==
    /\ labelling # <<>>
    /\ labelling' = <<>>
    /\ answers' = answers \cup {<<input, labelling[1]>>}

ContractSpec == ContractInit /\ [][Answer \/ Ask]_contractVars
=============================================================================
