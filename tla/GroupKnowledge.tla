--------------------------- MODULE GroupKnowledge ---------------------------
(***************************************************************************)
(* What a store of automorphisms is asked for: the orbits of the group     *)
(* that they generate, with some points held fixed.  It may know less than *)
(* there is to know, but nothing that is not so.                           *)
(***************************************************************************)
EXTENDS Integers, Sequences, FiniteSets, FiniteSetsExt

CONSTANT N    \* the number of points

Points == 0 .. N - 1

VARIABLES
    group,    \* the permutations generated by those given
    answer    \* <<>>, or the last answer, in a sequence of one

knowledgeVars == <<group, answer>>

Identity == [i \in Points |-> i]

\* First p, then q.
Then(p, q) == [i \in Points |-> q[p[i]]]

Generated(S) ==
    LET Closed[T \in SUBSET [Points -> Points]] ==
            LET U == T \cup {Then(s, t) : s \in T, t \in S}
            IN  IF U = T THEN T ELSE Closed[U]
    IN  Closed[{Identity}]

Stabilizer(G, fix) == {s \in G : \A i \in DOMAIN fix : s[fix[i]] = fix[i]}

OrbitUnder(G, v) == {s[v] : s \in G}

\* Every point has a smaller one, or itself, of its orbit as its name, and names name
\* themselves.
Within(orbits, G) ==
    \A v \in Points :
        /\ orbits[v] \in OrbitUnder(G, v)
        /\ orbits[v] <= v
        /\ orbits[orbits[v]] = orbits[v]

Exactly(orbits, G) == \A v \in Points : orbits[v] = Min(OrbitUnder(G, v))

\* An answer is about the first points of fix, as many as its level.  Should it not be
\* about all of them, the next is known to have a smaller one in its orbit.  With no point
\* held fixed all that was given is known.
Sound(a) ==
    LET G == Stabilizer(group, SubSeq(a.fix, 1, a.level))
    IN  /\ a.level \in 0 .. Len(a.fix)
        /\ Within(a.orbits, G)
        /\ a.level < Len(a.fix) => a.orbits[a.fix[a.level + 1]] # a.fix[a.level + 1]
        /\ a.level = 0 => Exactly(a.orbits, G)

KnowledgeInit == group = {Identity} /\ answer = <<>>

Give ==
    /\ \E p \in group' : group' = Generated(group \cup {p})
    /\ answer' = <<>>

Ask == answer' = <<>> /\ UNCHANGED group

Answer == Len(answer') = 1 /\ Sound(answer'[1]) /\ UNCHANGED group

Forget == group' = {Identity} /\ answer' = <<>>

KnowledgeSpec == KnowledgeInit /\ [][Ask \/ Answer \/ Give \/ Forget]_knowledgeVars
=============================================================================
