------------------------- MODULE ScottSessionProofs -------------------------
(***************************************************************************)
(* Theorems of module ScottSession, for any graphs, any number of calls    *)
(* and of warm-ups, any capacity of the pipe and any number of deaths.     *)
(*                                                                         *)
(* The inductive invariant says how far the transmission of the graph has  *)
(* come: what Python has read is a prefix of the lines of the graph, and   *)
(* what is in the pipe are the lines that follow it.                       *)
(***************************************************************************)
EXTENDS ScottSession, SequenceTheorems, TLAPS

Line == {NodeLine(i) : i \in Nat} \union {EdgeLine(e) : e \in Nat \X Nat}
          \union {EndLine}

Process == [pc : ProcPcs, in : Seq(Line), nodes : Seq(Nat),
            edges : Seq(Nat \X Nat), out : 0 .. 2, answer : {"open", "closed"}]

ValidGraph(g) ==
  /\ g.n \in Nat
  /\ g.edges \in Seq((0 .. g.n - 1) \X (0 .. g.n - 1))

-----------------------------------------------------------------------------
\* The line at each place of the transmission of a graph.
LEMMA LinesAt ==
  ASSUME NEW g, ValidGraph(g)
  PROVE  /\ Lines(g) \in Seq(Line)
         /\ Len(Lines(g)) = g.n + Len(g.edges) + 2
         /\ \A i \in 1 .. g.n : Lines(g)[i] = NodeLine(i - 1)
         /\ Lines(g)[g.n + 1] = EndLine
         /\ \A k \in 1 .. Len(g.edges) :
              Lines(g)[g.n + 1 + k] = EdgeLine(g.edges[k])
         /\ Lines(g)[g.n + Len(g.edges) + 2] = EndLine
<1> DEFINE nodes == [i \in 1 .. g.n |-> NodeLine(i - 1)]
           edges == [k \in DOMAIN g.edges |-> EdgeLine(g.edges[k])]
<1>0. g.n \in Nat /\ g.edges \in Seq((0 .. g.n - 1) \X (0 .. g.n - 1))
  BY DEF ValidGraph
<1>1. nodes \in Seq(Line) /\ Len(nodes) = g.n
  <2>1. \A i \in 1 .. g.n : NodeLine(i - 1) \in Line
    BY <1>0 DEF Line
  <2> QED
    BY <1>0, <2>1, IsASeq
<1>2. edges \in Seq(Line) /\ Len(edges) = Len(g.edges)
  <2>1. DOMAIN g.edges = 1 .. Len(g.edges) /\ Len(g.edges) \in Nat
    BY <1>0
  <2>2. \A k \in 1 .. Len(g.edges) : g.edges[k] \in (0 .. g.n - 1) \X (0 .. g.n - 1)
    BY <1>0
  <2>3. \A k \in 1 .. Len(g.edges) : g.edges[k] \in Nat \X Nat
    BY <1>0, <2>2
  <2>4. \A k \in 1 .. Len(g.edges) : EdgeLine(g.edges[k]) \in Line
    BY <2>3 DEF Line
  <2> HIDE DEF Line
  <2> QED
    BY <2>1, <2>4, IsASeq
<1>4. /\ \A i \in 1 .. g.n : nodes[i] = NodeLine(i - 1)
      /\ \A k \in 1 .. Len(g.edges) : edges[k] = EdgeLine(g.edges[k])
  BY <1>0
<1>5. Lines(g) = nodes \o <<EndLine>> \o edges \o <<EndLine>>
  BY DEF Lines
<1> HIDE DEF nodes, edges
<1>6. EndLine \in Line
  BY DEF Line
<1> QED
  <2>1. /\ Lines(g) \in Seq(Line)
        /\ Len(Lines(g)) = Len(nodes) + Len(edges) + 2
        /\ \A i \in 1 .. Len(nodes) : Lines(g)[i] = nodes[i]
        /\ Lines(g)[Len(nodes) + 1] = EndLine
        /\ \A k \in 1 .. Len(edges) :
             Lines(g)[Len(nodes) + 1 + k] = edges[k]
        /\ Lines(g)[Len(nodes) + Len(edges) + 2] = EndLine
    <3>1. nodes \in Seq(Line) /\ edges \in Seq(Line)
      BY <1>1, <1>2
    <3> HIDE DEF Line
    <3> QED
      BY <3>1, <1>5, <1>6
  <2>2. Len(nodes) = g.n /\ Len(edges) = Len(g.edges)
    BY <1>1, <1>2
  <2>3. Len(Lines(g)) = g.n + Len(g.edges) + 2
    BY <2>1, <2>2
  <2>4. \A i \in 1 .. g.n : Lines(g)[i] = NodeLine(i - 1)
    BY <2>1, <2>2, <1>4
  <2>5. \A k \in 1 .. Len(g.edges) :
         Lines(g)[g.n + 1 + k] = EdgeLine(g.edges[k])
    BY <2>1, <2>2, <1>4
  <2>6. /\ Lines(g)[g.n + 1] = EndLine
        /\ Lines(g)[g.n + Len(g.edges) + 2] = EndLine
    BY <2>1, <2>2
  <2> QED
    BY <2>1, <2>3, <2>4, <2>5, <2>6

\* Lines of one kind are no lines of another.
LEMMA Kinds ==
  /\ \A i : NodeLine(i).kind = "node" /\ NodeLine(i).id = i
  /\ \A e : EdgeLine(e).kind = "edge" /\ EdgeLine(e).ends = e
  /\ EndLine.kind = "end"
BY DEF NodeLine, EdgeLine, EndLine

LEMMA MaxOfEnds ==
  ASSUME NEW n \in Nat, NEW a \in 0 .. n - 1, NEW b \in 0 .. n - 1
  PROVE  Max({a, b}) < n
BY DEF Max

LEMMA NoGraphValid == ValidGraph(NoGraph)
BY DEF ValidGraph, NoGraph

LEMMA GraphsValid == \A g \in Graphs \union {NoGraph} : ValidGraph(g)
BY ScottAssumption, NoGraphValid DEF ValidGraph

-----------------------------------------------------------------------------
(***************************************************************************)
(* The inductive invariant.                                                *)
(***************************************************************************)
SessionTypes ==
  /\ pc \in {"idle", "write", "read", "gone"}
  /\ graph \in Graphs \union {NoGraph}
  /\ sent \in 0 .. Len(Lines(graph)) /\ times \in 0 .. 2
  /\ result \in {"none", "times", "null", "exception"}
  /\ cur \in 0 .. Calls /\ deaths \in 0 .. MaxDeaths
  /\ procs \in [1 .. Calls -> Process]
  /\ \A c \in 1 .. Calls : Len(procs[c].in) <= Capacity

Over == {"none", "shutdown", "exited"}

\* The processes of earlier calls have nothing to do but exit, those of later
\* calls are not there yet.
OtherCalls ==
  /\ \A c \in 1 .. Calls : c < cur => procs[c].pc \in Over
  /\ \A c \in 1 .. Calls : c > cur =>
       /\ procs[c].pc = "none" /\ procs[c].out = 0
       /\ procs[c].in = << >> /\ procs[c].nodes = << >> /\ procs[c].edges = << >>
       /\ pc # "gone" => procs[c].answer = "open"
  /\ pc = "idle" /\ cur > 0 => Scott.pc \in Over

\* The lines Scott has read: as many as there are nodes, edges and ends.
Taken == IF Scott.pc = "nodes" THEN Len(Scott.nodes)
         ELSE IF Scott.pc = "edges" THEN graph.n + 1 + Len(Scott.edges)
         ELSE graph.n + Len(graph.edges) + 2

\* What Scott has read of the graph, and what is still in the pipe to it.
Transmission ==
  cur > 0 /\ Scott.pc \notin {"none", "exited"} =>
    /\ IF Scott.pc = "nodes"
       THEN /\ Len(Scott.nodes) <= graph.n
            /\ Scott.nodes = [i \in 1 .. Len(Scott.nodes) |-> i - 1]
            /\ Scott.edges = << >>
       ELSE /\ Len(Scott.edges) <= Len(graph.edges)
            /\ Scott.nodes = [i \in 1 .. graph.n |-> i - 1]
            /\ \A k \in 1 .. Len(Scott.edges) : Scott.edges[k] = graph.edges[k]
            /\ Scott.pc # "edges" => Len(Scott.edges) = Len(graph.edges)
    /\ Len(Scott.in) = sent - Taken
    /\ \A i \in 1 .. Len(Scott.in) : Scott.in[i] = Lines(graph)[Taken + i]

\* While Java waits for the times of this call, they are on their way or read,
\* unless the process has died.
Answer ==
  pc \in {"write", "read"} =>
    /\ cur > 0 /\ Scott.answer = "open" /\ Scott.pc # "none"
    /\ Scott.pc \in {"nodes", "edges", "canonize", "print"} =>
         times = 0 /\ Scott.out = 0
    /\ Scott.pc = "shutdown" => times + Scott.out = 2
    /\ Scott.pc = "exited" => times + Scott.out = 2 \/ deaths > 0

Outcome ==
  pc = "idle" /\ cur > 0 =>
    /\ result = "times" => Scott.pc \in {"shutdown", "exited"}
    /\ result = "exception" => Scott.pc = "exited" /\ deaths > 0

Session == SessionTypes /\ OtherCalls /\ Transmission /\ Answer /\ Outcome

-----------------------------------------------------------------------------
LEMMA InitSession == Init => Session
<1> SUFFICES ASSUME Init PROVE Session
  OBVIOUS
<1>1. NoProc \in Process
  BY DEF NoProc, Process, ProcPcs
<1>2. 0 \in 0 .. Len(Lines(graph))
  BY NoGraphValid, LinesAt DEF Init
<1>3. SessionTypes
  BY <1>1, <1>2, ScottAssumption DEF Init, SessionTypes, NoProc
<1>4. OtherCalls
  BY ScottAssumption DEF Init, OtherCalls, NoProc
<1> QED
  BY <1>3, <1>4 DEF Init, Session, Transmission, Answer, Outcome

\* The facts about the current call that every step starts from.
LEMMA Current ==
  ASSUME SessionTypes
  PROVE  /\ ValidGraph(graph) /\ graph.n \in Nat /\ Len(graph.edges) \in Nat
         /\ Len(Lines(graph)) = graph.n + Len(graph.edges) + 2
         /\ cur \in Nat
         /\ cur > 0 => cur \in 1 .. Calls /\ Scott \in Process
<1>1. ValidGraph(graph)
  BY GraphsValid DEF SessionTypes
<1>2. graph.n \in Nat /\ Len(graph.edges) \in Nat
  BY <1>1 DEF ValidGraph
<1>3. Len(Lines(graph)) = graph.n + Len(graph.edges) + 2
  BY <1>1, LinesAt
<1>4. cur \in Nat /\ (cur > 0 => cur \in 1 .. Calls)
  BY ScottAssumption DEF SessionTypes
<1>5. cur > 0 => Scott \in Process
  BY <1>4 DEF SessionTypes, Scott
<1> QED
  BY <1>1, <1>2, <1>3, <1>4, <1>5

-----------------------------------------------------------------------------
(***************************************************************************)
(* Steps of Java.                                                          *)
(***************************************************************************)
LEMMA StartSessionStep ==
  ASSUME Session, StartSession
  PROVE  Session'
<1> DEFINE new == cur + 1
<1>1. /\ cur \in Nat /\ new \in 1 .. Calls /\ cur' = new /\ pc' = "write"
      /\ graph' \in Graphs /\ sent' = 0 /\ times' = 0 /\ result' = "none"
      /\ deaths' = deaths
  BY Current, ScottAssumption DEF Session, StartSession, MayCall
<1>2. /\ procs[new].pc = "none" /\ procs[new].out = 0 /\ procs[new].in = << >>
      /\ procs[new].nodes = << >> /\ procs[new].edges = << >>
      /\ procs[new].answer = "open"
  BY <1>1 DEF Session, OtherCalls, StartSession, MayCall
<1>3. procs' = [procs EXCEPT ![new] = [procs[new] EXCEPT !.pc = "nodes"]]
  BY DEF StartSession
<1>4. procs[new] \in Process /\ procs \in [1 .. Calls -> Process]
  BY <1>1 DEF Session, SessionTypes
<1> HIDE DEF new
<1>5. /\ procs'[new] \in Process
      /\ procs'[new].pc = "nodes" /\ procs'[new].out = 0
      /\ procs'[new].in = << >> /\ procs'[new].nodes = << >>
      /\ procs'[new].edges = << >> /\ procs'[new].answer = "open"
      /\ \A c \in 1 .. Calls : c # new => procs'[c] = procs[c]
  <2>1. [procs[new] EXCEPT !.pc = "nodes"] \in Process
    BY <1>4 DEF Process, ProcPcs
  <2>2. /\ [procs[new] EXCEPT !.pc = "nodes"].pc = "nodes"
        /\ [procs[new] EXCEPT !.pc = "nodes"].out = 0
        /\ [procs[new] EXCEPT !.pc = "nodes"].in = << >>
        /\ [procs[new] EXCEPT !.pc = "nodes"].nodes = << >>
        /\ [procs[new] EXCEPT !.pc = "nodes"].edges = << >>
        /\ [procs[new] EXCEPT !.pc = "nodes"].answer = "open"
    BY <1>2, <1>4 DEF Process
  <2>3. procs'[new] = [procs[new] EXCEPT !.pc = "nodes"]
    BY <1>1, <1>3, <1>4
  <2>4. \A c \in 1 .. Calls : c # new => procs'[c] = procs[c]
    BY <1>3, <1>4
  <2> QED
    BY <2>1, <2>2, <2>3, <2>4
<1>6. ValidGraph(graph') /\ graph'.n \in Nat /\ Len(Lines(graph')) \in Nat
  <2>1. ValidGraph(graph')
    BY <1>1, GraphsValid
  <2>2. graph'.n \in Nat /\ Len(graph'.edges) \in Nat
    BY <2>1 DEF ValidGraph
  <2> QED
    BY <2>1, <2>2, LinesAt
<1>7. SessionTypes'
  <2>1. procs' \in [1 .. Calls -> Process]
    BY <1>1, <1>3, <1>4, <1>5
  <2>2. \A c \in 1 .. Calls : Len(procs'[c].in) <= Capacity
    BY <1>5, ScottAssumption DEF Session, SessionTypes
  <2> QED
    BY <2>1, <2>2, <1>1, <1>6 DEF Session, SessionTypes
<1>8. OtherCalls'
  BY <1>1, <1>5 DEF Session, OtherCalls, StartSession, MayCall, Scott, new
<1>9. Transmission'
  <2>1. /\ Scott'.pc = "nodes" /\ Scott'.in = << >>
        /\ Scott'.nodes = << >> /\ Scott'.edges = << >>
    BY <1>1, <1>5 DEF Scott
  <2>2. Len(Scott'.nodes) = 0 /\ Len(Scott'.in) = 0
    BY <2>1
  <2>3. Scott'.nodes = [i \in 1 .. Len(Scott'.nodes) |-> i - 1]
    BY <2>1
  <2>4. Taken' = 0
    BY <2>1, <2>2 DEF Taken
  <2> QED
    BY <2>1, <2>2, <2>3, <2>4, <1>1, <1>6 DEF Transmission
<1>10. Answer' /\ Outcome'
  BY <1>1, <1>5 DEF Answer, Outcome, Scott
<1> QED
  BY <1>7, <1>8, <1>9, <1>10 DEF Session

LEMMA StartFailsStep ==
  ASSUME Session, StartFails
  PROVE  Session'
<1>1. /\ cur \in Nat /\ cur + 1 \in 1 .. Calls /\ cur' = cur + 1 /\ pc = "idle"
      /\ result' = "null" /\ procs[cur + 1].pc = "none"
      /\ UNCHANGED <<pc, graph, sent, times, procs, deaths>>
  BY Current, ScottAssumption
     DEF Session, StartFails, MayCall, OtherCalls, SessionTypes
<1>2. SessionTypes'
  BY <1>1 DEF Session, SessionTypes
<1>3. OtherCalls'
  BY <1>1 DEF Session, OtherCalls, Scott, Over
<1> QED
  BY <1>1, <1>2, <1>3 DEF Session, Transmission, Answer, Outcome, Scott

LEMMA WriteLineStep ==
  ASSUME Session, WriteLine
  PROVE  Session'
<1> DEFINE line == Lines(graph)[sent + 1]
<1>1. /\ pc = "write" /\ cur > 0 /\ sent' = sent + 1
      /\ procs' = [procs EXCEPT ![cur] = [Scott EXCEPT !.in = Append(Scott.in, line)]]
      /\ UNCHANGED <<pc, graph, times, result, cur, deaths>>
      /\ Scott.pc \notin {"none", "exited"} /\ Len(Scott.in) < Capacity
      /\ sent < Len(Lines(graph))
  BY DEF Session, WriteLine, Answer, Scott, Alive
<1>2. cur \in 1 .. Calls /\ Scott \in Process /\ ValidGraph(graph)
  BY <1>1, Current DEF Session
<1>3. /\ sent \in Nat /\ Len(Lines(graph)) \in Nat /\ Lines(graph) \in Seq(Line)
  BY <1>2, LinesAt DEF Session, SessionTypes
<1>4. line \in Line
  BY <1>1, <1>3
<1>5. /\ Append(Scott.in, line) \in Seq(Line)
      /\ Len(Append(Scott.in, line)) = Len(Scott.in) + 1
      /\ \A i \in 1 .. Len(Scott.in) : Append(Scott.in, line)[i] = Scott.in[i]
      /\ Append(Scott.in, line)[Len(Scott.in) + 1] = line
      /\ Len(Scott.in) \in Nat
  BY <1>2, <1>4, AppendProperties DEF Process
<1> HIDE DEF line
<1>6. Scott' = [Scott EXCEPT !.in = Append(Scott.in, line)]
  BY <1>1, <1>2 DEF Session, SessionTypes, Scott
<1>7. /\ Scott' \in Process /\ Scott'.in = Append(Scott.in, line)
      /\ Scott'.pc = Scott.pc /\ Scott'.nodes = Scott.nodes
      /\ Scott'.edges = Scott.edges /\ Scott'.out = Scott.out
      /\ Scott'.answer = Scott.answer
  BY <1>2, <1>5, <1>6 DEF Process
<1>8. /\ procs' \in [1 .. Calls -> Process] /\ procs'[cur] = Scott'
      /\ \A c \in 1 .. Calls : c # cur => procs'[c] = procs[c]
  BY <1>1, <1>2, <1>6, <1>7 DEF Session, SessionTypes
<1>9. SessionTypes'
  <2>1. \A c \in 1 .. Calls : Len(procs'[c].in) <= Capacity
    BY <1>1, <1>2, <1>5, <1>7, <1>8, ScottAssumption DEF Session, SessionTypes
  <2>2. sent' \in 0 .. Len(Lines(graph'))
    BY <1>1, <1>3
  <2> QED
    BY <1>1, <1>8, <2>1, <2>2 DEF Session, SessionTypes
<1>10. OtherCalls'
  BY <1>1, <1>2, <1>7, <1>8 DEF Session, OtherCalls, Scott
<1>11. Transmission'
  <2>1. Taken' = Taken
    BY <1>1, <1>7 DEF Taken
  <2>2. /\ Len(Scott.in) = sent - Taken
        /\ \A i \in 1 .. Len(Scott.in) : Scott.in[i] = Lines(graph)[Taken + i]
    BY <1>1 DEF Session, Transmission
  <2>3. Taken \in Nat
    BY <1>1, <1>2, <1>3, Current DEF Session, Taken, Process
  <2>4. Len(Scott'.in) = sent' - Taken'
    BY <1>1, <1>3, <1>5, <1>7, <2>1, <2>2, <2>3
  <2>5. \A i \in 1 .. Len(Scott'.in) : Scott'.in[i] = Lines(graph')[Taken' + i]
    <3> SUFFICES ASSUME NEW i \in 1 .. Len(Scott'.in)
                 PROVE  Scott'.in[i] = Lines(graph)[Taken + i]
      BY <1>1, <2>1
    <3>1. CASE i \in 1 .. Len(Scott.in)
      BY <3>1, <2>2, <1>5, <1>7
    <3>2. CASE i = Len(Scott.in) + 1
      BY <3>2, <2>2, <2>3, <1>3, <1>5, <1>7 DEF line
    <3> QED
      BY <3>1, <3>2, <1>5, <1>7
  <2> QED
    BY <2>4, <2>5, <1>1, <1>7 DEF Session, Transmission
<1> QED
  BY <1>1, <1>7, <1>9, <1>10, <1>11 DEF Session, Answer, Outcome

\* Python is gone, and what is written goes nowhere.
LEMMA WriteNowhereStep ==
  ASSUME Session, WriteNowhere
  PROVE  Session'
<1>1. /\ sent < Len(Lines(graph)) /\ sent' = sent + 1 /\ cur > 0
      /\ Scott.pc \in {"none", "exited"}
      /\ UNCHANGED <<pc, graph, times, result, cur, procs, deaths>>
  BY DEF Session, WriteNowhere, Answer, Alive, Scott
<1>2. Len(Lines(graph)) \in Nat
  BY Current DEF Session
<1>3. SessionTypes'
  BY <1>1, <1>2 DEF Session, SessionTypes
<1>4. OtherCalls' /\ Answer' /\ Outcome'
  BY <1>1 DEF Session, OtherCalls, Answer, Outcome, Scott
<1>5. Transmission'
  BY <1>1 DEF Transmission, Scott
<1> QED
  BY <1>3, <1>4, <1>5 DEF Session

LEMMA WriteDoneStep ==
  ASSUME Session, WriteDone
  PROVE  Session'
<1>1. /\ pc = "write" /\ pc' = "read"
      /\ UNCHANGED <<graph, sent, times, result, cur, procs, deaths>>
  BY DEF WriteDone
<1>2. Transmission'
  BY <1>1 DEF Session, Transmission, Scott, Taken
<1> QED
  BY <1>1, <1>2 DEF Session, SessionTypes, OtherCalls, Answer, Outcome, Scott

\* A step of Java that changes no more of the current process than what it has
\* said and whether its output is still open.
LEMMA OutputStep ==
  ASSUME Session, cur > 0, pc # "gone", NEW out \in 0 .. 2, NEW answer \in {"open", "closed"},
         procs' = [procs EXCEPT ![cur] = [Scott EXCEPT !.out = out, !.answer = answer]],
         UNCHANGED <<graph, sent, cur, deaths>>, times' \in 0 .. 2,
         pc' \in {"read", "idle"}, result' \in {"times", "exception", result},
         pc' = "idle" => Scott.pc \in Over
  PROVE  /\ SessionTypes' /\ OtherCalls' /\ Transmission'
         /\ Scott'.out = out /\ Scott'.answer = answer /\ Scott'.pc = Scott.pc
<1>1. cur \in 1 .. Calls /\ Scott \in Process
  BY Current DEF Session
<1>2. procs \in [1 .. Calls -> Process] /\ Scott = procs[cur]
  BY DEF Session, SessionTypes, Scott
<1> DEFINE P == [Scott EXCEPT !.out = out, !.answer = answer]
<1>3. /\ P \in Process /\ P.out = out /\ P.answer = answer /\ P.pc = Scott.pc
      /\ P.in = Scott.in /\ P.nodes = Scott.nodes /\ P.edges = Scott.edges
  BY <1>1 DEF Process
<1>4. procs' = [procs EXCEPT ![cur] = P]
  OBVIOUS
<1> HIDE DEF P
<1>5. /\ procs' \in [1 .. Calls -> Process] /\ Scott' = P
      /\ \A c \in 1 .. Calls : c # cur => procs'[c] = procs[c]
  BY <1>1, <1>2, <1>3, <1>4 DEF Scott
<1>6. SessionTypes'
  <2>1. \A c \in 1 .. Calls : Len(procs'[c].in) <= Capacity
    BY <1>1, <1>2, <1>3, <1>5 DEF Session, SessionTypes, Scott
  <2> QED
    BY <2>1, <1>5 DEF Session, SessionTypes
<1>7. OtherCalls'
  BY <1>1, <1>2, <1>3, <1>5 DEF Session, OtherCalls, SessionTypes
<1>8. Transmission'
  <2>1. Taken' = Taken
    BY <1>3, <1>5 DEF Taken
  <2> QED
    BY <2>1, <1>3, <1>5 DEF Session, Transmission
<1> QED
  BY <1>3, <1>5, <1>6, <1>7, <1>8

LEMMA ReadTimeStep ==
  ASSUME Session, ReadTime
  PROVE  Session'
<1>1. /\ pc = "read" /\ pc' = pc /\ cur > 0 /\ times < 2 /\ times' = times + 1
      /\ Scott.out > 0 /\ Scott.answer = "open"
      /\ UNCHANGED <<pc, graph, sent, result, cur, deaths>>
  BY DEF Session, ReadTime, Answer
<1>2. Scott \in Process /\ times \in 0 .. 2
  BY <1>1, Current DEF Session, SessionTypes
<1>3. procs' = [procs EXCEPT ![cur] = [Scott EXCEPT !.out = Scott.out - 1,
                                                    !.answer = "open"]]
  <2>1. [Scott EXCEPT !.out = Scott.out - 1]
          = [Scott EXCEPT !.out = Scott.out - 1, !.answer = "open"]
    BY <1>1, <1>2 DEF Process
  <2>2. procs' = [procs EXCEPT ![cur] = [Scott EXCEPT !.out = Scott.out - 1]]
    BY DEF ReadTime, Scott
  <2> QED
    BY <2>1, <2>2
<1>4. Scott.out - 1 \in 0 .. 2 /\ times' \in 0 .. 2
  BY <1>1, <1>2 DEF Process
<1>5. /\ SessionTypes' /\ OtherCalls' /\ Transmission'
      /\ Scott'.out = Scott.out - 1 /\ Scott'.answer = "open" /\ Scott'.pc = Scott.pc
  BY <1>1, <1>3, <1>4, OutputStep
<1>6. Answer'
  BY <1>1, <1>2, <1>4, <1>5 DEF Session, Answer, Process
<1> QED
  BY <1>1, <1>5, <1>6 DEF Session, Outcome

LEMMA ReadEndStep ==
  ASSUME Session, ReadEnd
  PROVE  Session'
<1>1. /\ pc = "read" /\ pc' = "idle" /\ cur > 0 /\ times < 2 /\ Scott.out = 0
      /\ Scott.pc = "exited" /\ deaths > 0 /\ result' = "exception"
      /\ UNCHANGED <<graph, sent, times, cur, deaths>>
  BY DEF Session, ReadEnd, Answer, Alive, Scott, SessionTypes
<1>2. Scott \in Process /\ times \in 0 .. 2
  BY <1>1, Current DEF Session, SessionTypes
<1>3. procs' = [procs EXCEPT ![cur] = [Scott EXCEPT !.out = 0, !.answer = "closed"]]
  <2>1. [Scott EXCEPT !.answer = "closed"]
          = [Scott EXCEPT !.out = 0, !.answer = "closed"]
    BY <1>1, <1>2 DEF Process
  <2>2. procs' = [procs EXCEPT ![cur] = [Scott EXCEPT !.answer = "closed"]]
    BY DEF ReadEnd, Scott
  <2> QED
    BY <2>1, <2>2
<1>4. SessionTypes' /\ OtherCalls' /\ Transmission' /\ Scott'.pc = Scott.pc
  <2>1. Scott.pc \in Over /\ 0 \in 0 .. 2 /\ times' \in 0 .. 2
    BY <1>1, <1>2 DEF Over
  <2> QED
    BY <1>1, <1>3, <2>1, OutputStep
<1> QED
  BY <1>1, <1>4 DEF Session, Answer, Outcome

LEMMA ReturnStep ==
  ASSUME Session, Return
  PROVE  Session'
<1>1. /\ pc = "read" /\ pc' = "idle" /\ cur > 0 /\ times = 2
      /\ result' = "times" /\ UNCHANGED <<graph, sent, times, cur, deaths>>
  BY DEF Session, Return, Answer
<1>2. Scott \in Process
  BY <1>1, Current DEF Session
<1>3. Scott.pc \in {"shutdown", "exited"}
  BY <1>1, <1>2 DEF Session, Answer, Process, ProcPcs
<1>4. procs' = [procs EXCEPT ![cur] = [Scott EXCEPT !.out = Scott.out,
                                                    !.answer = "closed"]]
  <2>1. [Scott EXCEPT !.answer = "closed"]
          = [Scott EXCEPT !.out = Scott.out, !.answer = "closed"]
    BY <1>2 DEF Process
  <2>2. procs' = [procs EXCEPT ![cur] = [Scott EXCEPT !.answer = "closed"]]
    BY DEF Return, Scott
  <2> QED
    BY <2>1, <2>2
<1>5. SessionTypes' /\ OtherCalls' /\ Transmission' /\ Scott'.pc = Scott.pc
  <2>1. Scott.pc \in Over /\ Scott.out \in 0 .. 2 /\ times' \in 0 .. 2
    BY <1>1, <1>2, <1>3 DEF Over, Process
  <2> QED
    BY <1>1, <1>4, <2>1, OutputStep
<1> QED
  BY <1>1, <1>3, <1>5 DEF Session, Answer, Outcome

LEMMA JvmDiesStep ==
  ASSUME Session, JvmDies
  PROVE  Session'
<1>1. /\ pc' = "gone" /\ UNCHANGED <<graph, sent, times, result, cur, deaths>>
      /\ procs' = [c \in 1 .. Calls |-> [procs[c] EXCEPT !.answer = "closed"]]
  BY DEF JvmDies
<1>2. procs \in [1 .. Calls -> Process]
  BY DEF Session, SessionTypes
<1>3. \A c \in 1 .. Calls :
        /\ procs'[c] \in Process /\ procs'[c].pc = procs[c].pc
        /\ procs'[c].in = procs[c].in /\ procs'[c].nodes = procs[c].nodes
        /\ procs'[c].edges = procs[c].edges /\ procs'[c].out = procs[c].out
  BY <1>1, <1>2 DEF Process
<1>4. procs' \in [1 .. Calls -> Process]
  BY <1>1, <1>3
<1>5. SessionTypes'
  BY <1>1, <1>3, <1>4 DEF Session, SessionTypes
<1>6. OtherCalls'
  BY <1>1, <1>3 DEF Session, OtherCalls
<1>7. Transmission'
  <2> SUFFICES ASSUME cur > 0 PROVE Transmission'
    BY <1>1 DEF Transmission
  <2>1. /\ Scott'.pc = Scott.pc /\ Scott'.in = Scott.in
        /\ Scott'.nodes = Scott.nodes /\ Scott'.edges = Scott.edges
    BY <1>1, <1>3, Current DEF Session, Scott
  <2>2. Taken' = Taken
    BY <1>1, <2>1 DEF Taken
  <2> QED
    BY <1>1, <2>1, <2>2 DEF Session, Transmission
<1> QED
  BY <1>1, <1>5, <1>6, <1>7 DEF Session, Answer, Outcome

-----------------------------------------------------------------------------
(***************************************************************************)
(* Steps of Python.                                                        *)
(***************************************************************************)
Working == {"nodes", "edges", "canonize", "print"}

\* A process at work is the one of the current call, and Java waits for it.
LEMMA AtWork ==
  ASSUME Session, NEW c \in 1 .. Calls, procs[c].pc \in Working
  PROVE  /\ c = cur /\ cur > 0 /\ pc # "idle" /\ Scott = procs[c]
         /\ Scott \in Process
         /\ pc # "gone" => times = 0 /\ Scott.out = 0
<1>1. cur \in Nat
  BY Current DEF Session
<1>2. c = cur
  BY <1>1 DEF Session, OtherCalls, Working, Over
<1>3. cur > 0 /\ Scott = procs[c] /\ Scott \in Process
  BY <1>1, <1>2, Current DEF Session, Scott
<1>4. pc # "idle"
  BY <1>3 DEF Session, OtherCalls, Working, Over
<1>5. pc # "gone" => times = 0 /\ Scott.out = 0
  BY <1>3, <1>4 DEF Session, SessionTypes, Answer, Working
<1> QED
  BY <1>2, <1>3, <1>4, <1>5

\* What a step of the process at work leaves as it was.
LEMMA WorkStep ==
  ASSUME Session, NEW c \in 1 .. Calls, procs[c].pc \in Working,
         NEW P \in Process, procs' = [procs EXCEPT ![c] = P],
         Len(P.in) <= Len(Scott.in),
         UNCHANGED javaVars, deaths' \in 0 .. MaxDeaths
  PROVE  SessionTypes' /\ OtherCalls' /\ Outcome' /\ Scott' = P
<1>1. /\ c = cur /\ cur > 0 /\ pc # "idle" /\ Scott = procs[c]
      /\ UNCHANGED <<pc, graph, sent, times, result, cur>>
  BY AtWork DEF javaVars
<1>2. procs \in [1 .. Calls -> Process]
  BY DEF Session, SessionTypes
<1>3. /\ procs' \in [1 .. Calls -> Process] /\ Scott' = P
      /\ \A d \in 1 .. Calls : d # cur => procs'[d] = procs[d]
  BY <1>1, <1>2 DEF Scott
<1>4. SessionTypes'
  <2>1. Len(P.in) <= Capacity
    <3>1. P.in \in Seq(Line) /\ Scott.in \in Seq(Line)
      BY <1>1, AtWork DEF Process
    <3>2. Len(P.in) \in Nat /\ Len(Scott.in) \in Nat
      BY <3>1
    <3>3. Len(Scott.in) <= Capacity
      BY <1>1 DEF Session, SessionTypes
    <3> QED
      BY <3>2, <3>3, ScottAssumption
  <2>2. \A d \in 1 .. Calls : Len(procs'[d].in) <= Capacity
    BY <1>1, <1>2, <1>3, <2>1 DEF Session, SessionTypes, Scott
  <2> QED
    BY <1>1, <1>3, <2>2 DEF Session, SessionTypes
<1>5. OtherCalls'
  BY <1>1, <1>3 DEF Session, OtherCalls, SessionTypes
<1> QED
  BY <1>1, <1>3, <1>4, <1>5 DEF Outcome

\* Taking the first line out of the pipe.
LEMMA TakeLine ==
  ASSUME Session, cur > 0, Scott.pc \in {"nodes", "edges"}, Scott.in # << >>
  PROVE  /\ Taken \in Nat /\ sent \in Nat
         /\ Tail(Scott.in) \in Seq(Line)
         /\ Len(Tail(Scott.in)) = sent - (Taken + 1)
         /\ Len(Tail(Scott.in)) <= Len(Scott.in)
         /\ \A i \in 1 .. Len(Tail(Scott.in)) :
              Tail(Scott.in)[i] = Lines(graph)[Taken + 1 + i]
         /\ Scott.in[1] = Lines(graph)[Taken + 1]
         /\ Taken + 1 <= graph.n + Len(graph.edges) + 2
<1>1. /\ Scott \in Process /\ graph.n \in Nat /\ Len(graph.edges) \in Nat
      /\ Len(Lines(graph)) = graph.n + Len(graph.edges) + 2
  BY Current DEF Session
<1>2. Taken \in Nat /\ sent \in 0 .. graph.n + Len(graph.edges) + 2
  BY <1>1 DEF Session, SessionTypes, Taken, Process
<1>3. Scott.in \in Seq(Line)
  BY <1>1 DEF Process
<1>4. /\ Tail(Scott.in) \in Seq(Line) /\ Len(Scott.in) \in Nat \ {0}
      /\ Len(Tail(Scott.in)) = Len(Scott.in) - 1
      /\ \A i \in 1 .. Len(Tail(Scott.in)) : Tail(Scott.in)[i] = Scott.in[i + 1]
  BY <1>3
<1>5. /\ Len(Scott.in) = sent - Taken
      /\ \A i \in 1 .. Len(Scott.in) : Scott.in[i] = Lines(graph)[Taken + i]
  BY DEF Session, Transmission
<1>6. Scott.in[1] = Lines(graph)[Taken + 1]
  BY <1>4, <1>5
<1>7. ASSUME NEW i \in 1 .. Len(Tail(Scott.in))
      PROVE  Tail(Scott.in)[i] = Lines(graph)[Taken + 1 + i]
  <2>1. i + 1 \in 1 .. Len(Scott.in) /\ Taken + 1 + i = Taken + (i + 1)
    BY <1>2, <1>4
  <2> QED
    BY <2>1, <1>4, <1>5
<1> QED
  BY <1>1, <1>2, <1>4, <1>5, <1>6, <1>7

\* What line is next: by how much of the graph has been read.
LEMMA NextLine ==
  ASSUME NEW g, ValidGraph(g), NEW k \in Nat, k + 1 <= g.n + Len(g.edges) + 2
  PROVE  /\ k < g.n => Lines(g)[k + 1] = NodeLine(k)
         /\ k = g.n => Lines(g)[k + 1] = EndLine
         /\ k > g.n /\ k <= g.n + Len(g.edges) =>
              Lines(g)[k + 1] = EdgeLine(g.edges[k - g.n])
         /\ k = g.n + Len(g.edges) + 1 => Lines(g)[k + 1] = EndLine
<1>1. g.n \in Nat /\ Len(g.edges) \in Nat
  BY DEF ValidGraph
<1>2. /\ \A i \in 1 .. g.n : Lines(g)[i] = NodeLine(i - 1)
      /\ Lines(g)[g.n + 1] = EndLine
      /\ \A i \in 1 .. Len(g.edges) : Lines(g)[g.n + 1 + i] = EdgeLine(g.edges[i])
      /\ Lines(g)[g.n + Len(g.edges) + 2] = EndLine
  BY LinesAt
<1>3. ASSUME k < g.n PROVE Lines(g)[k + 1] = NodeLine(k)
  BY <1>1, <1>2, <1>3
<1>4. ASSUME k > g.n, k <= g.n + Len(g.edges)
      PROVE  Lines(g)[k + 1] = EdgeLine(g.edges[k - g.n])
  <2>1. k - g.n \in 1 .. Len(g.edges) /\ g.n + 1 + (k - g.n) = k + 1
    BY <1>1, <1>4
  <2> QED
    BY <2>1, <1>2
<1>5. k = g.n + Len(g.edges) + 1 => Lines(g)[k + 1] = EndLine
  BY <1>1, <1>2
<1> QED
  BY <1>2, <1>3, <1>4, <1>5

LEMMA ReadNodeStep ==
  ASSUME Session, NEW c \in 1 .. Calls, ReadNode(c)
  PROVE  Session'
<1>1. /\ c = cur /\ cur > 0 /\ Scott = procs[c] /\ Scott \in Process
      /\ Scott.pc = "nodes" /\ Scott.in # << >> /\ Scott.in[1].kind = "node"
      /\ UNCHANGED <<pc, graph, sent, times, result, cur, deaths>>
  BY AtWork DEF ReadNode, Working, Head1, javaVars
<1>2. ValidGraph(graph) /\ graph.n \in Nat /\ Len(graph.edges) \in Nat
  BY Current DEF Session
<1>3. Taken = Len(Scott.nodes)
  BY <1>1 DEF Taken
<1>4. /\ Len(Scott.nodes) <= graph.n /\ Scott.edges = << >>
      /\ Scott.nodes = [i \in 1 .. Len(Scott.nodes) |-> i - 1]
  BY <1>1 DEF Session, Transmission
<1>5. Len(Scott.nodes) < graph.n /\ Scott.in[1] = NodeLine(Len(Scott.nodes))
  <2>1. Taken \in Nat /\ Scott.in[1] = Lines(graph)[Taken + 1]
    BY <1>1, TakeLine
  <2>2. Taken # graph.n
    BY <1>1, <1>2, <2>1, Kinds, LinesAt
  <2>3. Taken < graph.n
    BY <1>2, <1>3, <1>4, <2>1, <2>2
  <2> QED
    BY <1>2, <1>3, <2>1, <2>3, NextLine
<1> DEFINE k == Len(Scott.nodes)
           P == [Scott EXCEPT !.nodes = Append(Scott.nodes, k), !.in = Tail(Scott.in)]
<1>6. procs' = [procs EXCEPT ![c] = P]
  <2>1. procs' = [procs EXCEPT ![c] =
                    [[Scott EXCEPT !.nodes = Append(Scott.nodes, Scott.in[1].id)]
                       EXCEPT !.in = Tail(@)]]
    BY <1>1 DEF ReadNode, Consume, Head1
  <2>2. [[Scott EXCEPT !.nodes = Append(Scott.nodes, Scott.in[1].id)]
                       EXCEPT !.in = Tail(@)] = P
    <3>1. Scott.in[1].id = k
      BY <1>5, Kinds
    <3> QED
      BY <3>1, <1>1 DEF Process
  <2> QED
    BY <2>1, <2>2
<1>7. k \in Nat /\ Scott.nodes \in Seq(Nat)
  BY <1>1 DEF Process
<1>8. /\ Append(Scott.nodes, k) \in Seq(Nat) /\ Len(Append(Scott.nodes, k)) = k + 1
      /\ Append(Scott.nodes, k) = [i \in 1 .. k + 1 |-> i - 1]
  BY <1>4, <1>7
<1>9. /\ P \in Process /\ P.pc = "nodes" /\ P.in = Tail(Scott.in)
      /\ P.nodes = Append(Scott.nodes, k) /\ P.edges = << >>
      /\ P.out = Scott.out /\ P.answer = Scott.answer
  BY <1>1, <1>4, <1>8, TakeLine DEF Process
<1> HIDE DEF P
<1>10. SessionTypes' /\ OtherCalls' /\ Outcome' /\ Scott' = P
  <2>1. /\ procs[c].pc \in Working /\ Len(P.in) <= Len(Scott.in)
        /\ UNCHANGED javaVars /\ deaths' \in 0 .. MaxDeaths
    BY <1>1, <1>9, TakeLine DEF Working, javaVars, Session, SessionTypes
  <2> QED
    BY <2>1, <1>6, <1>9, WorkStep
<1>11. Transmission'
  <2>1. Taken' = Taken + 1 /\ Len(Scott'.nodes) = k + 1
    BY <1>3, <1>8, <1>9, <1>10 DEF Taken
  <2>2. k + 1 <= graph.n
    BY <1>2, <1>5, <1>7
  <2>3. /\ Len(P.in) = sent - Taken'
        /\ \A i \in 1 .. Len(P.in) : P.in[i] = Lines(graph)[Taken' + i]
    BY <2>1, <1>1, <1>9, TakeLine
  <2> QED
    BY <2>1, <2>2, <2>3, <1>1, <1>8, <1>9, <1>10 DEF Transmission
<1> QED
  BY <1>1, <1>9, <1>10, <1>11 DEF Session, Answer

LEMMA ReadNodesEndStep ==
  ASSUME Session, NEW c \in 1 .. Calls, ReadNodesEnd(c)
  PROVE  Session'
<1>1. /\ c = cur /\ cur > 0 /\ Scott = procs[c] /\ Scott \in Process
      /\ Scott.pc = "nodes" /\ Scott.in # << >> /\ Scott.in[1].kind = "end"
      /\ UNCHANGED <<pc, graph, sent, times, result, cur, deaths>>
  BY AtWork DEF ReadNodesEnd, Working, Head1, javaVars
<1>2. ValidGraph(graph) /\ graph.n \in Nat /\ Len(graph.edges) \in Nat
  BY Current DEF Session
<1>3. Taken = Len(Scott.nodes)
  BY <1>1 DEF Taken
<1>4. /\ Len(Scott.nodes) <= graph.n /\ Scott.edges = << >>
      /\ Scott.nodes = [i \in 1 .. Len(Scott.nodes) |-> i - 1]
  BY <1>1 DEF Session, Transmission
<1>5. Taken = graph.n
  <2>1. /\ Taken \in Nat /\ Scott.in[1] = Lines(graph)[Taken + 1]
        /\ Taken + 1 <= graph.n + Len(graph.edges) + 2
    BY <1>1, TakeLine
  <2>2. ~ (Taken < graph.n)
    BY <1>1, <1>2, <2>1, Kinds, NextLine
  <2> QED
    BY <1>2, <1>3, <1>4, <2>1, <2>2
<1> DEFINE P == [Scott EXCEPT !.pc = "edges", !.in = Tail(Scott.in)]
<1>6. procs' = [procs EXCEPT ![c] = P]
  <2>1. procs' = [procs EXCEPT ![c] = [[Scott EXCEPT !.pc = "edges"]
                                         EXCEPT !.in = Tail(@)]]
    BY <1>1 DEF ReadNodesEnd, Consume
  <2>2. [[Scott EXCEPT !.pc = "edges"] EXCEPT !.in = Tail(@)] = P
    BY <1>1 DEF Process
  <2> QED
    BY <2>1, <2>2
<1>7. /\ P \in Process /\ P.pc = "edges" /\ P.in = Tail(Scott.in)
      /\ P.nodes = Scott.nodes /\ P.edges = << >>
      /\ P.out = Scott.out /\ P.answer = Scott.answer
  BY <1>1, <1>4, TakeLine DEF Process, ProcPcs
<1> HIDE DEF P
<1>8. SessionTypes' /\ OtherCalls' /\ Outcome' /\ Scott' = P
  <2>1. /\ procs[c].pc \in Working /\ Len(P.in) <= Len(Scott.in)
        /\ UNCHANGED javaVars /\ deaths' \in 0 .. MaxDeaths
    BY <1>1, <1>7, TakeLine DEF Working, javaVars, Session, SessionTypes
  <2> QED
    BY <2>1, <1>6, <1>7, WorkStep
<1>9. Transmission'
  <2>1. Len(Scott'.edges) = 0
    BY <1>7, <1>8
  <2>2. Taken' = graph.n + 1 + Len(Scott'.edges)
    BY <1>1, <1>7, <1>8 DEF Taken
  <2>3. Taken' = Taken + 1
    BY <2>1, <2>2, <1>2, <1>5
  <2>4. /\ Len(P.in) = sent - Taken'
        /\ \A i \in 1 .. Len(P.in) : P.in[i] = Lines(graph)[Taken' + i]
    BY <2>3, <1>1, <1>7, TakeLine
  <2>5. P.nodes = [i \in 1 .. graph.n |-> i - 1]
    BY <1>3, <1>4, <1>5, <1>7
  <2> QED
    <3>1. Len(Scott'.edges) <= Len(graph'.edges)
      BY <2>1, <1>1, <1>2
    <3>2. \A i \in 1 .. Len(Scott'.edges) : Scott'.edges[i] = graph'.edges[i]
      BY <2>1
    <3> QED
      BY <3>1, <3>2, <2>4, <2>5, <1>1, <1>7, <1>8 DEF Transmission
<1> QED
  BY <1>1, <1>7, <1>8, <1>9 DEF Session, Answer

\* The position of an edge that is read: the ends are among the nodes.
LEMMA ReadEdgeStep ==
  ASSUME Session, NEW c \in 1 .. Calls, ReadEdge(c)
  PROVE  Session'
<1>1. /\ c = cur /\ cur > 0 /\ Scott = procs[c] /\ Scott \in Process
      /\ Scott.pc = "edges" /\ Scott.in # << >> /\ Scott.in[1].kind = "edge"
      /\ UNCHANGED <<pc, graph, sent, times, result, cur, deaths>>
  BY AtWork DEF ReadEdge, Working, Head1, javaVars
<1>2. ValidGraph(graph) /\ graph.n \in Nat /\ Len(graph.edges) \in Nat
  BY Current DEF Session
<1> DEFINE m == Len(Scott.edges)
           e == graph.edges[m + 1]
<1>3. Taken = graph.n + 1 + m
  BY <1>1 DEF Taken
<1>4. /\ m <= Len(graph.edges) /\ Scott.nodes = [i \in 1 .. graph.n |-> i - 1]
      /\ \A k \in 1 .. m : Scott.edges[k] = graph.edges[k]
  BY <1>1 DEF Session, Transmission
<1>5. m \in Nat /\ Scott.edges \in Seq(Nat \X Nat)
  BY <1>1 DEF Process
<1>6. m < Len(graph.edges) /\ Scott.in[1] = EdgeLine(e)
  <2>1. /\ Taken \in Nat /\ Scott.in[1] = Lines(graph)[Taken + 1]
        /\ Taken + 1 <= graph.n + Len(graph.edges) + 2
    BY <1>1, TakeLine
  <2>2. Taken # graph.n + Len(graph.edges) + 1
    BY <1>1, <1>2, <2>1, Kinds, NextLine
  <2>3. m < Len(graph.edges)
    BY <1>2, <1>3, <1>4, <1>5, <2>2
  <2>4. Lines(graph)[Taken + 1] = EdgeLine(graph.edges[Taken - graph.n])
    <3>1. Taken > graph.n /\ Taken <= graph.n + Len(graph.edges)
      BY <1>2, <1>3, <1>5, <2>3
    <3> QED
      BY <3>1, <1>2, <2>1, NextLine
  <2>5. Taken - graph.n = m + 1
    BY <1>2, <1>3, <1>5
  <2> QED
    BY <2>1, <2>3, <2>4, <2>5
<1>7. /\ e \in (0 .. graph.n - 1) \X (0 .. graph.n - 1)
      /\ e = <<e[1], e[2]>> /\ e \in Nat \X Nat
  <2>1. e \in (0 .. graph.n - 1) \X (0 .. graph.n - 1)
    <3>1. m + 1 \in 1 .. Len(graph.edges)
      BY <1>2, <1>5, <1>6
    <3>2. graph.edges \in Seq((0 .. graph.n - 1) \X (0 .. graph.n - 1))
      BY <1>2 DEF ValidGraph
    <3> QED
      BY <3>1, <3>2
  <2> HIDE DEF e
  <2> QED
    BY <2>1, <1>2
<1> HIDE DEF e
<1>8. Max({e[1], e[2]}) < Len(Scott.nodes)
  <2>1. Len(Scott.nodes) = graph.n
    BY <1>2, <1>4
  <2> QED
    BY <2>1, <1>2, <1>7, MaxOfEnds
<1>9. <<Scott.nodes[e[1] + 1], Scott.nodes[e[2] + 1]>> = e
  <2>1. e[1] + 1 \in 1 .. graph.n /\ e[2] + 1 \in 1 .. graph.n
    BY <1>2, <1>7
  <2>2. Scott.nodes[e[1] + 1] = e[1] /\ Scott.nodes[e[2] + 1] = e[2]
    BY <2>1, <1>2, <1>4, <1>7
  <2> QED
    BY <2>2, <1>7
<1> DEFINE P == [Scott EXCEPT !.edges = Append(Scott.edges, e), !.in = Tail(Scott.in)]
<1>10. procs' = [procs EXCEPT ![c] = P]
  <2>1. Head1(c).ends = e /\ procs[c].nodes = Scott.nodes
    BY <1>1, <1>6, Kinds DEF Head1
  <2>2. procs' = [procs EXCEPT ![c] = [[Scott EXCEPT !.edges = Append(Scott.edges, e)]
                                         EXCEPT !.in = Tail(@)]]
    <3>1. Consume(c, [procs[c] EXCEPT !.edges = Append(@, <<Scott.nodes[e[1] + 1],
                                                         Scott.nodes[e[2] + 1]>>)])
      BY <1>8, <2>1 DEF ReadEdge
    <3> QED
      BY <3>1, <1>1, <1>9 DEF Consume
  <2>3. [[Scott EXCEPT !.edges = Append(Scott.edges, e)] EXCEPT !.in = Tail(@)] = P
    BY <1>1 DEF Process
  <2> QED
    BY <2>2, <2>3
<1>11. /\ Append(Scott.edges, e) \in Seq(Nat \X Nat)
       /\ Len(Append(Scott.edges, e)) = m + 1
       /\ \A k \in 1 .. m : Append(Scott.edges, e)[k] = Scott.edges[k]
       /\ Append(Scott.edges, e)[m + 1] = e
  BY <1>5, <1>7
<1>12. /\ P \in Process /\ P.pc = "edges" /\ P.in = Tail(Scott.in)
       /\ P.nodes = Scott.nodes /\ P.edges = Append(Scott.edges, e)
       /\ P.out = Scott.out /\ P.answer = Scott.answer
  BY <1>1, <1>11, TakeLine DEF Process
<1> HIDE DEF P
<1>13. SessionTypes' /\ OtherCalls' /\ Outcome' /\ Scott' = P
  <2>1. /\ procs[c].pc \in Working /\ Len(P.in) <= Len(Scott.in)
        /\ UNCHANGED javaVars /\ deaths' \in 0 .. MaxDeaths
    BY <1>1, <1>12, TakeLine DEF Working, javaVars, Session, SessionTypes
  <2> QED
    BY <2>1, <1>10, <1>12, WorkStep
<1>14. Transmission'
  <2>1. Len(P.edges) = m + 1 /\ m + 1 <= Len(graph.edges)
    BY <1>2, <1>5, <1>6, <1>11, <1>12
  <2>2. Taken' = Taken + 1
    <3>1. Taken' = graph.n + 1 + Len(P.edges)
      BY <1>1, <1>12, <1>13 DEF Taken
    <3> QED
      BY <3>1, <2>1, <1>2, <1>3, <1>5
  <2>3. /\ Len(P.in) = sent - Taken'
        /\ \A i \in 1 .. Len(P.in) : P.in[i] = Lines(graph)[Taken' + i]
    BY <2>2, <1>1, <1>12, TakeLine
  <2>4. \A k \in 1 .. m + 1 : P.edges[k] = graph.edges[k]
    BY <1>4, <1>5, <1>11, <1>12 DEF e
  <2> QED
    BY <2>1, <2>3, <2>4, <1>1, <1>4, <1>12, <1>13 DEF Transmission
<1> QED
  BY <1>1, <1>12, <1>13, <1>14 DEF Session, Answer

LEMMA ReadEdgesEndStep ==
  ASSUME Session, NEW c \in 1 .. Calls, ReadEdgesEnd(c)
  PROVE  Session'
<1>1. /\ c = cur /\ cur > 0 /\ Scott = procs[c] /\ Scott \in Process
      /\ Scott.pc = "edges" /\ Scott.in # << >> /\ Scott.in[1].kind = "end"
      /\ UNCHANGED <<pc, graph, sent, times, result, cur, deaths>>
  BY AtWork DEF ReadEdgesEnd, Working, Head1, javaVars
<1>2. ValidGraph(graph) /\ graph.n \in Nat /\ Len(graph.edges) \in Nat
  BY Current DEF Session
<1> DEFINE m == Len(Scott.edges)
<1>3. Taken = graph.n + 1 + m
  BY <1>1 DEF Taken
<1>4. /\ m <= Len(graph.edges) /\ Scott.nodes = [i \in 1 .. graph.n |-> i - 1]
      /\ \A k \in 1 .. m : Scott.edges[k] = graph.edges[k]
  BY <1>1 DEF Session, Transmission
<1>5. m \in Nat
  BY <1>1 DEF Process
<1>6. m = Len(graph.edges)
  <2>1. /\ Taken \in Nat /\ Scott.in[1] = Lines(graph)[Taken + 1]
        /\ Taken + 1 <= graph.n + Len(graph.edges) + 2
    BY <1>1, TakeLine
  <2>2. ~ (Taken > graph.n /\ Taken <= graph.n + Len(graph.edges))
    BY <1>1, <1>2, <2>1, Kinds, NextLine
  <2> QED
    BY <1>2, <1>3, <1>4, <1>5, <2>2
<1> DEFINE P == [Scott EXCEPT !.pc = "canonize", !.in = Tail(Scott.in)]
<1>7. procs' = [procs EXCEPT ![c] = P]
  <2>1. procs' = [procs EXCEPT ![c] = [[Scott EXCEPT !.pc = "canonize"]
                                         EXCEPT !.in = Tail(@)]]
    BY <1>1 DEF ReadEdgesEnd, Consume
  <2>2. [[Scott EXCEPT !.pc = "canonize"] EXCEPT !.in = Tail(@)] = P
    BY <1>1 DEF Process
  <2> QED
    BY <2>1, <2>2
<1>8. /\ P \in Process /\ P.pc = "canonize" /\ P.in = Tail(Scott.in)
      /\ P.nodes = Scott.nodes /\ P.edges = Scott.edges
      /\ P.out = Scott.out /\ P.answer = Scott.answer
  BY <1>1, TakeLine DEF Process, ProcPcs
<1> HIDE DEF P
<1>9. SessionTypes' /\ OtherCalls' /\ Outcome' /\ Scott' = P
  <2>1. /\ procs[c].pc \in Working /\ Len(P.in) <= Len(Scott.in)
        /\ UNCHANGED javaVars /\ deaths' \in 0 .. MaxDeaths
    BY <1>1, <1>8, TakeLine DEF Working, javaVars, Session, SessionTypes
  <2> QED
    BY <2>1, <1>7, <1>8, WorkStep
<1>10. Transmission'
  <2>1. Taken' = graph.n + Len(graph.edges) + 2
    BY <1>1, <1>8, <1>9 DEF Taken
  <2>2. Taken' = Taken + 1
    BY <2>1, <1>2, <1>3, <1>6
  <2>3. /\ Len(P.in) = sent - Taken'
        /\ \A i \in 1 .. Len(P.in) : P.in[i] = Lines(graph)[Taken' + i]
    BY <2>2, <1>1, <1>8, TakeLine
  <2> QED
    BY <2>3, <1>1, <1>4, <1>6, <1>8, <1>9 DEF Transmission
<1> QED
  BY <1>1, <1>8, <1>9, <1>10 DEF Session, Answer

\* The process ends: its input is at its end, or it dies.
LEMMA EndStep ==
  ASSUME Session, NEW c \in 1 .. Calls, ReadEof(c) \/ Die(c)
  PROVE  Session'
<1>1. /\ procs[c].pc \in Working /\ UNCHANGED javaVars
      /\ procs' = [procs EXCEPT ![c].pc = "exited"]
      /\ deaths' \in 0 .. MaxDeaths
      /\ pc = "gone" \/ deaths' > 0
  BY ScottAssumption DEF ReadEof, Die, Working, Session, SessionTypes
<1>2. c = cur /\ cur > 0 /\ pc # "idle" /\ Scott = procs[c] /\ Scott \in Process
  BY <1>1, AtWork
<1> DEFINE P == [Scott EXCEPT !.pc = "exited"]
<1>3. /\ P \in Process /\ P.pc = "exited" /\ P.in = Scott.in /\ P.answer = Scott.answer
  BY <1>2 DEF Process, ProcPcs
<1>4. procs' = [procs EXCEPT ![c] = P]
  BY <1>1, <1>2
<1>5. Len(P.in) <= Len(Scott.in)
  <2>1. Scott.in \in Seq(Line)
    BY <1>2 DEF Process
  <2> QED
    BY <2>1, <1>3
<1> HIDE DEF P
<1>6. SessionTypes' /\ OtherCalls' /\ Outcome' /\ Scott' = P
  BY <1>1, <1>3, <1>4, <1>5, WorkStep
<1>7. Transmission'
  BY <1>3, <1>6 DEF Transmission
<1>8. Answer'
  BY <1>1, <1>2, <1>3, <1>6 DEF Session, Answer, javaVars
<1> QED
  BY <1>6, <1>7, <1>8 DEF Session

LEMMA CanonizeStep ==
  ASSUME Session, NEW c \in 1 .. Calls, Canonize(c)
  PROVE  Session'
<1>1. /\ c = cur /\ cur > 0 /\ Scott = procs[c] /\ Scott \in Process
      /\ Scott.pc = "canonize" /\ pc # "idle"
      /\ UNCHANGED <<pc, graph, sent, times, result, cur, deaths>>
  BY AtWork DEF Canonize, Working, javaVars
<1> DEFINE P == [Scott EXCEPT !.pc = "print"]
<1>2. procs' = [procs EXCEPT ![c] = P]
  BY <1>1 DEF Canonize
<1>3. /\ P \in Process /\ P.pc = "print" /\ P.in = Scott.in
      /\ P.nodes = Scott.nodes /\ P.edges = Scott.edges
      /\ P.out = Scott.out /\ P.answer = Scott.answer
  BY <1>1 DEF Process, ProcPcs
<1> HIDE DEF P
<1>4. SessionTypes' /\ OtherCalls' /\ Outcome' /\ Scott' = P
  <2>1. /\ procs[c].pc \in Working /\ Len(P.in) <= Len(Scott.in)
        /\ UNCHANGED javaVars /\ deaths' \in 0 .. MaxDeaths
    <3>1. Scott.in \in Seq(Line)
      BY <1>1 DEF Process
    <3>2. Len(P.in) <= Len(Scott.in)
      BY <3>1, <1>3
    <3> QED
      BY <3>2, <1>1 DEF Working, javaVars, Session, SessionTypes
  <2> QED
    BY <2>1, <1>2, <1>3, WorkStep
<1>5. Transmission'
  <2>1. Taken' = Taken
    BY <1>1, <1>3, <1>4 DEF Taken
  <2> QED
    BY <2>1, <1>1, <1>3, <1>4 DEF Session, Transmission
<1> QED
  BY <1>1, <1>3, <1>4, <1>5 DEF Session, Answer

LEMMA PrintTimesStep ==
  ASSUME Session, NEW c \in 1 .. Calls, PrintTimes(c)
  PROVE  Session'
<1>1. /\ c = cur /\ cur > 0 /\ Scott = procs[c] /\ Scott \in Process
      /\ Scott.pc = "print" /\ pc # "idle" /\ (pc # "gone" => times = 0)
      /\ UNCHANGED <<pc, graph, sent, times, result, cur, deaths>>
  BY AtWork DEF PrintTimes, Working, javaVars
<1> DEFINE said == IF Scott.answer = "open" THEN 2 ELSE 0
           P == [Scott EXCEPT !.pc = "shutdown", !.out = said]
<1>2. procs' = [procs EXCEPT ![c] = P]
  BY <1>1 DEF PrintTimes
<1>3. /\ P \in Process /\ P.pc = "shutdown" /\ P.in = Scott.in
      /\ P.nodes = Scott.nodes /\ P.edges = Scott.edges
      /\ P.out = said /\ P.answer = Scott.answer
  <2>1. said \in 0 .. 2
    OBVIOUS
  <2> HIDE DEF said
  <2> QED
    BY <2>1, <1>1 DEF Process, ProcPcs
<1> HIDE DEF P
<1>4. SessionTypes' /\ OtherCalls' /\ Outcome' /\ Scott' = P
  <2>1. /\ procs[c].pc \in Working /\ Len(P.in) <= Len(Scott.in)
        /\ UNCHANGED javaVars /\ deaths' \in 0 .. MaxDeaths
    <3>1. Scott.in \in Seq(Line)
      BY <1>1 DEF Process
    <3>2. Len(P.in) <= Len(Scott.in)
      BY <3>1, <1>3
    <3> QED
      BY <3>2, <1>1 DEF Working, javaVars, Session, SessionTypes
  <2> QED
    BY <2>1, <1>2, <1>3, WorkStep
<1>5. Transmission'
  <2>1. Taken' = Taken
    BY <1>1, <1>3, <1>4 DEF Taken
  <2> QED
    BY <2>1, <1>1, <1>3, <1>4 DEF Session, Transmission
<1>6. Answer'
  <2> SUFFICES ASSUME pc \in {"write", "read"}
               PROVE  /\ Scott'.answer = "open" /\ Scott'.pc = "shutdown"
                      /\ times' + Scott'.out = 2
    BY <1>1 DEF Answer
  <2>1. Scott.answer = "open"
    BY DEF Session, Answer
  <2>2. said = 2
    BY <2>1
  <2> HIDE DEF said
  <2> QED
    BY <2>1, <2>2, <1>1, <1>3, <1>4
<1> QED
  BY <1>4, <1>5, <1>6 DEF Session

\* Any process that has done its work may exit, also one of an earlier call.
LEMMA ExitStep ==
  ASSUME Session, NEW c \in 1 .. Calls, Exit(c)
  PROVE  Session'
<1>1. /\ procs[c].pc = "shutdown"
      /\ procs' = [procs EXCEPT ![c] = [procs[c] EXCEPT !.pc = "exited"]]
      /\ UNCHANGED <<pc, graph, sent, times, result, cur, deaths>>
  BY DEF Exit, javaVars
<1>2. procs \in [1 .. Calls -> Process] /\ procs[c] \in Process
  BY DEF Session, SessionTypes
<1> DEFINE P == [procs[c] EXCEPT !.pc = "exited"]
<1>3. /\ P \in Process /\ P.pc = "exited" /\ P.in = procs[c].in
      /\ P.out = procs[c].out /\ P.answer = procs[c].answer
  BY <1>2 DEF Process, ProcPcs
<1> HIDE DEF P
<1>4. /\ procs' \in [1 .. Calls -> Process] /\ procs'[c] = P
      /\ \A d \in 1 .. Calls : d # c => procs'[d] = procs[d]
  BY <1>1, <1>2, <1>3 DEF P
<1>5. SessionTypes'
  BY <1>1, <1>3, <1>4 DEF Session, SessionTypes
<1>6. cur \in Nat /\ (cur > 0 => cur \in 1 .. Calls)
  BY Current DEF Session
<1>7. OtherCalls'
  BY <1>1, <1>3, <1>4, <1>6 DEF Session, OtherCalls, Over, Scott
<1>8. CASE c = cur
  <2>1. Scott' = P /\ Scott = procs[c]
    BY <1>1, <1>4, <1>8 DEF Scott
  <2> QED
    BY <2>1, <1>1, <1>3, <1>5, <1>7, <1>8
       DEF Session, Transmission, Answer, Outcome
<1>9. CASE c # cur
  <2>1. cur > 0 => Scott' = Scott
    BY <1>1, <1>4, <1>6, <1>9 DEF Scott
  <2>2. cur > 0 => Taken' = Taken
    BY <1>1, <2>1 DEF Taken
  <2>3. Transmission'
    BY <2>1, <2>2, <1>1 DEF Session, Transmission
  <2> QED
    BY <2>1, <2>3, <1>1, <1>5, <1>7 DEF Session, Answer, Outcome
<1> QED
  BY <1>8, <1>9

LEMMA SessionStep ==
  ASSUME Session, [Next]_vars
  PROVE  Session'
<1>1. CASE UNCHANGED vars
  BY <1>1 DEF vars, javaVars, Session, SessionTypes, OtherCalls, Transmission,
              Answer, Outcome, Scott, Taken
<1>2. CASE JavaNext
  BY <1>2, WriteLineStep, WriteNowhereStep, WriteDoneStep, ReadTimeStep,
     ReadEndStep, ReturnStep DEF JavaNext
<1>3. ASSUME NEW c \in 1 .. Calls, PythonNext(c) \/ Die(c)
      PROVE  Session'
  BY <1>3, ReadNodeStep, ReadNodesEndStep, ReadEdgeStep, ReadEdgesEndStep,
     EndStep, CanonizeStep, PrintTimesStep, ExitStep DEF PythonNext, ReadGraph
<1> QED
  BY <1>1, <1>2, <1>3, StartSessionStep, StartFailsStep, JvmDiesStep
     DEF Next, Finished

\* The two processes and the pipes between them, at every step of both.
THEOREM SessionInvariant == Spec => []Session
<1>1. Session /\ [Next]_vars => Session'
  BY SessionStep
<1> QED
  BY InitSession, <1>1, PTL DEF Spec

-----------------------------------------------------------------------------
\* What Scott canonizes is the whole graph of the call: a transmission that
\* was cut short, or of which a line is still in the pipe, is never taken for
\* a graph.
THEOREM WholeGraphTheorem == Spec => []WholeGraph
<1>1. Session => WholeGraph
  <2> SUFFICES ASSUME Session, cur > 0, Scott.pc \in {"canonize", "print", "shutdown"}
               PROVE  /\ Scott.nodes = [i \in 1 .. graph.n |-> i - 1]
                      /\ Scott.edges = graph.edges
                      /\ Scott.in = << >>
    BY DEF WholeGraph
  <2>1. /\ ValidGraph(graph) /\ Scott \in Process
        /\ graph.n \in Nat /\ Len(graph.edges) \in Nat
        /\ Len(Lines(graph)) = graph.n + Len(graph.edges) + 2
    BY Current DEF Session
  <2>2. Taken = Len(Lines(graph))
    BY <2>1 DEF Taken
  <2>3. Len(Scott.in) = sent - Taken
    BY DEF Session, Transmission
  <2>4. Scott.in \in Seq(Line) /\ sent \in 0 .. Len(Lines(graph))
    BY <2>1 DEF Session, SessionTypes, Process
  <2>5. Scott.in = << >>
    <3>1. Len(Scott.in) \in Nat /\ Len(Scott.in) <= 0
      BY <2>1, <2>2, <2>3, <2>4
    <3>2. Len(Scott.in) = 0 /\ Scott.in \in Seq(Line)
      BY <3>1, <2>4
    <3> QED
      BY <3>2, EmptySeq
  <2>6. /\ Scott.nodes = [i \in 1 .. graph.n |-> i - 1]
        /\ Len(Scott.edges) = Len(graph.edges)
        /\ \A k \in 1 .. Len(Scott.edges) : Scott.edges[k] = graph.edges[k]
    BY DEF Session, Transmission
  <2>7. Scott.edges = graph.edges
    <3>1. /\ Scott.edges \in Seq(Nat \X Nat)
          /\ graph.edges \in Seq((0 .. graph.n - 1) \X (0 .. graph.n - 1))
      BY <2>1 DEF Process, ValidGraph
    <3>2. graph.edges \in Seq(Nat \X Nat)
      BY <2>1, <3>1
    <3> QED
      BY <3>1, <3>2, <2>6, SeqEqual
  <2> QED
    BY <2>5, <2>6, <2>7
<1> QED
  BY <1>1, SessionInvariant, PTL

\* Times are returned only for a process that has canonized; an exception is
\* thrown only if a process has died.
THEOREM TimesAreRealTheorem == Spec => []TimesAreReal
<1>1. Session => TypeOK
  <2> SUFFICES ASSUME Session, NEW c \in 1 .. Calls
               PROVE  procs[c].pc \in ProcPcs /\ procs[c].out \in 0 .. 2
    BY DEF Session, SessionTypes, TypeOK
  <2>1. procs[c] \in Process
    BY DEF Session, SessionTypes
  <2> QED
    BY <2>1 DEF Process
<1>2. Session => TimesAreReal
  BY <1>1 DEF Session, Outcome, TimesAreReal
<1> QED
  BY <1>2, SessionInvariant, PTL

\* No process of an earlier call canonizes while a later call runs, nor one of
\* the last call after it has returned.
THEOREM CanonizesAloneTheorem == Spec => []CanonizesAlone
<1>1. Session => CanonizesAlone
  <2> SUFFICES ASSUME Session, pc # "gone", NEW c \in 1 .. cur, c < cur \/ pc = "idle"
               PROVE  procs[c].pc \in Over
    BY DEF CanonizesAlone, Over
  <2>1. cur \in 0 .. Calls /\ c \in 1 .. Calls
    BY ScottAssumption DEF Session, SessionTypes
  <2>2. CASE c < cur
    BY <2>1, <2>2 DEF Session, OtherCalls
  <2>3. CASE c = cur
    BY <2>1, <2>3 DEF Session, OtherCalls, Scott
  <2> QED
    BY <2>1, <2>2, <2>3
<1> QED
  BY <1>1, SessionInvariant, PTL
=============================================================================
