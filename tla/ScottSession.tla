---------------------------- MODULE ScottSession ----------------------------
(***************************************************************************)
(* The binding for Scott: each canonization starts a Python process, sends *)
(* it the graph line by line through its standard input and reads two      *)
(* lines of times from its standard output.  The two processes run         *)
(* concurrently; the pipe between them is bounded; either may die.  Nobody *)
(* waits for a Python process to end, so those of earlier calls may still  *)
(* be around.                                                              *)
(*                                                                         *)
(* A graph is the number of its nodes and the list of its edges; labels    *)
(* are left out.  Nodes and edges are sent under their positions, from 0.  *)
(***************************************************************************)
EXTENDS Integers, Sequences, SequencesExt, FiniteSetsExt

CONSTANTS
  Graphs,    \* the graphs to canonize: [n |-> nodes, edges |-> pairs of nodes]
  Warmups,   \* how many calls are warm-up calls, whose result nobody looks at
  Calls,     \* bound: how many calls the evaluation makes
  Capacity,  \* lines that fit into the pipe to a Python process
  MaxDeaths  \* bound: Python processes that die before they have answered

ASSUME ScottAssumption ==
  /\ Warmups \in Nat /\ Calls \in Nat \ {0} /\ Capacity \in Nat \ {0} /\ MaxDeaths \in Nat
  /\ \A g \in Graphs : /\ g.n \in Nat
                       /\ g.edges \in Seq((0 .. g.n - 1) \X (0 .. g.n - 1))

VARIABLES
  pc,      \* the Java thread: where in runUndirected (or runDirected) it is
  graph,   \* the graph of this call
  sent,    \* lines written in this call
  times,   \* time lines read in this call
  result,  \* what the last call returned or threw
  cur,     \* number of the call, and of its process
  procs,   \* the Python processes, by call
  deaths   \* Python processes that died early

javaVars == <<pc, graph, sent, times, result, cur>>
vars == <<javaVars, procs, deaths>>

NodeLine(i) == [kind |-> "node", id |-> i]
EdgeLine(e) == [kind |-> "edge", ends |-> e]
EndLine == [kind |-> "end"]

\* Mutant: the edges are not closed by a line of their own.
LinesUnended(g) ==
  [i \in 1 .. g.n |-> NodeLine(i - 1)] \o <<EndLine>>
    \o [k \in DOMAIN g.edges |-> EdgeLine(g.edges[k])]

\* What is written for a graph: its nodes, "end", its edges, "end".
Lines(g) ==
  [i \in 1 .. g.n |-> NodeLine(i - 1)] \o <<EndLine>>
    \o [k \in DOMAIN g.edges |-> EdgeLine(g.edges[k])] \o <<EndLine>>

NoProc == [pc |-> "none", in |-> << >>, nodes |-> << >>, edges |-> << >>,
           out |-> 0, answer |-> "open"]
NoGraph == [n |-> 0, edges |-> << >>]

Init ==
  /\ pc = "idle" /\ graph = NoGraph /\ sent = 0 /\ times = 0
  /\ result = "none" /\ cur = 0
  /\ procs = [c \in 1 .. Calls |-> NoProc]
  /\ deaths = 0

Alive(c) == procs[c].pc \notin {"none", "exited"}
Scott == procs[cur]

-----------------------------------------------------------------------------
(***************************************************************************)
(* Java.                                                                   *)
(***************************************************************************)

\* The evaluation goes on to its next call: not after an exception, and after
\* null only during the warm-up.
MayCall ==
  /\ pc = "idle" /\ cur < Calls
  /\ cur = 0 \/ result = "times" \/ (result = "null" /\ cur <= Warmups)

\* startSession: the process is created with pipes for its input and output.
StartSession ==
  /\ MayCall
  /\ \E g \in Graphs : graph' = g
  /\ cur' = cur + 1 /\ sent' = 0 /\ times' = 0 /\ result' = "none"
  /\ procs' = [procs EXCEPT ![cur'].pc = "nodes"]
  /\ pc' = "write"
  /\ UNCHANGED deaths

\* There is no Python: the IOException is caught and null returned.
StartFails ==
  /\ MayCall
  /\ cur' = cur + 1 /\ result' = "null"
  /\ UNCHANGED <<pc, graph, sent, times, procs, deaths>>

\* println flushes each line into the pipe; it blocks while the pipe is full.
WriteLine ==
  /\ pc = "write" /\ sent < Len(Lines(graph))
  /\ Alive(cur) /\ Len(Scott.in) < Capacity
  /\ procs' = [procs EXCEPT ![cur].in = Append(@, Lines(graph)[sent + 1])]
  /\ sent' = sent + 1
  /\ UNCHANGED <<pc, graph, times, result, cur, deaths>>

\* The reader is gone: PrintWriter swallows the error and Java goes on.
WriteNowhere ==
  /\ pc = "write" /\ sent < Len(Lines(graph))
  /\ ~ Alive(cur)
  /\ sent' = sent + 1
  /\ UNCHANGED <<pc, graph, times, result, cur, procs, deaths>>

WriteDone ==
  /\ pc = "write" /\ sent = Len(Lines(graph))
  /\ pc' = "read"
  /\ UNCHANGED <<graph, sent, times, result, cur, procs, deaths>>

\* Mutant: a time that is not there yet is taken for a time.
ReadTimeAtOnce ==
  /\ pc = "read" /\ times < 2
  /\ procs' = [procs EXCEPT ![cur].out = Max({0, @ - 1})]
  /\ times' = times + 1
  /\ UNCHANGED <<pc, graph, sent, result, cur, deaths>>

\* readLine returns a line: the first or the second of the times.
ReadTime ==
  /\ pc = "read" /\ times < 2 /\ Scott.out > 0
  /\ procs' = [procs EXCEPT ![cur].out = @ - 1]
  /\ times' = times + 1
  /\ UNCHANGED <<pc, graph, sent, result, cur, deaths>>

\* Mutant: no output yet is taken for the end of the output.
ReadEndEarly ==
  /\ pc = "read" /\ times < 2 /\ Scott.out = 0
  /\ result' = "exception"
  /\ procs' = [procs EXCEPT ![cur].answer = "closed"]
  /\ pc' = "idle"
  /\ UNCHANGED <<graph, sent, times, cur, deaths>>

\* readLine returns null at the end of the output: substring throws.
ReadEnd ==
  /\ pc = "read" /\ times < 2 /\ Scott.out = 0 /\ ~ Alive(cur)
  /\ result' = "exception"
  /\ procs' = [procs EXCEPT ![cur].answer = "closed"]
  /\ pc' = "idle"
  /\ UNCHANGED <<graph, sent, times, cur, deaths>>

\* Both times are there; the reader is closed, the process left to itself.
Return ==
  /\ pc = "read" /\ times = 2
  /\ result' = "times"
  /\ procs' = [procs EXCEPT ![cur].answer = "closed"]
  /\ pc' = "idle"
  /\ UNCHANGED <<graph, sent, times, cur, deaths>>

\* The JVM is killed: its ends of all pipes are closed.
JvmDies ==
  /\ pc # "gone"
  /\ pc' = "gone"
  /\ procs' = [c \in 1 .. Calls |-> [procs[c] EXCEPT !.answer = "closed"]]
  /\ UNCHANGED <<graph, sent, times, result, cur, deaths>>

-----------------------------------------------------------------------------
(***************************************************************************)
(* Python, in the process of call c: read_graph, to_cgraph and the prints. *)
(***************************************************************************)
Head1(c) == procs[c].in[1]

Consume(c, p) == procs' = [procs EXCEPT ![c] = [p EXCEPT !.in = Tail(@)]]

ReadNode(c) ==
  /\ procs[c].pc = "nodes" /\ procs[c].in # << >> /\ Head1(c).kind = "node"
  /\ Consume(c, [procs[c] EXCEPT !.nodes = Append(@, Head1(c).id)])
  /\ UNCHANGED <<javaVars, deaths>>

ReadNodesEnd(c) ==
  /\ procs[c].pc = "nodes" /\ procs[c].in # << >> /\ Head1(c).kind = "end"
  /\ Consume(c, [procs[c] EXCEPT !.pc = "edges"])
  /\ UNCHANGED <<javaVars, deaths>>

\* The ends are positions in the list of nodes read; outside, IndexError.
ReadEdge(c) ==
  /\ procs[c].pc = "edges" /\ procs[c].in # << >> /\ Head1(c).kind = "edge"
  /\ LET e == Head1(c).ends
         node(i) == procs[c].nodes[i + 1]
     IN IF Max({e[1], e[2]}) < Len(procs[c].nodes)
        THEN Consume(c, [procs[c] EXCEPT
                           !.edges = Append(@, <<node(e[1]), node(e[2])>>)])
        ELSE Consume(c, [procs[c] EXCEPT !.pc = "exited"])
  /\ UNCHANGED <<javaVars, deaths>>

ReadEdgesEnd(c) ==
  /\ procs[c].pc = "edges" /\ procs[c].in # << >> /\ Head1(c).kind = "end"
  /\ Consume(c, [procs[c] EXCEPT !.pc = "canonize"])
  /\ UNCHANGED <<javaVars, deaths>>

\* Mutants: the end of the input ends the graph; or the lines read are empty.
EofEndsGraph(c) ==
  /\ procs[c].pc \in {"nodes", "edges"} /\ procs[c].in = << >> /\ pc = "gone"
  /\ procs' = [procs EXCEPT ![c].pc = "canonize"]
  /\ UNCHANGED <<javaVars, deaths>>

EofReadsOn(c) ==
  /\ procs[c].pc \in {"nodes", "edges"} /\ procs[c].in = << >> /\ pc = "gone"
  /\ UNCHANGED vars

\* input() at the end of the input raises EOFError.
ReadEof(c) ==
  /\ procs[c].pc \in {"nodes", "edges"} /\ procs[c].in = << >> /\ pc = "gone"
  /\ procs' = [procs EXCEPT ![c].pc = "exited"]
  /\ UNCHANGED <<javaVars, deaths>>

Canonize(c) ==
  /\ procs[c].pc = "canonize"
  /\ procs' = [procs EXCEPT ![c].pc = "print"]
  /\ UNCHANGED <<javaVars, deaths>>

\* Both times leave in one flush; if nobody reads them, BrokenPipeError.
PrintTimes(c) ==
  /\ procs[c].pc = "print"
  /\ procs' = [procs EXCEPT
                 ![c].pc = "shutdown",
                 ![c].out = IF procs[c].answer = "open" THEN 2 ELSE 0]
  /\ UNCHANGED <<javaVars, deaths>>

Exit(c) ==
  /\ procs[c].pc = "shutdown"
  /\ procs' = [procs EXCEPT ![c].pc = "exited"]
  /\ UNCHANGED <<javaVars, deaths>>

\* An import fails, the memory runs out, to_cgraph raises.
Die(c) ==
  /\ procs[c].pc \in {"nodes", "edges", "canonize"} /\ deaths < MaxDeaths
  /\ procs' = [procs EXCEPT ![c].pc = "exited"]
  /\ deaths' = deaths + 1
  /\ UNCHANGED javaVars

-----------------------------------------------------------------------------
JavaNext ==
  \/ WriteLine \/ WriteNowhere \/ WriteDone \/ ReadTime \/ ReadEnd \/ Return

ReadGraph(c) == \/ ReadNode(c) \/ ReadNodesEnd(c) \/ ReadEdge(c)
                \/ ReadEdgesEnd(c) \/ ReadEof(c)

PythonNext(c) == ReadGraph(c) \/ Canonize(c) \/ PrintTimes(c) \/ Exit(c)

\* No call is left to be made, or the JVM is gone, and no process is left.
Finished ==
  /\ pc = "gone" \/ (pc = "idle" /\ ~ MayCall)
  /\ \A c \in 1 .. Calls : ~ Alive(c)
  /\ UNCHANGED vars

Next == \/ StartSession \/ StartFails \/ JavaNext \/ JvmDies
        \/ \E c \in 1 .. Calls : PythonNext(c) \/ Die(c)
        \/ Finished

Spec == Init /\ [][Next]_vars

\* The operating system runs both processes; to_cgraph comes to an end.
FairSpec ==
  /\ Spec
  /\ WF_vars(JavaNext)
  /\ \A c \in 1 .. Calls : WF_vars(PythonNext(c))

-----------------------------------------------------------------------------
ProcPcs == {"none", "nodes", "edges", "canonize", "print", "shutdown", "exited"}

\* The threads are where they can be, no pipe holds more than it can and no
\* process has more than two lines to say.
TypeOK ==
  /\ pc \in {"idle", "write", "read", "gone"}
  /\ graph \in Graphs \union {NoGraph}
  /\ sent \in 0 .. Len(Lines(graph)) /\ times \in 0 .. 2
  /\ result \in {"none", "times", "null", "exception"}
  /\ cur \in 0 .. Calls /\ deaths \in 0 .. MaxDeaths
  /\ \A c \in 1 .. Calls :
       /\ procs[c].pc \in ProcPcs
       /\ Len(procs[c].in) <= Capacity
       /\ procs[c].out \in 0 .. 2

\* Scott canonizes the whole graph of the call, never a part of one whose
\* transmission was cut short: the nodes under their numbers, and the edges
\* between the nodes they join.
WholeGraph ==
  cur > 0 /\ Scott.pc \in {"canonize", "print", "shutdown"} =>
    /\ Scott.nodes = [i \in 1 .. graph.n |-> i - 1]
    /\ Scott.edges = graph.edges
    /\ Scott.in = << >>

\* A call returns times only if this very process got through the
\* canonization; a process that died is always noticed, although no write to
\* it ever fails.
TimesAreReal ==
  /\ TypeOK
  /\ pc = "idle" /\ cur > 0 =>
    /\ result = "times" => Scott.pc \in {"shutdown", "exited"}
    /\ result = "exception" => Scott.pc = "exited" /\ deaths > 0

\* A canonization is measured while no other one runs: the process an earlier
\* call left behind has nothing to do but exit.
CanonizesAlone ==
  pc # "gone" =>
    \A c \in 1 .. cur : c < cur \/ pc = "idle" =>
      procs[c].pc \in {"none", "shutdown", "exited"}

\* Neither side waits for the other for ever: the writer for room in the pipe,
\* Python for a line, the reader for the times.
CallEnds == pc \in {"write", "read"} ~> pc \in {"idle", "gone"}

\* No Python process stays behind, even if the JVM is killed in the middle of
\* a transmission.
NoOrphan == \A c \in 1 .. Calls : Alive(c) ~> ~ Alive(c)
=============================================================================
