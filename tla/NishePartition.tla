--------------------------- MODULE NishePartition ---------------------------
(***************************************************************************)
(* The partition nest of Nishe (PartitionNest.cc): a stack of ordered      *)
(* partitions kept as one array of elements, the cell sizes, the index of  *)
(* the cell of each element, a log of the cuts made at each level and a    *)
(* doubly linked list of the cells with more than one element, threaded    *)
(* through an array.                                                       *)
(*                                                                         *)
(* commit_pending_indices and recover_level are loops; a step of the model *)
(* is one iteration, and `pc' tells which loop is running.  Vectors are    *)
(* functions on 0 .. N - 1, stacks and the queue are sequences.            *)
(***************************************************************************)
EXTENDS Sums, FiniteSets, FiniteSetsExt, SequencesExt

CONSTANTS
    N,         \* number of elements
    MaxLevel   \* bound on the level of the nest

ASSUME ConstantsAssumption == N \in Nat \ {0} /\ MaxLevel \in Nat

VARIABLES
    elements,              \* the elements, cell by cell
    index_containing,      \* the index of the cell of an element
    cell_sizes,            \* the size of the cell at an index
    new_index_queue,       \* indices enqueued and not committed
    new_indices,           \* every cut <<start of the cell, new index>>, oldest first
    new_indices_at_level,  \* how many of them each level made
    nontrivial_list,       \* links between the cells of more than one element
    pc,                    \* "idle", or the loop that is running
    run,                   \* commit_pending_indices: the cell being cut
    undo                   \* recover_level: cuts to undo, ends and starts of cells

vars == <<elements, index_containing, cell_sizes, new_index_queue, new_indices,
          new_indices_at_level, nontrivial_list, pc, run, undo>>

partition == <<elements, index_containing, cell_sizes, new_indices, nontrivial_list>>

Positions == 0 .. N - 1

level == Len(new_indices_at_level) - 1

NoRun == [first |-> 0, size |-> 0, start |-> 0]

NoUndo == [count |-> 0, cell_end |-> [i \in Positions |-> 0], start_indices |-> {}]

Link(p, n) == [prev |-> p, next |-> n]

CellAt(k) == k .. k + cell_sizes[k] - 1

is_index(k) == index_containing[elements[k]] = k

is_nontrivial_index(k) == is_index(k) /\ cell_sizes[k] > 1

terminal_index == N

length == Len(new_indices) + 1

is_discrete == length = N

\* The last position links to the first and last entry of the list.
OrTerminal(k) == IF k < N - 1 THEN k ELSE terminal_index

first_nontrivial_index == OrTerminal(nontrivial_list[N - 1].next)

next_nontrivial_index(k) == OrTerminal(nontrivial_list[k].next)

\* unit resizes vectors and overwrites the entries of index 0: the others keep
\* what an earlier use of the same object left in them.
UnitFrom(sizes, links) ==
    /\ elements' = [i \in Positions |-> i]
    /\ index_containing' = [u \in Positions |-> 0]
    /\ cell_sizes' = [sizes EXCEPT ![0] = N]
    /\ new_index_queue' = <<>>
    /\ new_indices' = <<>>
    /\ new_indices_at_level' = <<0>>
    /\ nontrivial_list' = [links EXCEPT ![N - 1] = Link(0, 0), ![0] = Link(N - 1, N - 1)]

Init ==
    /\ elements = [i \in Positions |-> i]
    /\ index_containing = [u \in Positions |-> 0]
    /\ cell_sizes = [k \in Positions |-> IF k = 0 THEN N ELSE 0]
    /\ new_index_queue = <<>>
    /\ new_indices = <<>>
    /\ new_indices_at_level = <<0>>
    /\ nontrivial_list = [k \in Positions |->
           IF k = 0 THEN Link(N - 1, N - 1) ELSE Link(0, 0)]
    /\ pc = "idle"
    /\ run = NoRun
    /\ undo = NoUndo

unit ==
    /\ pc = "idle"
    /\ UnitFrom(cell_sizes, nontrivial_list)
    /\ UNCHANGED <<pc, run, undo>>

\* Callers write through elements(): the binding while it loads the colouring,
\* the refiner when it sorts a cell.  Both only reorder within cells; a swap of
\* two elements at a time reaches every order.
SwapInCell(i, j) ==
    /\ pc = "idle"
    /\ i < j
    /\ index_containing[elements[i]] = index_containing[elements[j]]
    /\ elements' = [elements EXCEPT ![i] = elements[j], ![j] = elements[i]]
    /\ UNCHANGED <<index_containing, cell_sizes, new_index_queue, new_indices,
                   new_indices_at_level, nontrivial_list, pc, run, undo>>

\* "all enqueue's must be in order within each cell for commit_splits to work"
InOrder(k) ==
    \A q \in Range(new_index_queue) :
        index_containing[elements[q]] = index_containing[elements[k]] => q < k

enqueue_new_index(k) ==
    /\ pc = "idle"
    /\ ~ is_index(k)
    /\ InOrder(k)
    /\ new_index_queue' = Append(new_index_queue, k)
    /\ UNCHANGED <<partition, new_indices_at_level, pc, run, undo>>

commit_pending_indices ==
    /\ pc = "idle"
    /\ new_index_queue # <<>>
    /\ pc' = "commit"
    /\ UNCHANGED <<partition, new_index_queue, new_indices_at_level, run, undo>>

\* Mutant: the entry after the cell keeps its link to the old first element.
InsertHalfLinked(list, start, k, size) ==
    LET prev == list[start].prev
        next == list[start].next
    IN  CASE k > start + 1 /\ k < start + size - 1 ->
                [list EXCEPT ![next].prev = k, ![start].next = k, ![k] = Link(start, next)]
          [] k = start + 1 /\ k < start + size - 1 ->
                [list EXCEPT ![k] = list[start], ![prev].next = k]
          [] k = start + 1 /\ k = start + size - 1 ->
                [list EXCEPT ![prev].next = next, ![next].prev = prev]
          [] OTHER -> list

\* a and b become neighbours in the list.
Join(list, a, b) == [list EXCEPT ![a].next = b, ![b].prev = a]

\* The new cell takes its place in the list after its start, in the place of its
\* start, or neither of the two remains in it.
insert_index(list, start, k, size) ==
    LET prev == list[start].prev
        next == list[start].next
    IN  CASE k > start + 1 /\ k < start + size - 1 ->
                Join(Join(list, start, k), k, next)
          [] k = start + 1 /\ k < start + size - 1 ->
                Join(Join(list, prev, k), k, next)
          [] k = start + 1 /\ k = start + size - 1 -> Join(list, prev, next)
          [] OTHER -> list

commit_index(start, k, k_next) ==
    /\ index_containing' = [u \in Positions |->
           IF \E i \in k .. k_next - 1 : elements[i] = u THEN k ELSE index_containing[u]]
    /\ cell_sizes' = [cell_sizes EXCEPT ![start] = k - start,
                                        ![k] = cell_sizes[start] - (k - start)]
    /\ new_indices' = Append(new_indices, <<start, k>>)
    /\ new_indices_at_level' =
           [new_indices_at_level EXCEPT ![Len(new_indices_at_level)] = @ + 1]
    /\ nontrivial_list' = insert_index(nontrivial_list, start, k, cell_sizes[start])

\* Mutant: the size of the cell is read again after it was cut.
RunReadAgain ==
    LET first == index_containing[elements[Head(new_index_queue)]]
    IN  [first |-> first, size |-> cell_sizes[first],
         start |-> IF run = NoRun THEN first ELSE run.start]

\* The run of cuts that the head of the queue belongs to: the one of the
\* iteration before, or a new one.
CurrentRun ==
    LET first == index_containing[elements[Head(new_index_queue)]]
    IN  IF run = NoRun
        THEN [first |-> first, size |-> cell_sizes[first], start |-> first]
        ELSE run

SameRun(r, k) == index_containing[elements[k]] = r.first

CommitNext ==
    /\ pc = "commit"
    /\ new_index_queue # <<>>
    /\ LET k == Head(new_index_queue)
           rest == Tail(new_index_queue)
       IN  IF rest # <<>> /\ SameRun(CurrentRun, Head(rest))
           THEN /\ commit_index(CurrentRun.start, k, Head(rest))
                /\ run' = [CurrentRun EXCEPT !.start = k]
           ELSE /\ commit_index(CurrentRun.start, k, CurrentRun.first + CurrentRun.size)
                /\ run' = NoRun
    /\ new_index_queue' = Tail(new_index_queue)
    /\ pc' = IF Tail(new_index_queue) = <<>> THEN "idle" ELSE "commit"
    /\ UNCHANGED <<elements, undo>>

\* add_index(k + 1) of breakout: k + 1 is not an index, so it is enqueued.
breakout(u) ==
    LET k == index_containing[u]
        i == CHOOSE i \in CellAt(k) : elements[i] = u
    IN  /\ pc = "idle"
        /\ cell_sizes[k] > 1
        /\ InOrder(k + 1)
        /\ elements' = [elements EXCEPT ![k] = u, ![i] = elements[k]]
        /\ new_index_queue' = Append(new_index_queue, k + 1)
        /\ pc' = "commit"
        /\ UNCHANGED <<index_containing, cell_sizes, new_indices, new_indices_at_level,
                       nontrivial_list, run, undo>>

\* exit(1)
BreakoutExits(u) ==
    /\ pc = "idle"
    /\ cell_sizes[index_containing[u]] <= 1
    /\ pc' = "exit"
    /\ UNCHANGED <<partition, new_index_queue, new_indices_at_level, run, undo>>

\* Declared int, without a return statement; nobody reads the value.
advance_level ==
    /\ pc = "idle"
    /\ level < MaxLevel
    /\ new_indices_at_level' = Append(new_indices_at_level, 0)
    /\ UNCHANGED <<partition, new_index_queue, pc, run, undo>>

\* Mutant: indices enqueued before stay in the queue.
RecoverKeepsQueue(m) ==
    /\ pc = "idle"
    /\ new_indices_at_level' = SubSeq(new_indices_at_level, 1, m + 1)
    /\ undo' = [NoUndo EXCEPT !.count =
           SumOf(SubSeq(new_indices_at_level, m + 2, level + 1))]
    /\ pc' = "recover"
    /\ UNCHANGED <<partition, new_index_queue, run>>

recover_level(m) ==
    /\ pc = "idle"
    /\ new_index_queue' = <<>>
    /\ new_indices_at_level' = SubSeq(new_indices_at_level, 1, m + 1)
    /\ undo' = [NoUndo EXCEPT !.count =
           SumOf(SubSeq(new_indices_at_level, m + 2, level + 1))]
    /\ pc' = "recover"
    /\ UNCHANGED <<partition, run>>

backup_level ==
    /\ level > 0
    /\ recover_level(level - 1)

\* A start that left the list kept its own links: it returns between the two.
erase_index(list, start, k, start_size, size) ==
    CASE start_size = 1 ->
            Join(Join(list, list[start].prev, start), start, list[start].next)
      [] start_size > 1 /\ size > 1 -> Join(list, start, list[k].next)
      [] OTHER -> list

\* One iteration of recover_level: the last cut is undone.
UndoCut ==
    /\ pc = "recover"
    /\ undo.count > 0
    /\ LET start == Last(new_indices)[1]
           k == Last(new_indices)[2]
           size == cell_sizes[k]
           end == undo.cell_end[k]
       IN  /\ nontrivial_list' =
                  erase_index(nontrivial_list, start, k, cell_sizes[start], size)
           /\ cell_sizes' = [cell_sizes EXCEPT ![k] = 0, ![start] = @ + size]
           /\ undo' =
                  [count |-> undo.count - 1,
                   cell_end |-> [undo.cell_end EXCEPT
                       ![k] = 0, ![start] = IF end = 0 THEN k + size - 1 ELSE end],
                   start_indices |->
                       (IF end = 0 THEN undo.start_indices ELSE undo.start_indices \ {k})
                           \cup {start}]
    /\ new_indices' = Front(new_indices)
    /\ UNCHANGED <<elements, index_containing, new_index_queue, new_indices_at_level, pc,
                   run>>

\* The final loop over start_indices.
Relabel ==
    /\ pc = "recover"
    /\ undo.count = 0
    /\ LET Covering(i) == {s \in undo.start_indices : s <= i /\ i <= undo.cell_end[s]}
       IN  index_containing' = [u \in Positions |->
               LET i == CHOOSE i \in Positions : elements[i] = u
               IN  IF Covering(i) = {} THEN index_containing[u] ELSE Max(Covering(i))]
    /\ pc' = "idle"
    /\ undo' = NoUndo
    /\ UNCHANGED <<elements, cell_sizes, new_index_queue, new_indices,
                   new_indices_at_level, nontrivial_list, run>>

Exited == pc = "exit" /\ UNCHANGED vars

Next ==
    \/ unit
    \/ \E i, j \in Positions : SwapInCell(i, j)
    \/ \E k \in Positions : enqueue_new_index(k)
    \/ commit_pending_indices
    \/ CommitNext
    \/ \E u \in Positions : breakout(u) \/ BreakoutExits(u)
    \/ advance_level
    \/ \E m \in 0 .. level : recover_level(m)
    \/ backup_level
    \/ UndoCut
    \/ Relabel
    \/ Exited

Spec == Init /\ [][Next]_vars
-----------------------------------------------------------------------------
(* Properties *)

\* The types of the variables.
TypeOK ==
    /\ elements \in [Positions -> Positions]
    /\ index_containing \in [Positions -> Positions]
    /\ cell_sizes \in [Positions -> 0 .. N]
    /\ new_index_queue \in Seq(Positions)
    /\ new_indices \in Seq(Positions \X Positions)
    /\ new_indices_at_level \in Seq(Nat)
    /\ nontrivial_list \in [Positions -> [prev : Positions, next : Positions]]
    /\ pc \in {"idle", "commit", "recover", "exit"}
    /\ run \in [first : Positions, size : 0 .. N, start : Positions]
    /\ undo \in [count : Nat, cell_end : [Positions -> Positions],
                 start_indices : SUBSET Positions]

CellStarts == {k \in Positions : is_index(k)}

\* Between two calls the five arrays tell the same story: elements is a
\* permutation; an element lies in the cell that index_containing names, whose size
\* reaches to the next index; and the log of cuts has one entry per index, so that
\* length() counts cells and is_discrete() is right.  Every commit and every
\* recovery rewrites these piecemeal.
CellsAgree ==
    /\ TypeOK
    /\ pc = "idle" =>
        /\ Range(elements) = Positions
        /\ \A i \in Positions :
               index_containing[elements[i]] = Max({k \in CellStarts : k <= i})
        /\ \A k \in CellStarts :
               cell_sizes[k] = Min({i \in CellStarts \cup {N} : i > k}) - k
        /\ CellStarts \ {0} = {new_indices[i][2] : i \in DOMAIN new_indices}
        /\ length = Cardinality(CellStarts)

\* Between two calls the threaded list visits the cells with more than one element
\* in ascending order and ends, from the first entry and from each entry on, and
\* its backward links are the inverse of the forward ones; entries of trivial cells
\* and of an earlier use of the object, which stay in the array, are never reached.
NontrivialListed ==
    pc = "idle" =>
        LET cells == {k \in CellStarts : is_nontrivial_index(k)}
            After(i) == {k \in cells : k > i}
            FirstOf(S) == IF S = {} THEN terminal_index ELSE Min(S)
        IN  /\ first_nontrivial_index = FirstOf(cells)
            /\ \A k \in cells :
                   /\ next_nontrivial_index(k) = FirstOf(After(k))
                   /\ nontrivial_list[nontrivial_list[k].next].prev = k

\* The partition of a level, recomputed from the log of cuts.
IndicesOfLevel(j) ==
    {0} \cup {new_indices[i][2] :
                i \in 1 .. SumOf(SubSeq(new_indices_at_level, 1, j + 1))}

PartitionOfLevel(j) ==
    LET starts == IndicesOfLevel(j)
    IN  [u \in Positions |->
            LET i == CHOOSE i \in Positions : elements[i] = u
            IN  Max({k \in starts : k <= i})]

\* Callers see the top through index_containing when no loop is running.
Seen(j) == IF j = level /\ pc = "idle" THEN index_containing ELSE PartitionOfLevel(j)

Nest == INSTANCE PartitionStack
            WITH nest <- [j \in 1 .. level + 1 |-> Seen(j - 1)],
                 pending <- Range(new_index_queue)

\* The arrays implement a stack of ordered partitions: each commit makes exactly
\* the cuts that were enqueued, reordering within cells and advancing never disturb a
\* lower level, and recovering a level brings back the very partition it had.
KeepsNest == Nest!Spec
=============================================================================
