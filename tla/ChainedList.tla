----------------------------- MODULE ChainedList -----------------------------
(***************************************************************************)
(* chained_list.c: singly linked lists in a heap of cells.  A heap is a    *)
(* function from the allocated cells to their val and next; a list is the  *)
(* cell it starts with, or Null.                                           *)
(***************************************************************************)
EXTENDS Naturals, Sequences, SequencesExt

CONSTANTS
    Cell,   \* the addresses malloc can return
    Null

ASSUME ChainedListAssumption == Null \notin Cell

\* malloc: a cell that is not in use.
Fresh(heap) == CHOOSE c \in Cell : c \notin DOMAIN heap
Room(heap)  == DOMAIN heap # Cell

\* chained_list_create, at c.
Create(heap, c, val) ==
    [d \in DOMAIN heap \cup {c} |-> IF d = c THEN [val |-> val, next |-> Null] ELSE heap[d]]

\* The cells from start on, in the order of their next pointers: what every
\* loop over a list goes through.
Walk(cells, start) ==
    LET from[c \in DOMAIN cells \cup {Null}] ==
            IF c = Null THEN <<>> ELSE <<c>> \o from[cells[c].next]
    IN  from[start]

\* The first of the wanted cells from start on, or Null.
First(cells, start, wanted) ==
    LET from[c \in DOMAIN cells \cup {Null}] ==
            IF c = Null \/ c \in wanted THEN c ELSE from[cells[c].next]
    IN  from[start]

\* chained_list_iterate: the values in the order the loop meets them.
Values(heap, list) ==
    LET met == Walk(heap, list) IN [i \in DOMAIN met |-> heap[met[i]].val]

\* chained_list_free: the cells it frees, in order.
Freed(heap, list) == Walk(heap, list)

\* The last cell, where the loop of chained_list_append_end stops.
EndOf(heap, list) == Last(Walk(heap, list))

\* Fault: linked to the first cell.
LinkFirst(heap, list, c) ==
    IF list = Null THEN heap ELSE [heap EXCEPT ![list].next = c]

\* chained_list_append_end, once the new cell c is there: the cell it is
\* linked to, and what it returns.
Link(heap, list, c) ==
    IF list = Null THEN heap ELSE [heap EXCEPT ![EndOf(heap, list)].next = c]

Start(list, c) == IF list = Null THEN c ELSE list

\* chained_list_append_start.
Push(heap, list, c) == [heap EXCEPT ![c].next = list]

\* chained_list_find: the first cell with this value, or Null.
Find(heap, list, val) == First(heap, list, {c \in DOMAIN heap : heap[c].val = val})

\* chained_list_revert: every cell is made to point to the one before it.
Revert(heap, list) ==
    LET loop[i \in 0 .. Len(Freed(heap, list))] ==
            IF i = 0 THEN [heap |-> heap, before |-> Null, curr |-> list]
            ELSE LET s == loop[i - 1] IN
                 [heap   |-> [s.heap EXCEPT ![s.curr].next = s.before],
                  before |-> s.curr,
                  curr   |-> s.heap[s.curr].next]
        end == loop[Len(Freed(heap, list))]
    IN  [heap |-> end.heap, list |-> end.before]

=============================================================================
