---------------------------- MODULE ProcessList ----------------------------
(***************************************************************************)
(* The doubly linked list of list.c as the scheduler uses it: a queue of   *)
(* processes linked through the node embedded in struct process.           *)
(*                                                                         *)
(* A value s of Links holds the head and tail pointer of every list and    *)
(* the next pointer of every node.  A process has ONE node, so it can be   *)
(* linked into one list only; nothing in list.c checks it.  The prev,      *)
(* list and priority fields are left out: list_push_tail and               *)
(* list_pop_head, the two functions the scheduler calls, never read them.  *)
(*                                                                         *)
(* list_push_tail is four statements, and where interrupts are enabled an  *)
(* interrupt handler that uses the same lists can run between any two of   *)
(* them: PushStep gives them one at a time, PushTail is all four in a row. *)
(***************************************************************************)
EXTENDS Naturals

CONSTANTS Node,    \* the processes
          List,    \* the names of the lists
          Nil      \* the null pointer

ASSUME NilAssumption == Nil \notin Node

Ptr == Node \union {Nil}

Links == [head : [List -> Ptr], tail : [List -> Ptr], next : [Node -> Ptr]]

\* LIST_INIT for every list, and zeroed nodes
Empty == [head |-> [l \in List |-> Nil],
          tail |-> [l \in List |-> Nil],
          next |-> [n \in Node |-> Nil]]

PushSteps == 4

\* node->prev = list->tail; node->next = 0;
ClearNext(s, n) == [s EXCEPT !.next[n] = Nil]

\* if (list->tail) list->tail->next = node;
LinkTail(s, l, n) ==
    IF s.tail[l] = Nil THEN s ELSE [s EXCEPT !.next[s.tail[l]] = n]

\* list->tail = node;
SetTail(s, l, n) == [s EXCEPT !.tail[l] = n]

\* if (!list->head) list->head = node;
SetHead(s, l, n) == IF s.head[l] = Nil THEN [s EXCEPT !.head[l] = n] ELSE s

\* The statement of list_push_tail that runs after k of them have.
PushStep(s, l, n, k) ==
    CASE k = 0 -> ClearNext(s, n)
      [] k = 1 -> LinkTail(s, l, n)
      [] k = 2 -> SetTail(s, l, n)
      [] k = 3 -> SetHead(s, l, n)

\* Mutant: list_push_head, the newest node first.
PushHead(s, l, n) ==
    [s EXCEPT !.next[n] = s.head[l],
              !.head[l] = n,
              !.tail[l] = IF @ = Nil THEN n ELSE @]

PushTail(s, l, n) == SetHead(SetTail(LinkTail(ClearNext(s, n), l, n), l, n), l, n)

\* Mutant: the tail pointer is not cleared with the last node.
PopHeadKeepsTail(s, l) ==
    [s EXCEPT !.head[l] = s.next[s.head[l]], !.next[s.head[l]] = Nil]

\* list_pop_head of a list that is not empty; the node popped is s.head[l].
PopHead(s, l) ==
    LET n == s.head[l]
        h == s.next[n]
    IN  [s EXCEPT !.head[l] = h,
                  !.tail[l] = IF h = Nil THEN Nil ELSE s.tail[l],
                  !.next[n] = Nil]
=============================================================================
