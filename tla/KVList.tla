------------------------------- MODULE KVList -------------------------------
(***************************************************************************)
(* The doubly linked list of linked_list.c, which holds the transactions   *)
(* that have begun and not ended.  An element added behind others gets no  *)
(* prev, and deletions follow prev.  What the pointers of an element hold  *)
(* is all there is of it; an address is never used twice.                  *)
(*                                                                         *)
(* A step that follows a pointer to no element is undefined behaviour: the *)
(* module says of it that it is reached, and nothing of what comes after.  *)
(***************************************************************************)
EXTENDS Integers, SequencesExt

CONSTANTS
  Node,     \* the elements that may ever be added
  Null,     \* NULL
  Wild      \* an address of no element, which an unset pointer may hold

ASSUME ListConstants == IsFiniteSet(Node) /\ Null \notin Node /\ Wild \notin Node

VARIABLES
  head, tail, size,
  cell,     \* what the elements hold that are allocated
  fault,    \* the undefined behaviour reached
  order,    \* history: the elements added and not deleted, oldest first
  behind    \* history: an element behind the first was to be deleted

listVars == <<head, tail, size, cell, fault, order, behind>>

Pointer == Node \cup {Null, Wild}

\* kv_ll_create
ListInit ==
  /\ head = Null /\ tail = Null /\ size = 0
  /\ cell = [n \in {} |-> [next |-> Null, prev |-> Null]]
  /\ fault = "none" /\ order = <<>> /\ behind = FALSE

Allocated(p) == p \in DOMAIN cell

Reaches(what) ==
  /\ fault' = what
  /\ UNCHANGED <<head, tail, size, cell, order>>

(***************************************************************************)
(* kv_ll_add.                                                              *)
(***************************************************************************)
\* The element n, and the next of the last one.
With(n, p, last) ==
  [m \in DOMAIN cell \cup {n} |->
     IF m = n THEN [next |-> Null, prev |-> p]
     ELSE [next |-> IF m = last THEN n ELSE cell[m].next, prev |-> cell[m].prev]]

AddFirst(n) ==
  /\ head = Null
  /\ head' = n /\ tail' = n
  /\ cell' = With(n, Null, Null)
  /\ UNCHANGED fault

AddBehindStays(n) ==   \* mutant: tail stays where it is
  /\ head # Null /\ Allocated(tail)
  /\ \E p \in {Null, Wild} \cup DOMAIN cell : cell' = With(n, p, tail)
  /\ UNCHANGED <<head, tail, fault>>

\* prev is what the memory held, which may be the address of an element.
AddBehind(n) ==
  /\ head # Null /\ Allocated(tail)
  /\ tail' = n
  /\ \E p \in {Null, Wild} \cup DOMAIN cell : cell' = With(n, p, tail)
  /\ UNCHANGED <<head, fault>>

Add(n) ==
  \/ /\ ~Allocated(n)
     /\ AddFirst(n) \/ AddBehind(n)
     /\ size' = size + 1 /\ order' = Append(order, n)
     /\ UNCHANGED behind
  \/ head # Null /\ ~Allocated(tail) /\ Reaches("list") /\ UNCHANGED behind

(***************************************************************************)
(* kv_ll_foreach, and the search of kv_ll_del.                             *)
(***************************************************************************)
Walk[i \in 0 .. Cardinality(Node)] ==
  IF i = 0 THEN head
  ELSE IF Allocated(Walk[i - 1]) THEN cell[Walk[i - 1]].next ELSE Walk[i - 1]

\* Where the walk is at an element, which it leaves once at most.
Visits == {i \in 0 .. Cardinality(Node) - 1 : Allocated(Walk[i])}

Listing == [i \in 1 .. Cardinality(Visits) |-> Walk[i - 1]]

\* The walk ends at an element that was freed.
Dangles == Walk[Cardinality(Node)] # Null

(***************************************************************************)
(* kv_ll_del.                                                              *)
(***************************************************************************)
NextOf(n) == IF n = tail THEN Null ELSE cell[n].next
PrevOf(n) == IF n = head THEN Null ELSE cell[n].prev

\* The pointers its deletion follows: between two others, without a look at
\* whether they are NULL.
Followed(n) ==
  IF n \in {head, tail} THEN {NextOf(n), PrevOf(n)} \ {Null} ELSE {NextOf(n), PrevOf(n)}

\* Its neighbours by these pointers are linked to each other, and it is freed.
Without(n) ==
  [m \in DOMAIN cell \ {n} |->
     [next |-> IF m = PrevOf(n) THEN NextOf(n) ELSE cell[m].next,
      prev |-> IF m = NextOf(n) THEN PrevOf(n) ELSE cell[m].prev]]

Found(n) == Contains(Listing, n)

Delete(n) ==
  /\ behind' = (behind \/ n # head)
  /\ \/ /\ Found(n) /\ Followed(n) \subseteq DOMAIN cell
        /\ head' = (IF n = head THEN NextOf(n) ELSE head)
        /\ tail' = (IF n = tail THEN PrevOf(n) ELSE tail)
        /\ cell' = Without(n)
        /\ size' = size - 1 /\ order' = RemoveFirst(order, n)
        /\ UNCHANGED fault
     \/ Found(n) /\ ~(Followed(n) \subseteq DOMAIN cell) /\ Reaches("list")
     \/ ~Found(n) /\ Dangles /\ Reaches("list")
     \/ ~Found(n) /\ ~Dangles /\ UNCHANGED <<head, tail, size, cell, fault, order>>

(***************************************************************************)
(* kv_ll_del_tail, whose result is NULL when the list is empty.  With two  *)
(* elements or more it leaves tail at the element it frees.                *)
(***************************************************************************)
IsEmpty == head = Null

DeleteTailOnly ==   \* mutant: head and tail are not reset
  /\ ~IsEmpty
  /\ \/ /\ Allocated(tail)
        /\ cell' = Without(tail)
        /\ size' = size - 1 /\ order' = RemoveFirst(order, tail)
        /\ UNCHANGED <<head, tail, fault, behind>>
     \/ ~Allocated(tail) /\ Reaches("destroy") /\ UNCHANGED behind

DeleteTail ==
  \/ /\ ~IsEmpty /\ head = tail
     /\ head' = Null /\ tail' = Null
     /\ cell' = Without(tail)
     /\ size' = size - 1 /\ order' = RemoveFirst(order, tail)
     /\ UNCHANGED <<fault, behind>>
  \/ /\ head # tail /\ Allocated(tail) /\ Allocated(cell[tail].prev)
     /\ cell' = Without(tail)
     /\ size' = size - 1 /\ order' = RemoveFirst(order, tail)
     /\ behind' = TRUE
     /\ UNCHANGED <<head, tail, fault>>
  \/ /\ ~IsEmpty /\ head # tail
     /\ Allocated(tail) => ~Allocated(cell[tail].prev)
     /\ Reaches("destroy") /\ UNCHANGED behind

(***************************************************************************)
(* Properties.                                                             *)
(***************************************************************************)

\* As long as only the first element has ever been deleted, no step goes
\* astray: the list is walked in the order in which the elements were added,
\* tail is the last of them, and size counts them.
FollowsOrder ==
  ~behind =>
    /\ fault # "list"
    /\ Listing = order /\ ~Dangles /\ size = Len(order)
    /\ order # <<>> => tail = Last(order)

\* README.md, CHECK__: the transactions that have not ended, one pair for each.
\* A walk visits the elements that were added and not deleted, and no others.
ListsAll == Listing = order /\ ~Dangles
=============================================================================
