------------------------------ MODULE CourseItems ------------------------------
(***************************************************************************)
(* The items of one training course and their order                        *)
(* (lib/training/service.ts, components/training/CourseEditor.tsx).        *)
(* Several authors edit a course at the same time, each in a page that     *)
(* shows the items as it loaded them.  A new item is put behind the        *)
(* greatest position; a reorder writes the positions of the items it names *)
(* one by one.  Ties are broken by the time of creation.                   *)
(***************************************************************************)
EXTENDS Callers, Integers, Sequences

CONSTANTS Item, MaxPosition   \* items; the positions an item may be added at

ASSUME CourseAssumption == IsFiniteSet(Item) /\ "none" \notin Item /\ MaxPosition \in Nat

VARIABLES
  position,   \* position[i], -1 for an item that does not exist
  born,       \* born[i]: the rank of its creation
  itemCall,   \* itemCall[p]: an addition or a reorder under way
  page,       \* the items as a page that may be stale shows them
  before,     \* history: pairs of items an author has put in this order
  mixed       \* history: a reorder overlapped another change of the order

CourseVars == <<position, born, itemCall, page, before, mixed>>

CourseIdle == [i |-> "none", n |-> 0, todo |-> <<>>, seen |-> {}]
Existing == {i \in Item : position[i] >= 0}
Behind(i, j) == position[i] < position[j] \/ (position[i] = position[j] /\ born[i] < born[j])
Busy == {p \in Proc : itemCall[p] # CourseIdle}

CourseInit ==
  /\ position = [i \in Item |-> -1] /\ born = [i \in Item |-> 0]
  /\ itemCall = [p \in Proc |-> CourseIdle]
  /\ page = <<>> /\ before = {} /\ mixed = FALSE

\* The members of S one after the other, as the pairs of R order them.
InOrder(S, R) ==
  [k \in 1..Cardinality(S) |-> CHOOSE i \in S : Cardinality({j \in S : <<j, i>> \in R}) = k - 1]

\* getCourse, in an editor.
LoadCourse ==
  /\ page' = InOrder(Existing, {b \in Existing \X Existing : Behind(b[1], b[2])})
  /\ UNCHANGED <<position, born, itemCall, before, mixed>>

(***************************************************************************)
(* addItem: the greatest position, then the insert.                        *)
(***************************************************************************)
Greatest == IF Existing = {} THEN -1
            ELSE position[CHOOSE i \in Existing : \A j \in Existing : position[j] <= position[i]]

\* An identifier nothing remembers, for there is no second item with it.
Unused == {i \in Item : /\ position[i] = -1 /\ \A k \in DOMAIN page : page[k] # i
                        /\ \A q \in Proc : itemCall[q].i # i /\ i \notin itemCall[q].seen
                                           /\ \A k \in DOMAIN itemCall[q].todo : itemCall[q].todo[k] # i}

\* Slip: behind as many items as there are.
AddAtCount(p, i) ==
  /\ itemCall[p] = CourseIdle /\ i \in Unused
  /\ Greatest < MaxPosition
  /\ itemCall' = [itemCall EXCEPT ![p] = [CourseIdle EXCEPT !.i = i, !.n = Cardinality(Existing), !.seen = Existing]]
  /\ mixed' = (mixed \/ \E q \in Proc : itemCall[q].todo # <<>>)
  /\ UNCHANGED <<position, born, page, before>>

AddItem(p, i) ==
  /\ itemCall[p] = CourseIdle /\ i \in Unused
  /\ Greatest < MaxPosition
  /\ itemCall' = [itemCall EXCEPT ![p] = [CourseIdle EXCEPT !.i = i, !.n = Greatest + 1, !.seen = Existing]]
  /\ mixed' = (mixed \/ \E q \in Proc : itemCall[q].todo # <<>>)
  /\ UNCHANGED <<position, born, page, before>>

\* Ranks are kept small: the oldest item that still exists has rank 1.
InsertItem(p) ==
  LET i == itemCall[p].i
      older == Existing IN
  /\ i # "none"
  /\ position' = [position EXCEPT ![i] = itemCall[p].n]
  /\ born' = [j \in Item |-> IF j = i THEN Cardinality(older) + 1
                             ELSE IF j \in older THEN Cardinality({k \in older : born[k] <= born[j]}) ELSE 0]
  /\ before' = before \cup ((itemCall[p].seen \cap older) \X {i})
  /\ itemCall' = [itemCall EXCEPT ![p] = CourseIdle]
  /\ UNCHANGED <<page, mixed>>

DeleteItem(i) ==
  /\ i \in Existing
  /\ position' = [position EXCEPT ![i] = -1] /\ born' = [born EXCEPT ![i] = 0]
  /\ before' = {b \in before : i \notin {b[1], b[2]}}
  /\ UNCHANGED <<itemCall, page, mixed>>

(***************************************************************************)
(* updateCourse with an order: two neighbours of the page are exchanged,   *)
(* and what of it the course still has is written, one item at a time.     *)
(***************************************************************************)
Exchange(s, k) == [s EXCEPT ![k] = s[k + 1], ![k + 1] = s[k]]

\* The items of the course among those asked for, each once, by their first place.
FirstPlace(s, i) == CHOOSE k \in DOMAIN s : s[k] = i /\ \A l \in DOMAIN s : s[l] = i => k <= l
OrderItems(s) ==
  LET asked == {i \in Existing : \E k \in DOMAIN s : s[k] = i}
  IN InOrder(asked, {b \in asked \X asked : FirstPlace(s, b[1]) < FirstPlace(s, b[2])})

Reorder(p, k) ==
  LET s == OrderItems(Exchange(page, k))
      named == {s[l] : l \in DOMAIN s} IN
  /\ itemCall[p] = CourseIdle /\ s # <<>>
  /\ itemCall' = [itemCall EXCEPT ![p] = [CourseIdle EXCEPT !.todo = s]]
  /\ before' = {b \in before : named \cap {b[1], b[2]} = {}}
               \cup {b \in named \X named : \E l, n \in DOMAIN s : l < n /\ b = <<s[l], s[n]>>}
  /\ mixed' = (mixed \/ Busy # {})
  /\ UNCHANGED <<position, born, page>>

WritePosition(p) ==
  LET c == itemCall[p]
      i == Head(c.todo) IN
  /\ c.todo # <<>>
  /\ position' = IF i \in Existing THEN [position EXCEPT ![i] = c.n] ELSE position
  /\ itemCall' = [itemCall EXCEPT ![p] = IF Len(c.todo) = 1 THEN CourseIdle
                                         ELSE [c EXCEPT !.n = @ + 1, !.todo = Tail(@)]]
  /\ UNCHANGED <<born, page, before, mixed>>

CourseNext ==
  \/ LoadCourse
  \/ \E i \in Item : DeleteItem(i) \/ \E p \in Proc : AddItem(p, i)
  \/ \E p \in Proc : InsertItem(p) \/ WritePosition(p) \/ \E k \in 1..(Len(page) - 1) : Reorder(p, k)

CourseSpec == CourseInit /\ [][CourseNext]_CourseVars

------------------------------------------------------------------------------
(***************************************************************************)
(* Properties.                                                             *)
(***************************************************************************)
CourseTypeOK ==
  /\ position \in [Item -> Int] /\ born \in [Item -> 0..Cardinality(Item)]
  /\ page \in Seq(Item) /\ before \subseteq Item \X Item
  /\ \A p \in Proc : itemCall[p].i \in Item \cup {"none"} /\ itemCall[p].todo \in Seq(Item)

\* A course keeps the order its authors gave it: the items of a reorder stay in
\* its order and a new item comes behind all it was added to, whatever is deleted
\* or added meanwhile and however old the page of the author, unless a reorder
\* overlaps with another or with an addition.
OrderIsKept == mixed \/ Busy # {} \/ \A b \in before : Behind(b[1], b[2])

==============================================================================
