--------------------------- MODULE MCOrchestration ---------------------------
(***************************************************************************)
(* The instance of Canvas and Orchestration that TLC checks: two canvases, *)
(* two clients and every kind of command, and selections of a canvas while *)
(* one client edits it.                                                    *)
(***************************************************************************)
EXTENDS Orchestration, TLC

b == 101
d == 102

\* A container that holds an instance, with a flow edge to it.
StartBoards ==
  {[id |-> b, name |-> "A", edges |-> {1}, from |-> None,
    nodes |-> {[id |-> 2, type |-> "container", kids |-> {1}, look |-> 0],
               [id |-> 1, type |-> "card", kids |-> {}, look |-> 0]}]}

Face(kind)         == [kind |-> kind, board |-> d, name |-> "B"]
Flow(ends)         == [kind |-> "flow-edges", board |-> b, edges |-> ends]
Add(new, type, at) == [kind |-> "node-add", board |-> b, new |-> new, type |-> type, look |-> 1, parent |-> at]
Look(n, look)      == [kind |-> "node-change", board |-> b, nodes |-> {n}, look |-> look]
Delete(S)          == [kind |-> "node-delete", board |-> b, nodes |-> S]
Copy(n, new)       == [kind |-> "node-duplicate", board |-> b, nodes |-> {n}, new |-> new]
Group(S, new)      == [kind |-> "node-group", board |-> b, nodes |-> S, new |-> new, look |-> 0]
Derive             == [kind |-> "scheme-derive", board |-> b, new |-> d, name |-> "B"]

\* Two of them pass through documents that are not valid.
SomeBatches ==
  { <<Look(1, 1)>>,
    <<Add(3, "card", 2), Look(2, 1)>>,
    <<Copy(1, 3), Group({1, 3}, 4)>>,
    <<Flow({}), Delete({1})>>,
    <<Delete({1, 2}), Flow({d}), Face("board-add")>>,
    <<Flow({3}), Add(3, "text", None), [Face("board-change") EXCEPT !.board = b]>>,
    <<Derive>>,
    <<Face("board-delete")>> }

\* One look, or both.
SomeSurfaces == {{0}, {0, 1}}

Symmetries == Permutations(Clients) \cup Permutations(Canvases)

=============================================================================
