----------------------------------- MODULE Tree -----------------------------------
(***************************************************************************)
(* The red-black tree of wepoll.c, which finds the state of a socket by    *)
(* its handle (sock_tree) and an epoll port by its own (handle_tree).  A   *)
(* node is named by its key; Null stands for the null pointer.             *)
(***************************************************************************)
EXTENDS Naturals, FiniteSets

CONSTANT Key            \* a set of positive numbers

VARIABLES tree,         \* the nodes and the root
          stored        \* history: the keys that are in the tree

vars == <<tree, stored>>

Null == 0
Side == {"left", "right"}
Other(cis) == IF cis = "left" THEN "right" ELSE "left"

Empty == [root |-> Null, kid |-> [s \in Side |-> [k \in Key |-> Null]],
          parent |-> [k \in Key |-> Null], red |-> [k \in Key |-> FALSE]]

Init == tree = Empty /\ stored = {}

IsRed(t, n) == n # Null /\ t.red[n]
SideOf(t, n) == IF t.kid["left"][t.parent[n]] = n THEN "left" ELSE "right"

(* The node p, or the root, gets q where it had n. *)
Replace(t, p, n, q) == IF p = Null THEN [t EXCEPT !.root = q]
                       ELSE [t EXCEPT !.kid[IF t.kid["left"][p] = n THEN "left" ELSE "right"][p] = q]
SetParent(t, n, p) == IF n = Null THEN t ELSE [t EXCEPT !.parent[n] = p]

(* Mutant: the inner child keeps its parent. *)
RotateLoose(t, p, cis) ==
    LET trans == Other(cis)
        q == t.kid[trans][p]
        u == Replace(t, t.parent[p], p, q)
    IN  [u EXCEPT !.parent[q] = t.parent[p], !.parent[p] = q,
                  !.kid[trans][p] = t.kid[cis][q], !.kid[cis][q] = p]

(* TREE__ROTATE(cis, trans) *)
Rotate(t, p, cis) ==
    LET trans == Other(cis)
        q == t.kid[trans][p]
        inner == t.kid[cis][q]
        u == Replace(t, t.parent[p], p, q)
    IN  SetParent([u EXCEPT !.parent[q] = t.parent[p], !.parent[p] = q,
                            !.kid[trans][p] = inner, !.kid[cis][q] = p], inner, p)

-----------------------------------------------------------------------------
(* tree_add *)

(* The node below which key goes, or the key itself when it is there *)
RECURSIVE Descend(_, _, _)
Descend(t, n, key) ==
    IF n = key THEN n
    ELSE LET below == t.kid[IF key < n THEN "left" ELSE "right"][n]
         IN  IF below = Null THEN n ELSE Descend(t, below, key)

(* TREE__REBALANCE_AFTER_INSERT and its loop *)
RECURSIVE AfterInsert(_, _)
AfterInsert(t, n) ==
    LET p == t.parent[n] IN
    IF ~IsRed(t, p) THEN t
    ELSE LET cis == SideOf(t, p)
             g == t.parent[p]
             uncle == t.kid[Other(cis)][g]
         IN  IF IsRed(t, uncle)
             THEN AfterInsert([t EXCEPT !.red[p] = FALSE, !.red[uncle] = FALSE, !.red[g] = TRUE], g)
             ELSE LET inside == n = t.kid[Other(cis)][p]
                      u == IF inside THEN Rotate(t, p, cis) ELSE t
                      top == IF inside THEN n ELSE p
                  IN  AfterInsert(Rotate([u EXCEPT !.red[top] = FALSE, !.red[g] = TRUE],
                                         g, Other(cis)), u.kid[cis][top])

Blacken(t) == [t EXCEPT !.red[t.root] = FALSE]

Added(t, key) ==
    LET p == IF t.root = Null THEN Null ELSE Descend(t, t.root, key)
        linked == IF p = Null THEN [t EXCEPT !.root = key]
                  ELSE [t EXCEPT !.kid[IF key < p THEN "left" ELSE "right"][p] = key]
    IN  IF p = key THEN t
        ELSE Blacken(AfterInsert([linked EXCEPT !.kid["left"][key] = Null, !.kid["right"][key] = Null,
                                                !.parent[key] = p, !.red[key] = TRUE], key))

Add(key) == tree' = Added(tree, key) /\ stored' = stored \cup {key}

-----------------------------------------------------------------------------
(* tree_del *)

RECURSIVE Leftmost(_, _)
Leftmost(t, n) == IF t.kid["left"][n] = Null THEN n ELSE Leftmost(t, t.kid["left"][n])

(* TREE__REBALANCE_AFTER_REMOVE and its loop; n may be null, p is its parent. *)
RECURSIVE AfterRemove(_, _, _)
AfterRemove(t, n, p) ==
    IF n = t.root \/ IsRed(t, n) THEN (IF n = Null THEN t ELSE [t EXCEPT !.red[n] = FALSE])
    ELSE LET cis == IF n = t.kid["left"][p] THEN "left" ELSE "right"
             trans == Other(cis)
             first == t.kid[trans][p]
             u == IF IsRed(t, first)
                  THEN Rotate([t EXCEPT !.red[first] = FALSE, !.red[p] = TRUE], p, cis) ELSE t
             sibling == u.kid[trans][p]
             inner == u.kid[cis][sibling]
         IN  IF ~IsRed(u, inner) /\ ~IsRed(u, u.kid[trans][sibling])
             THEN AfterRemove([u EXCEPT !.red[sibling] = TRUE], p, u.parent[p])
             ELSE LET v == IF IsRed(u, u.kid[trans][sibling]) THEN u
                           ELSE Rotate([u EXCEPT !.red[inner] = FALSE, !.red[sibling] = TRUE],
                                       sibling, trans)
                      s == v.kid[trans][p]
                      w == Rotate([v EXCEPT !.red[s] = v.red[p], !.red[p] = FALSE,
                                            !.red[v.kid[trans][s]] = FALSE], p, cis)
                  IN  Blacken(w)

(* The node that takes the place of n *)
Heir(t, n) == LET l == t.kid["left"][n]
                  r == t.kid["right"][n]
              IN  IF l = Null THEN r ELSE IF r = Null THEN l ELSE Leftmost(t, r)

(* What is left of a node outside the tree is overwritten when it is added again. *)
Forgotten(t, n) == [t EXCEPT !.kid["left"][n] = Null, !.kid["right"][n] = Null,
                             !.parent[n] = Null, !.red[n] = FALSE]

Deleted(t, n) ==
    LET l == t.kid["left"][n]
        r == t.kid["right"][n]
        p == t.parent[n]
        next == Heir(t, n)
        u == Replace(t, p, n, next)
        two == l # Null /\ r # Null
        hole == IF two THEN t.kid["right"][next] ELSE next
        above == IF ~two THEN p ELSE IF next = r THEN next ELSE t.parent[next]
        v == IF ~two THEN u
             ELSE [u EXCEPT !.red[next] = t.red[n], !.kid["left"][next] = l,
                            !.parent[l] = next, !.parent[next] = p]
        w == IF ~two \/ next = r THEN v
             ELSE [v EXCEPT !.kid["left"][above] = hole, !.kid["right"][next] = r,
                            !.parent[r] = next]
        red == IF two THEN t.red[next] ELSE t.red[n]
        x == Forgotten(SetParent(w, hole, above), n)
    IN  IF red THEN x ELSE AfterRemove(x, hole, above)

Del(key) == key \in stored /\ tree' = Deleted(tree, key) /\ stored' = stored \ {key}

Next == \E key \in Key : Add(key) \/ Del(key)

Spec == Init /\ [][Next]_vars

-----------------------------------------------------------------------------
(* Reference definitions over the nodes of the tree *)
RECURSIVE InOrder(_, _)
InOrder(t, n) == IF n = Null THEN {} ELSE {n} \cup InOrder(t, t.kid["left"][n]) \cup InOrder(t, t.kid["right"][n])

RECURSIVE BlackHeights(_, _)
BlackHeights(t, n) ==
    IF n = Null THEN {0}
    ELSE LET own == IF t.red[n] THEN 0 ELSE 1
         IN  {h + own : h \in BlackHeights(t, t.kid["left"][n]) \cup BlackHeights(t, t.kid["right"][n])}

(***************************************************************************)
(* After every sequence of tree_add and tree_del the tree holds what was   *)
(* added and not deleted since, and tree_find finds it: the keys are in    *)
(* order, each link up is the inverse of a link down, and the tree is      *)
(* balanced: no red node has a red child, and each way down has the same   *)
(* number of black nodes.                                                  *)
(***************************************************************************)
Linked(n) ==
    \A s \in Side : LET c == tree.kid[s][n] IN
        c # Null => /\ tree.parent[c] = n
                    /\ ~(tree.red[n] /\ tree.red[c])
                    /\ \A k \in InOrder(tree, c) : IF s = "left" THEN k < n ELSE k > n

TreeInv ==
    /\ tree.root \in Key \cup {Null} /\ tree.red \in [Key -> BOOLEAN]
    /\ InOrder(tree, tree.root) = stored
    /\ tree.root # Null => tree.parent[tree.root] = Null /\ ~tree.red[tree.root]
    /\ \A n \in stored : Linked(n)
    /\ Cardinality(BlackHeights(tree, tree.root)) = 1
=============================================================================
