------------------------------- MODULE Heapq --------------------------------
(***************************************************************************)
(* The heap behind asyncio.PriorityQueue (Python's heapq), as the order    *)
(* queue uses it: an array whose element at position i has its children at *)
(* 2i and 2i+1.  f gives each element's sort key <<priority, created_at>>  *)
(* at the time of the operation.                                           *)
(***************************************************************************)
EXTENDS Integers, Sequences, FiniteSetsExt

Lt(f, a, b) == f[a][1] < f[b][1] \/ (f[a][1] = f[b][1] /\ f[a][2] < f[b][2])

\* The positions from n up to the root: what any set holds that has n in it and,
\* with a position, its parent.
Ascending(A, n) == n \in A /\ \A a \in A : a > 1 => a \div 2 \in A

Lineage(n) == {i \in 1 .. n : \A A \in SUBSET (1 .. n) : Ascending(A, n) => i \in A}

\* _siftdown: the element at n moves up past every ancestor it is less than,
\* up to the first one it is not less than.
SiftTowardsRoot(h, n, f) ==
    LET x    == h[n]
        line == Lineage(n)
        dest == Min({a \in line : \A b \in line \ {n} : b >= a => Lt(f, x, h[b])})
    IN  [i \in DOMAIN h |-> IF i = dest THEN x
                            ELSE IF i \in line /\ i > dest THEN h[i \div 2]
                            ELSE h[i]]

HeapPush(h, x, f) == SiftTowardsRoot(Append(h, x), Len(h) + 1, f)

\* _siftup takes the smaller child, the right one on a tie.
SmallerChild(h, i, f) ==
    IF i % 2 = 0 THEN i + 1 \in DOMAIN h => Lt(f, h[i], h[i + 1])
                 ELSE ~Lt(f, h[i - 1], h[i])

\* heappop: the last element replaces the root, the smaller children move up
\* along their line to a leaf, and the element settles from that leaf.
HeapPop(h, f) ==
    IF Len(h) = 1 THEN << >>
    ELSE LET g    == [i \in 1 .. Len(h) - 1 |-> IF i = 1 THEN h[Len(h)] ELSE h[i]]
             line == {i \in DOMAIN g :
                        \A a \in Lineage(i) \ {1} : SmallerChild(g, a, f)}
             leaf == Max(line)
             moved == [i \in DOMAIN g |->
                        IF i = leaf THEN g[1]
                        ELSE IF i \in line
                             THEN g[CHOOSE j \in line : j > 1 /\ j \div 2 = i]
                             ELSE g[i]]
         IN  SiftTowardsRoot(moved, leaf, f)
=============================================================================
