--------------------------- MODULE ScenarioProofs ---------------------------
(***************************************************************************)
(* The lineage of a scenario, run and replanned in any way, is closed.     *)
(*                                                                         *)
(* For any scenario whose profile fits (ProfileFits), ScenarioInvariant is *)
(* inductive: state.stages keeps a stage behind those it depends on, its   *)
(* decisions are those of its last execution, and its input holds the ids  *)
(* that its predecessors still hand on.  The decisions in that order form  *)
(* a list in which every parent precedes its children (Rooted), and both   *)
(* walks up the parents of such a list end at a root and agree.            *)
(***************************************************************************)
EXTENDS Scenario, ReplanningProofs

-----------------------------------------------------------------------------
(* Recursion with a number of turns.                                       *)

\* A set of natural numbers that is not empty has a least element.
LEMMA LeastNatural ==
    ASSUME NEW S \in SUBSET Nat, S # {}
    PROVE  \E n \in S : \A m \in S : n <= m
<1> DEFINE Less == OpToRel(<, Nat)
<1>1. IsWellFoundedOn(Less, Nat)
    BY NatLessThanWellFounded
<1>2. PICK n \in S : \A m \in S : <<m, n>> \notin Less
    <2> HIDE DEF Less
    <2> QED
        BY <1>1, WFMin
<1>3. \A m \in S : <<m, n>> \in Nat \X Nat /\ <<m, n>>[1] = m /\ <<m, n>>[2] = n
    OBVIOUS
<1>4. \A m \in S : ~(m < n)
    BY <1>2, <1>3 DEF OpToRel
<1> QED
    BY <1>4

\* The first n turns of the recursion that starts with a and whose n-th turn
\* makes g[<<n, w>>] of w.
Turns(f, a, g, n) == f[0] = a /\ \A i \in 1 .. n : f[i] = g[<<i, f[i - 1]>>]

\* Every step function can be taken n times from a start.
LEMMA TurnsExist ==
    ASSUME NEW W, NEW a \in W, NEW N \in Nat, NEW g \in [(1 .. N) \X W -> W],
           NEW n \in 0 .. N
    PROVE  \E f \in [0 .. n -> W] : Turns(f, a, g, n)
<1> DEFINE Bad == {m \in 0 .. N : ~\E f \in [0 .. m -> W] : Turns(f, a, g, m)}
<1> SUFFICES ASSUME Bad # {}
             PROVE  FALSE
    OBVIOUS
<1>1. Bad \in SUBSET Nat
    OBVIOUS
<1>2. PICK m \in Bad : \A l \in Bad : m <= l
    <2> HIDE DEF Bad
    <2> QED
        BY <1>1, LeastNatural
<1>3. CASE m = 0
    <2>1. [i \in 0 .. 0 |-> a] \in [0 .. 0 -> W] /\ Turns([i \in 0 .. 0 |-> a], a, g, 0)
        BY DEF Turns
    <2> QED
        BY <1>2, <1>3, <2>1
<1>4. CASE m # 0
    <2>1. m \in 1 .. N /\ m - 1 \in 0 .. N /\ m - 1 < m
        BY <1>2, <1>4
    <2>2. PICK f \in [0 .. m - 1 -> W] : Turns(f, a, g, m - 1)
        BY <1>2, <2>1
    <2> DEFINE h == [i \in 0 .. m |-> IF i = m THEN g[<<m, f[m - 1]>>] ELSE f[i]]
    <2>3. f[m - 1] \in W /\ <<m, f[m - 1]>> \in (1 .. N) \X W
        BY <2>1
    <2>4. g[<<m, f[m - 1]>>] \in W
        BY <2>3
    <2>5. h \in [0 .. m -> W]
        <3>1. ASSUME NEW i \in 0 .. m, i # m
              PROVE  f[i] \in W
            <4>1. i \in 0 .. m - 1
                BY <2>1, <3>1
            <4> QED
                BY <4>1
        <3> QED
            BY <2>4, <3>1
    <2>6. Turns(h, a, g, m)
        <3>1. h[0] = a
            BY <2>1, <2>2 DEF Turns
        <3>2. ASSUME NEW i \in 1 .. m
              PROVE  h[i] = g[<<i, h[i - 1]>>]
            <4>1. h[i - 1] = f[i - 1]
                <5>1. i - 1 \in 0 .. m /\ i - 1 # m
                    BY <2>1, <3>2
                <5> QED
                    BY <5>1
            <4>2. CASE i = m
                <5>1. i \in 0 .. m
                    BY <3>2
                <5>2. h[i] = g[<<m, f[m - 1]>>]
                    BY <4>2, <5>1
                <5> QED
                    BY <4>1, <4>2, <5>2
            <4>3. CASE i # m
                <5>1. i \in 1 .. m - 1 /\ i \in 0 .. m
                    BY <4>3, <2>1
                <5>2. h[i] = f[i]
                    BY <5>1, <4>3
                <5>3. f[i] = g[<<i, f[i - 1]>>]
                    BY <5>1, <2>2 DEF Turns
                <5> QED
                    BY <4>1, <5>2, <5>3
            <4> QED
                BY <4>2, <4>3
        <3> HIDE DEF h
        <3> QED
            BY <3>1, <3>2 DEF Turns
    <2> QED
        BY <1>2, <2>5, <2>6
<1> QED
    BY <1>3, <1>4

-----------------------------------------------------------------------------
(* Sequences of sequences.                                                 *)

\* Flattened joins the sequences in turn.
LEMMA FlattenedTurns ==
    ASSUME NEW D, NEW seqs \in Seq(Seq(D))
    PROVE  \E f \in [0 .. Len(seqs) -> Seq(D)] :
               /\ f[0] = <<>>
               /\ \A n \in 1 .. Len(seqs) : f[n] = f[n - 1] \o seqs[n]
               /\ Flattened(seqs) = f[Len(seqs)]
<1> DEFINE N == Len(seqs)
           W == Seq(D)
           g == [x \in (1 .. N) \X W |-> x[2] \o seqs[x[1]]]
           Solution(f) == f = [n \in 0 .. N |-> IF n = 0 THEN <<>> ELSE f[n - 1] \o seqs[n]]
           upTo == CHOOSE f : Solution(f)
<1>1. N \in Nat /\ DOMAIN seqs = 1 .. N /\ \A n \in 1 .. N : seqs[n] \in W
    BY LenProperties, ElementOfSeq
<1>2. <<>> \in W
    OBVIOUS
<1>3. g \in [(1 .. N) \X W -> W]
    <2>1. ASSUME NEW x \in (1 .. N) \X W
          PROVE  x[2] \o seqs[x[1]] \in W
        <3>1. x[1] \in 1 .. N /\ x[2] \in W
            BY <2>1
        <3> HIDE DEF N
        <3>2. seqs[x[1]] \in W
            BY <1>1, <3>1
        <3> QED
            BY <3>1, <3>2, ConcatProperties
    <2> QED
        BY <2>1
<1>4. PICK f \in [0 .. N -> W] : Turns(f, <<>>, g, N)
    <2> HIDE DEF N, W, g, Solution, upTo
    <2>1. N \in Nat /\ N \in 0 .. N
        BY <1>1
    <2> QED
        BY <2>1, <1>2, <1>3, TurnsExist
<1>5. ASSUME NEW n \in 1 .. N, NEW w \in W
      PROVE  g[<<n, w>>] = w \o seqs[n]
    <2>1. <<n, w>> \in (1 .. N) \X W
        BY <1>5
    <2> QED
        BY <2>1
<1>6. Solution(f)
    <2> HIDE DEF g, N, W
    <2>1. ASSUME NEW n \in 0 .. N
          PROVE  f[n] = IF n = 0 THEN <<>> ELSE f[n - 1] \o seqs[n]
        <3>1. CASE n = 0
            BY <1>4, <3>1 DEF Turns
        <3>2. CASE n # 0
            <4>1. n \in 1 .. N /\ n - 1 \in 0 .. N
                BY <3>2, <1>1
            <4>2. f[n - 1] \in W
                BY <1>4, <4>1
            <4>3. f[n] = g[<<n, f[n - 1]>>]
                BY <1>4, <4>1 DEF Turns
            <4> QED
                BY <1>5, <3>2, <4>1, <4>2, <4>3
        <3> QED
            BY <3>1, <3>2
    <2> QED
        BY <1>4, <2>1
<1>7. Solution(upTo)
    BY <1>6
<1>8. Flattened(seqs) = upTo[N]
    BY DEF Flattened
<1>9. DOMAIN upTo = 0 .. N /\ upTo[0] = <<>>
    <2> HIDE DEF upTo, N
    <2> QED
        BY <1>1, <1>7
<1>10. ASSUME NEW n \in 1 .. N
       PROVE  upTo[n] = upTo[n - 1] \o seqs[n]
    <2> HIDE DEF upTo, N
    <2>1. n \in 0 .. N /\ n # 0
        BY <1>1, <1>10
    <2> QED
        BY <2>1, <1>7
<1>11. upTo \in [0 .. N -> W]
    <2> DEFINE Bad == {n \in 0 .. N : upTo[n] \notin W}
    <2>1. CASE Bad = {}
        <3> HIDE DEF upTo, N, W
        <3>1. \A n \in 0 .. N : upTo[n] \in W
            BY <2>1
        <3>2. upTo = [n \in 0 .. N |-> upTo[n]]
            BY <1>7
        <3> QED
            BY <3>1, <3>2
    <2>2. CASE Bad # {}
        <3> HIDE DEF upTo, N, W
        <3>1. Bad \in SUBSET Nat
            BY <1>1
        <3> HIDE DEF Bad
        <3>2. PICK n \in Bad : \A m \in Bad : n <= m
            BY <2>2, <3>1, LeastNatural
        <3> USE DEF Bad
        <3>3. n # 0
            BY <1>2, <1>9, <3>2
        <3>4. n \in 1 .. N /\ n - 1 \in 0 .. N /\ n - 1 < n
            BY <1>1, <3>2, <3>3
        <3>5. upTo[n - 1] \in W /\ seqs[n] \in W
            BY <1>1, <3>2, <3>4
        <3>6. upTo[n] \in W
            BY <1>10, <3>4, <3>5, ConcatProperties DEF W
        <3> QED
            BY <3>2, <3>6
    <2> QED
        BY <2>1, <2>2
<1> HIDE DEF upTo
<1> QED
    BY <1>8, <1>9, <1>10, <1>11

\* list holds the first n sequences one after the other: its k-th element is
\* the col[k]-th of the row[k]-th sequence.
Placed(seqs, n, list, row, col) ==
    /\ \A k \in DOMAIN list : /\ row[k] \in 1 .. n
                              /\ col[k] \in DOMAIN seqs[row[k]]
                              /\ list[k] = seqs[row[k]][col[k]]
    /\ \A k, l \in DOMAIN list : k < l =>
           row[k] < row[l] \/ (row[k] = row[l] /\ col[k] < col[l])
    /\ \A i \in 1 .. n : \A j \in DOMAIN seqs[i] :
           \E k \in DOMAIN list : row[k] = i /\ col[k] = j

\* Each element of the sequence that is joined gets a place behind the others.
LEMMA PlacedNext ==
    ASSUME NEW D, NEW seqs \in Seq(Seq(D)), NEW n \in 1 .. Len(seqs), NEW list \in Seq(D),
           NEW row, NEW col, Placed(seqs, n - 1, list, row, col)
    PROVE  \E r, c : Placed(seqs, n, list \o seqs[n], r, c)
<1> DEFINE m == Len(list)
           new == list \o seqs[n]
           r == [k \in DOMAIN new |-> IF k <= m THEN row[k] ELSE n]
           c == [k \in DOMAIN new |-> IF k <= m THEN col[k] ELSE k - m]
<1>1. /\ n \in Nat /\ m \in Nat /\ DOMAIN list = 1 .. m
      /\ DOMAIN seqs = 1 .. Len(seqs) /\ seqs[n] \in Seq(D)
    BY LenProperties, ElementOfSeq
<1>2. Len(seqs[n]) \in Nat /\ DOMAIN seqs[n] = 1 .. Len(seqs[n])
    BY <1>1, LenProperties
<1>3. /\ new \in Seq(D) /\ Len(new) = m + Len(seqs[n])
      /\ \A k \in 1 .. Len(new) :
             new[k] = IF k <= m THEN list[k] ELSE seqs[n][k - m]
    BY <1>1, ConcatProperties
<1>4. DOMAIN new = 1 .. m + Len(seqs[n])
    BY <1>3, LenProperties
<1> HIDE DEF new, m
<1>5. ASSUME NEW k \in DOMAIN new, k <= m
      PROVE  /\ k \in DOMAIN list /\ r[k] = row[k] /\ c[k] = col[k] /\ new[k] = list[k]
             /\ r[k] \in 1 .. n - 1
    <2>1. k \in 1 .. m /\ k \in 1 .. Len(new)
        BY <1>1, <1>2, <1>3, <1>4, <1>5
    <2> QED
        BY <2>1, <1>1, <1>3, <1>5 DEF Placed
<1>6. ASSUME NEW k \in DOMAIN new, ~(k <= m)
      PROVE  r[k] = n /\ c[k] = k - m /\ c[k] \in DOMAIN seqs[n] /\ new[k] = seqs[n][c[k]]
    <2>1. k \in Nat /\ k - m \in 1 .. Len(seqs[n]) /\ k \in 1 .. Len(new)
        BY <1>1, <1>2, <1>3, <1>4, <1>6
    <2> QED
        BY <2>1, <1>2, <1>3, <1>6
<1>7. ASSUME NEW k \in DOMAIN new
      PROVE  /\ r[k] \in 1 .. n
             /\ c[k] \in DOMAIN seqs[r[k]]
             /\ new[k] = seqs[r[k]][c[k]]
    <2>1. CASE k <= m
        BY <2>1, <1>1, <1>5 DEF Placed
    <2>2. CASE ~(k <= m)
        BY <2>2, <1>1, <1>6
    <2> QED
        BY <2>1, <2>2
<1>8. ASSUME NEW k \in DOMAIN new, NEW l \in DOMAIN new, k < l
      PROVE  r[k] < r[l] \/ (r[k] = r[l] /\ c[k] < c[l])
    <2>0. k \in Nat /\ l \in Nat
        BY <1>4
    <2>1. CASE l <= m
        <3>1. k <= m
            BY <2>0, <2>1, <1>1, <1>8
        <3> QED
            BY <2>1, <3>1, <1>5, <1>8 DEF Placed
    <2>2. CASE ~(l <= m) /\ k <= m
        BY <2>2, <1>1, <1>5, <1>6
    <2>3. CASE ~(l <= m) /\ ~(k <= m)
        BY <2>0, <2>3, <1>1, <1>6, <1>8
    <2> QED
        BY <2>1, <2>2, <2>3
<1>9. ASSUME NEW i \in 1 .. n, NEW j \in DOMAIN seqs[i]
      PROVE  \E k \in DOMAIN new : r[k] = i /\ c[k] = j
    <2>1. CASE i = n
        <3>1. j \in 1 .. Len(seqs[n])
            BY <1>2, <2>1
        <3>2. m + j \in DOMAIN new /\ ~(m + j <= m) /\ (m + j) - m = j
            BY <1>1, <1>2, <1>4, <3>1
        <3> QED
            BY <2>1, <3>2
    <2>2. CASE i # n
        <3>1. i \in 1 .. n - 1
            BY <1>1, <2>2
        <3>2. PICK k \in DOMAIN list : row[k] = i /\ col[k] = j
            BY <3>1 DEF Placed
        <3>3. k \in DOMAIN new /\ k <= m
            BY <1>1, <1>2, <1>4, <3>2
        <3> QED
            BY <3>2, <3>3
    <2> QED
        BY <2>1, <2>2
<1> HIDE DEF r, c
<1>10. Placed(seqs, n, new, r, c)
    BY <1>7, <1>8, <1>9 DEF Placed
<1> QED
    BY <1>10 DEF new

\* Flattened lists every element of every sequence, and only those.
LEMMA FlattenedPlaced ==
    ASSUME NEW D, NEW seqs \in Seq(Seq(D))
    PROVE  /\ Flattened(seqs) \in Seq(D)
           /\ \E row, col : Placed(seqs, Len(seqs), Flattened(seqs), row, col)
<1>1. PICK f \in [0 .. Len(seqs) -> Seq(D)] :
          /\ f[0] = <<>>
          /\ \A n \in 1 .. Len(seqs) : f[n] = f[n - 1] \o seqs[n]
          /\ Flattened(seqs) = f[Len(seqs)]
    BY FlattenedTurns
<1>2. Len(seqs) \in Nat /\ Len(seqs) \in 0 .. Len(seqs)
    BY LenProperties
<1> DEFINE Bad == {n \in 0 .. Len(seqs) : ~\E row, col : Placed(seqs, n, f[n], row, col)}
<1>3. Bad = {}
    <2> SUFFICES ASSUME Bad # {}
                 PROVE  FALSE
        OBVIOUS
    <2>1. Bad \in SUBSET Nat
        BY <1>2
    <2>2. PICK n \in Bad : \A m \in Bad : n <= m
        <3> HIDE DEF Bad
        <3> QED
            BY <2>1, LeastNatural
    <2>3. n # 0
        <3>1. DOMAIN f[0] = {}
            BY <1>1
        <3>2. Placed(seqs, 0, f[0], <<>>, <<>>)
            BY <3>1 DEF Placed
        <3> QED
            BY <2>2, <3>2
    <2>4. n \in 1 .. Len(seqs) /\ n - 1 \in 0 .. Len(seqs) /\ n - 1 < n
        BY <1>2, <2>2, <2>3
    <2> DEFINE k == n - 1
    <2>5. PICK row, col : Placed(seqs, k, f[k], row, col)
        <3> HIDE DEF k
        <3>1. k \in 0 .. Len(seqs) /\ ~(n <= k)
            BY <1>2, <2>2, <2>4 DEF k
        <3>2. k \notin Bad
            BY <2>2, <3>1
        <3> QED
            BY <3>1, <3>2
    <2>6. f[n - 1] \in Seq(D) /\ f[n] = f[n - 1] \o seqs[n]
        BY <1>1, <2>4
    <2>7. \E r, c : Placed(seqs, n, f[n], r, c)
        BY <2>4, <2>5, <2>6, PlacedNext
    <2> QED
        BY <2>2, <2>7
<1> QED
    BY <1>1, <1>2, <1>3

-----------------------------------------------------------------------------
(* The first element that passes a test.                                   *)

\* _decision_by_id finds a decision that is in the list by its id ...
LEMMA DecisionFound ==
    ASSUME NEW list, NEW n \in Nat, DOMAIN list = 1 .. n, NEW k \in DOMAIN list
    PROVE  \E j \in DOMAIN list :
               /\ j <= k /\ list[j].id = list[k].id
               /\ DecisionById(list, list[k].id) = <<list[j]>>
<1> DEFINE hits == {i \in DOMAIN list : list[i].id = list[k].id}
           least == CHOOSE i \in hits : \A j \in hits : i <= j
<1>1. hits \in SUBSET Nat /\ hits # {} /\ k \in hits
    OBVIOUS
<1>2. \E i \in hits : \A j \in hits : i <= j
    <2> HIDE DEF hits
    <2> QED
        BY <1>1, LeastNatural
<1>3. least \in hits /\ least <= k
    <2> HIDE DEF hits
    <2> QED
        BY <1>1, <1>2
<1>4. DecisionById(list, list[k].id) = <<list[least]>>
    BY <1>1 DEF DecisionById, FirstOf
<1> HIDE DEF least
<1> QED
    BY <1>3, <1>4

\* ... and none for an id that is not.
LEMMA DecisionUnknown ==
    ASSUME NEW list, NEW id, \A k \in DOMAIN list : list[k].id # id
    PROVE  DecisionById(list, id) = <<>>
BY DEF DecisionById, FirstOf

\* get_decision_for_transition returns the first that names the stage.
LEMMA DriverFound ==
    ASSUME NEW list, NEW n \in Nat, DOMAIN list = 1 .. n, NEW s,
           NEW i \in DOMAIN DecisionForTransition(list, s)
    PROVE  \E k \in DOMAIN list :
               /\ DecisionForTransition(list, s)[i] = list[k]
               /\ s \in list[k].impacts
               /\ \A j \in DOMAIN list : s \in list[j].impacts => k <= j
<1> DEFINE hits == {k \in DOMAIN list : s \in list[k].impacts}
           least == CHOOSE k \in hits : \A j \in hits : k <= j
<1>1. DecisionForTransition(list, s) = IF hits = {} THEN <<>> ELSE <<list[least]>>
    BY DEF DecisionForTransition, FirstOf
<1>2. hits # {}
    <2>1. DOMAIN <<>> = {}
        OBVIOUS
    <2> HIDE DEF hits
    <2> QED
        BY <1>1, <2>1
<1>3. hits \in SUBSET Nat
    OBVIOUS
<1>4. least \in hits /\ \A j \in hits : least <= j
    <2> HIDE DEF hits
    <2>1. \E k \in hits : \A j \in hits : k <= j
        BY <1>2, <1>3, LeastNatural
    <2> QED
        BY <2>1
<1>5. DecisionForTransition(list, s)[i] = list[least]
    <2> HIDE DEF least, hits
    <2>1. i = 1
        BY <1>1, <1>2
    <2> QED
        BY <1>1, <1>2, <2>1
<1> HIDE DEF least
<1> QED
    BY <1>4, <1>5

-----------------------------------------------------------------------------
(* The walks up the parents.                                               *)

\* What holds of 0 and is passed on by each n up to N holds of all of them.
LEMMA CountUp ==
    ASSUME NEW N \in Nat, NEW S, 0 \in S, \A n \in 1 .. N : n - 1 \in S => n \in S
    PROVE  \A n \in 0 .. N : n \in S
<1> DEFINE Bad == {n \in 0 .. N : n \notin S}
<1>1. Bad \in SUBSET Nat
    OBVIOUS
<1>2. CASE Bad # {}
    <2>1. PICK n \in Bad : \A m \in Bad : n <= m
        <3> HIDE DEF Bad
        <3> QED
            BY <1>1, <1>2, LeastNatural
    <2>2. n \in 1 .. N /\ n - 1 \in 0 .. N /\ n - 1 < n
        BY <2>1
    <2>3. n - 1 \in S
        BY <2>1, <2>2
    <2> QED
        BY <2>1, <2>2, <2>3
<1> QED
    BY <1>2

\* Decisions with ids and parents in Ids.
Recorded(D, Ids) == NoId \in Ids /\ \A d \in D : d.id \in Ids /\ d.parent \in Ids

\* The local variables of the loop that traces a decision.
Walks(D, Ids) == [current : Ids, chain : Seq(D), seen : SUBSET Ids]

\* Every decision has an id of its own and, unless it is a root, its parent is
\* an earlier one.
Rooted(list) ==
    /\ \A k, l \in DOMAIN list : list[k].id = list[l].id => k = l
    /\ \A k \in DOMAIN list : list[k].id # NoId
    /\ \A k \in DOMAIN list : list[k].parent # NoId =>
           \E j \in DOMAIN list : j < k /\ list[j].id = list[k].parent

LEMMA ClimbType ==
    ASSUME NEW D, NEW Ids, Recorded(D, Ids), NEW list \in Seq(D), NEW w \in Walks(D, Ids)
    PROVE  Climb(list, w) \in Walks(D, Ids) /\ ClimbUnseen(list, w) \in Walks(D, Ids)
<1> DEFINE found == DecisionById(list, w.current)
<1>1. Len(list) \in Nat /\ DOMAIN list = 1 .. Len(list) /\ \A k \in DOMAIN list : list[k] \in D
    BY LenProperties, ElementOfSeq
<1>2. found = <<>> \/ \E d \in D : found = <<d>>
    <2>1. CASE \E k \in DOMAIN list : list[k].id = w.current
        BY <1>1, <2>1, DecisionFound
    <2>2. CASE \A k \in DOMAIN list : list[k].id # w.current
        BY <2>2, DecisionUnknown
    <2> QED
        BY <2>1, <2>2
<1>3. Climb(list, w) = IF w.current = NoId \/ found = <<>> THEN w
                       ELSE [current |-> found[1].parent,
                             chain   |-> found \o w.chain,
                             seen    |-> w.seen \cup {w.current}]
    BY DEF Climb
<1>4. ASSUME NEW d \in D, found = <<d>>
      PROVE  /\ found[1].parent \in Ids
             /\ found \o w.chain \in Seq(D)
             /\ w.seen \cup {w.current} \in SUBSET Ids
    <2> HIDE DEF found
    <2>1. w.chain \in Seq(D) /\ w.seen \in SUBSET Ids /\ w.current \in Ids
        BY DEF Walks
    <2>2. <<d>> \in Seq(D) /\ <<d>>[1] = d
        OBVIOUS
    <2>3. d.parent \in Ids
        BY DEF Recorded
    <2> QED
        BY <1>4, <2>1, <2>2, <2>3, ConcatProperties
<1> HIDE DEF found
<1>5. Climb(list, w) \in Walks(D, Ids)
    <2>1. CASE w.current = NoId \/ found = <<>>
        BY <1>3, <2>1
    <2>2. CASE ~(w.current = NoId \/ found = <<>>)
        BY <1>2, <1>3, <1>4, <2>2 DEF Walks
    <2> QED
        BY <2>1, <2>2
<1> QED
    BY <1>5 DEF ClimbUnseen

\* The loop is over once it has reached a root ...
LEMMA ClimbEnded ==
    ASSUME NEW list, NEW w, w.current = NoId
    PROVE  Climb(list, w) = w /\ ClimbUnseen(list, w) = w
BY DEF Climb, ClimbUnseen

\* ... and before that takes a decision it knows in front of its chain.
LEMMA ClimbKnown ==
    ASSUME NEW D, NEW list \in Seq(D), Rooted(list), NEW k \in DOMAIN list, NEW w,
           w.current = list[k].id
    PROVE  Climb(list, w) = [current |-> list[k].parent,
                             chain   |-> <<list[k]>> \o w.chain,
                             seen    |-> w.seen \cup {w.current}]
<1>1. Len(list) \in Nat /\ DOMAIN list = 1 .. Len(list)
    BY LenProperties
<1>2. PICK j \in DOMAIN list : /\ list[j].id = list[k].id
                               /\ DecisionById(list, list[k].id) = <<list[j]>>
    BY <1>1, DecisionFound
<1>3. DecisionById(list, w.current) = <<list[k]>>
    BY <1>2 DEF Rooted
<1>4. <<list[k]>> # <<>> /\ <<list[k]>>[1] = list[k]
    OBVIOUS
<1>5. w.current # NoId
    BY DEF Rooted
<1> QED
    BY <1>3, <1>4, <1>5 DEF Climb

\* Where a walk from the k-th decision can be after n turns: at its end or at a
\* decision n places up that it has not seen.
Upwards(list, k, w, n) ==
    /\ \/ n > 0 /\ w.current = NoId
       \/ \E p \in DOMAIN list : /\ p <= k - n
                                 /\ list[p].id = w.current
                                 /\ \A q \in DOMAIN list : q <= p => list[q].id \notin w.seen
    /\ n > 0 => w.chain[1].parent = w.current

\* A turn leads from one place to an earlier one, where no walk has been yet:
\* the two loops agree, the one that remembers what it has seen and the other.
LEMMA UpwardsNext ==
    ASSUME NEW D, NEW Ids, Recorded(D, Ids), NEW list \in Seq(D), Rooted(list),
           NEW k \in DOMAIN list, NEW n \in Nat, NEW w \in Walks(D, Ids), Upwards(list, k, w, n)
    PROVE  /\ ClimbUnseen(list, w) = Climb(list, w)
           /\ Upwards(list, k, Climb(list, w), n + 1)
<1>1. Len(list) \in Nat /\ DOMAIN list = 1 .. Len(list) /\ \A p \in DOMAIN list : list[p] \in D
    BY LenProperties, ElementOfSeq
<1>2. CASE w.current = NoId
    <2>1. n > 0
        BY <1>2 DEF Upwards, Rooted
    <2> QED
        BY <1>2, <2>1, ClimbEnded DEF Upwards
<1>3. CASE w.current # NoId
    <2>1. PICK p \in DOMAIN list : /\ p <= k - n
                                   /\ list[p].id = w.current
                                   /\ \A q \in DOMAIN list : q <= p => list[q].id \notin w.seen
        BY <1>3 DEF Upwards
    <2> DEFINE next == [current |-> list[p].parent,
                        chain   |-> <<list[p]>> \o w.chain,
                        seen    |-> w.seen \cup {w.current}]
    <2>2. Climb(list, w) = next
        BY <2>1, ClimbKnown
    <2>3. w.current \notin w.seen
        BY <1>1, <2>1
    <2>4. next.current = list[p].parent /\ next.seen = w.seen \cup {list[p].id}
        BY <2>1
    <2>5. next.chain[1] = list[p]
        <3>1. <<list[p]>> \in Seq(D) /\ Len(<<list[p]>>) = 1 /\ <<list[p]>>[1] = list[p]
            BY <1>1
        <3>2. w.chain \in Seq(D)
            BY DEF Walks
        <3>3. Len(w.chain) \in Nat
            BY <3>2, LenProperties
        <3>4. (<<list[p]>> \o w.chain)[1] = list[p]
            BY <3>1, <3>2, <3>3, ConcatProperties
        <3> QED
            BY <3>4
    <2> HIDE DEF next
    <2>6. Upwards(list, k, next, n + 1)
        <3>1. CASE list[p].parent = NoId
            BY <2>4, <2>5, <3>1 DEF Upwards
        <3>2. CASE list[p].parent # NoId
            <4>1. PICK j \in DOMAIN list : j < p /\ list[j].id = list[p].parent
                BY <3>2 DEF Rooted
            <4>2. j <= k - (n + 1)
                BY <1>1, <2>1, <4>1
            <4>3. ASSUME NEW q \in DOMAIN list, q <= j
                  PROVE  list[q].id \notin next.seen
                <5>1. q <= p /\ q # p
                    BY <1>1, <4>1, <4>3
                <5> QED
                    BY <2>1, <2>4, <5>1 DEF Rooted
            <4> QED
                BY <2>4, <2>5, <4>1, <4>2, <4>3 DEF Upwards
        <3> QED
            BY <3>1, <3>2
    <2> QED
        BY <2>2, <2>3, <2>6 DEF ClimbUnseen
<1> QED
    BY <1>2, <1>3

\* Each turn of the walk f from the k-th decision climbs.
Climbs(list, f, k, N) ==
    /\ f[0] = WalkFrom(list[k].id)
    /\ \A n \in 1 .. N : f[n] \in {Climb(list, f[n - 1]), ClimbUnseen(list, f[n - 1])}

\* The walk goes up in every turn.
LEMMA ClimbsUpwards ==
    ASSUME NEW D, NEW Ids, Recorded(D, Ids), NEW list \in Seq(D), Rooted(list),
           NEW k \in DOMAIN list, NEW N \in Nat, NEW f, Climbs(list, f, k, N)
    PROVE  /\ \A n \in 0 .. N : f[n] \in Walks(D, Ids) /\ Upwards(list, k, f[n], n)
           /\ \A n \in 1 .. N : f[n] = Climb(list, f[n - 1])
<1>1. Len(list) \in Nat /\ DOMAIN list = 1 .. Len(list) /\ list[k] \in D
    BY LenProperties, ElementOfSeq
<1> DEFINE S == {n \in 0 .. N : f[n] \in Walks(D, Ids) /\ Upwards(list, k, f[n], n)}
<1>2. 0 \in S
    <2>1. f[0] = [current |-> list[k].id, chain |-> <<>>, seen |-> {}]
        BY DEF Climbs, WalkFrom
    <2>2. f[0] \in Walks(D, Ids)
        BY <1>1, <2>1 DEF Walks, Recorded
    <2>3. Upwards(list, k, f[0], 0)
        BY <1>1, <2>1 DEF Upwards
    <2> QED
        BY <2>2, <2>3
<1>3. ASSUME NEW n \in 1 .. N, n - 1 \in S
      PROVE  n \in S /\ f[n] = Climb(list, f[n - 1])
    <2> DEFINE m == n - 1
    <2>1. m \in Nat /\ m + 1 = n
        OBVIOUS
    <2>2. f[m] \in Walks(D, Ids) /\ Upwards(list, k, f[m], m)
        BY <1>3
    <2>3. f[n] \in {Climb(list, f[m]), ClimbUnseen(list, f[m])}
        BY DEF Climbs
    <2> HIDE DEF m
    <2>4. /\ ClimbUnseen(list, f[m]) = Climb(list, f[m])
          /\ Upwards(list, k, Climb(list, f[m]), m + 1)
        BY <2>1, <2>2, UpwardsNext
    <2>5. Climb(list, f[m]) \in Walks(D, Ids)
        BY <2>2, ClimbType
    <2> QED
        BY <2>1, <2>3, <2>4, <2>5 DEF m
<1>4. \A n \in 0 .. N : n \in S
    <2> HIDE DEF S
    <2> QED
        BY <1>2, <1>3, CountUp
<1>5. ASSUME NEW n \in 1 .. N
      PROVE  f[n] = Climb(list, f[n - 1])
    <2>1. n - 1 \in 0 .. N
        OBVIOUS
    <2> QED
        BY <1>3, <1>4, <2>1
<1> QED
    BY <1>4, <1>5

\* After as many turns as there are decisions, or more, the walk has ended.
LEMMA WalkEnds ==
    ASSUME NEW D, NEW Ids, Recorded(D, Ids), NEW list \in Seq(D), Rooted(list),
           NEW k \in DOMAIN list, NEW N \in Nat, NEW f, Climbs(list, f, k, N), N >= Len(list)
    PROVE  f[N].current = NoId /\ f[N].chain[1].parent = NoId
<1>1. Len(list) \in Nat /\ DOMAIN list = 1 .. Len(list)
    BY LenProperties
<1>2. Upwards(list, k, f[N], N)
    BY ClimbsUpwards
<1>3. N > 0 /\ \A p \in DOMAIN list : ~(p <= k - N)
    BY <1>1
<1> QED
    BY <1>2, <1>3 DEF Upwards

\* The turns of trace_decision_lineage are those of a climbing walk.
LEMMA TraceTurns ==
    ASSUME NEW D, NEW Ids, Recorded(D, Ids), NEW list \in Seq(D), NEW k \in DOMAIN list
    PROVE  \E f : /\ Climbs(list, f, k, Len(list))
                  /\ TraceDecisionLineage(list, list[k].id) = f[Len(list)].chain
<1> DEFINE N == Len(list)
           W == Walks(D, Ids)
           a == WalkFrom(list[k].id)
           g == [x \in (1 .. N) \X W |-> ClimbUnseen(list, x[2])]
           Solution(f) ==
               f = [n \in 0 .. N |-> IF n = 0 THEN a ELSE ClimbUnseen(list, f[n - 1])]
           walk == CHOOSE f : Solution(f)
<1>1. N \in Nat /\ list[k] \in D
    BY LenProperties, ElementOfSeq
<1>2. a \in W
    BY <1>1 DEF Walks, WalkFrom, Recorded
<1>3. g \in [(1 .. N) \X W -> W]
    BY ClimbType
<1>4. PICK f \in [0 .. N -> W] : Turns(f, a, g, N)
    <2> HIDE DEF N, W, g, a, Solution, walk
    <2>1. N \in Nat /\ N \in 0 .. N
        BY <1>1
    <2> QED
        BY <2>1, <1>2, <1>3, TurnsExist
<1>5. ASSUME NEW n \in 1 .. N, NEW w \in W
      PROVE  g[<<n, w>>] = ClimbUnseen(list, w)
    <2>1. <<n, w>> \in (1 .. N) \X W
        BY <1>5
    <2> QED
        BY <2>1
<1>6. Solution(f)
    <2> HIDE DEF g, N, W, a
    <2>1. ASSUME NEW n \in 0 .. N
          PROVE  f[n] = IF n = 0 THEN a ELSE ClimbUnseen(list, f[n - 1])
        <3>1. CASE n = 0
            BY <1>4, <3>1 DEF Turns
        <3>2. CASE n # 0
            <4>1. n \in 1 .. N /\ n - 1 \in 0 .. N
                BY <3>2, <1>1
            <4>2. f[n - 1] \in W
                BY <1>4, <4>1
            <4>3. f[n] = g[<<n, f[n - 1]>>]
                BY <1>4, <4>1 DEF Turns
            <4> QED
                BY <1>5, <3>2, <4>1, <4>2, <4>3
        <3> QED
            BY <3>1, <3>2
    <2> QED
        BY <1>4, <2>1
<1>7. Solution(walk)
    BY <1>6
<1>8. TraceDecisionLineage(list, list[k].id) = walk[N].chain
    BY DEF TraceDecisionLineage
<1> HIDE DEF walk
<1>9. walk[0] = a
    <2> HIDE DEF N, a
    <2> QED
        BY <1>1, <1>7
<1>10. ASSUME NEW n \in 1 .. N
       PROVE  walk[n] = ClimbUnseen(list, walk[n - 1])
    <2> HIDE DEF N, a
    <2>1. n \in 0 .. N /\ n # 0
        BY <1>1, <1>10
    <2> QED
        BY <1>7, <2>1
<1> QED
    BY <1>8, <1>9, <1>10 DEF Climbs

\* So are those of get_decision_lineage.
LEMMA LineageTurns ==
    ASSUME NEW D, NEW Ids, Recorded(D, Ids), NEW list \in Seq(D), NEW k \in DOMAIN list
    PROVE  \E f : /\ Climbs(list, f, k, Len(list) + 1)
                  /\ \A n \in 1 .. Len(list) + 1 : f[n] = Climb(list, f[n - 1])
                  /\ GetDecisionLineage(list, list[k].id) = f[Len(list) + 1].chain
<1> DEFINE N == Len(list) + 1
           W == Walks(D, Ids)
           a == WalkFrom(list[k].id)
           g == [x \in (1 .. N) \X W |-> Climb(list, x[2])]
           Solution(f) ==
               f = [n \in 0 .. N |-> IF n = 0 THEN a ELSE Climb(list, f[n - 1])]
           walk == CHOOSE f : Solution(f)
<1>1. N \in Nat /\ list[k] \in D
    BY LenProperties, ElementOfSeq
<1>2. a \in W
    BY <1>1 DEF Walks, WalkFrom, Recorded
<1>3. g \in [(1 .. N) \X W -> W]
    BY ClimbType
<1>4. PICK f \in [0 .. N -> W] : Turns(f, a, g, N)
    <2> HIDE DEF N, W, g, a, Solution, walk
    <2>1. N \in Nat /\ N \in 0 .. N
        BY <1>1
    <2> QED
        BY <2>1, <1>2, <1>3, TurnsExist
<1>5. ASSUME NEW n \in 1 .. N, NEW w \in W
      PROVE  g[<<n, w>>] = Climb(list, w)
    <2>1. <<n, w>> \in (1 .. N) \X W
        BY <1>5
    <2> QED
        BY <2>1
<1>6. Solution(f)
    <2> HIDE DEF g, N, W, a
    <2>1. ASSUME NEW n \in 0 .. N
          PROVE  f[n] = IF n = 0 THEN a ELSE Climb(list, f[n - 1])
        <3>1. CASE n = 0
            BY <1>4, <3>1 DEF Turns
        <3>2. CASE n # 0
            <4>1. n \in 1 .. N /\ n - 1 \in 0 .. N
                BY <3>2, <1>1
            <4>2. f[n - 1] \in W
                BY <1>4, <4>1
            <4>3. f[n] = g[<<n, f[n - 1]>>]
                BY <1>4, <4>1 DEF Turns
            <4> QED
                BY <1>5, <3>2, <4>1, <4>2, <4>3
        <3> QED
            BY <3>1, <3>2
    <2> QED
        BY <1>4, <2>1
<1>7. Solution(walk)
    BY <1>6
<1>8. GetDecisionLineage(list, list[k].id) = walk[N].chain
    BY DEF GetDecisionLineage
<1> HIDE DEF walk
<1>9. walk[0] = a
    <2> HIDE DEF N, a
    <2> QED
        BY <1>1, <1>7
<1>10. ASSUME NEW n \in 1 .. N
       PROVE  walk[n] = Climb(list, walk[n - 1])
    <2> HIDE DEF N, a
    <2>1. n \in 0 .. N /\ n # 0
        BY <1>1, <1>10
    <2> QED
        BY <1>7, <2>1
<1> QED
    BY <1>8, <1>9, <1>10 DEF Climbs

\* A walk from any decision of a rooted list leads to a root.
LEMMA TraceRooted ==
    ASSUME NEW D, NEW Ids, Recorded(D, Ids), NEW list \in Seq(D), Rooted(list),
           NEW k \in DOMAIN list
    PROVE  TraceDecisionLineage(list, list[k].id)[1].parent = NoId
<1>1. PICK f : /\ Climbs(list, f, k, Len(list))
               /\ TraceDecisionLineage(list, list[k].id) = f[Len(list)].chain
    BY TraceTurns
<1>2. Len(list) \in Nat
    BY LenProperties
<1> QED
    BY <1>1, <1>2, WalkEnds

\* The decisions of part are among those of whole.
Within(part, whole) == \A j \in DOMAIN part : \E k \in DOMAIN whole : whole[k] = part[j]

\* A turn in a list agrees with the same turn in one that holds more.
LEMMA ClimbWithin ==
    ASSUME NEW D, NEW whole \in Seq(D), Rooted(whole), NEW part \in Seq(D), Rooted(part),
           Within(part, whole), NEW w,
           w.current = NoId \/ \E j \in DOMAIN part : part[j].id = w.current
    PROVE  Climb(part, w) = Climb(whole, w)
<1>1. CASE w.current = NoId
    BY <1>1, ClimbEnded
<1>2. CASE \E j \in DOMAIN part : part[j].id = w.current
    <2>1. PICK j \in DOMAIN part : part[j].id = w.current
        BY <1>2
    <2>2. PICK k \in DOMAIN whole : whole[k] = part[j]
        BY DEF Within
    <2> DEFINE next == [current |-> part[j].parent,
                        chain   |-> <<part[j]>> \o w.chain,
                        seen    |-> w.seen \cup {w.current}]
    <2>3. Climb(part, w) = next
        BY <2>1, ClimbKnown
    <2>4. Climb(whole, w) = next
        BY <2>1, <2>2, ClimbKnown
    <2> QED
        BY <2>3, <2>4
<1> QED
    BY <1>1, <1>2

\* A walk of N turns.
EveryTurnClimbs(list, h, N) == \A m \in 1 .. N : h[m] = Climb(list, h[m - 1])

\* A climb from the root changes nothing any more.
LEMMA ClimbStays ==
    ASSUME NEW list, NEW h, NEW n \in Nat, NEW N \in Nat, n <= N, h[n].current = NoId,
           EveryTurnClimbs(list, h, N)
    PROVE  h[N] = h[n]
<1> DEFINE S == {m \in 0 .. N - n : h[n + m] = h[n]}
<1>1. 0 \in S
    OBVIOUS
<1>2. ASSUME NEW m \in 1 .. N - n, m - 1 \in S
      PROVE  m \in S
    <2>1. h[n + (m - 1)] = h[n] /\ n + (m - 1) = (n + m) - 1 /\ n + m \in 1 .. N
        BY <1>2
    <2>2. h[n + m] = Climb(list, h[n])
        BY <2>1 DEF EveryTurnClimbs
    <2> QED
        BY <2>2, ClimbEnded
<1>3. N - n \in Nat /\ N - n \in 0 .. N - n
    OBVIOUS
<1>4. \A m \in 0 .. N - n : m \in S
    <2> HIDE DEF S
    <2> QED
        BY <1>1, <1>2, <1>3, CountUp
<1> QED
    BY <1>3, <1>4

\* Both walks from a decision of part, one among part's decisions and the other
\* among all, find the same chain.
LEMMA TracesAgree ==
    ASSUME NEW D, NEW Ids, Recorded(D, Ids),
           NEW whole \in Seq(D), Rooted(whole), NEW part \in Seq(D), Rooted(part),
           Within(part, whole), NEW j \in DOMAIN part
    PROVE  GetDecisionLineage(part, part[j].id) = TraceDecisionLineage(whole, part[j].id)
<1> DEFINE a == WalkFrom(part[j].id)
           L == Len(whole)
           M == Len(part) + 1
           N == L + M
           W == Walks(D, Ids)
           g == [x \in (1 .. N) \X W |-> Climb(part, x[2])]
<1>1. /\ L \in Nat /\ Len(part) \in Nat /\ M \in Nat /\ N \in Nat
      /\ L <= N /\ M <= N /\ M >= Len(part) /\ part[j] \in D
    BY LenProperties, ElementOfSeq
<1>2. PICK h \in [0 .. N -> W] : Turns(h, a, g, N)
    <2>1. a \in W
        BY <1>1 DEF Walks, WalkFrom, Recorded
    <2>2. g \in [(1 .. N) \X W -> W]
        BY ClimbType
    <2> HIDE DEF N, W, g, a
    <2>3. N \in 0 .. N
        BY <1>1
    <2> QED
        BY <1>1, <2>1, <2>2, <2>3, TurnsExist
<1>3. h[0] = a /\ \A n \in 1 .. N : h[n] = Climb(part, h[n - 1])
    <2>1. h[0] = a
        BY <1>2 DEF Turns
    <2>2. ASSUME NEW n \in 1 .. N
          PROVE  h[n] = Climb(part, h[n - 1])
        <3> HIDE DEF N, W, a
        <3>1. n - 1 \in 0 .. N
            BY <1>1, <2>2
        <3>2. <<n, h[n - 1]>> \in (1 .. N) \X W
            BY <1>2, <3>1
        <3>3. g[<<n, h[n - 1]>>] = Climb(part, h[n - 1])
            BY <3>2
        <3> QED
            BY <1>2, <3>3 DEF Turns
    <2> QED
        BY <2>1, <2>2
<1> HIDE DEF g, W
<1>4. ASSUME NEW n \in 0 .. N
      PROVE  Climbs(part, h, j, n)
    BY <1>1, <1>3 DEF Climbs
<1>5. \A n \in 0 .. N : Upwards(part, j, h[n], n)
    <2> HIDE DEF N
    <2>1. N \in 0 .. N
        BY <1>1
    <2> QED
        BY <1>1, <1>4, <2>1, ClimbsUpwards
<1>6. h[M].current = NoId
    BY <1>1, <1>4, WalkEnds
<1>7. PICK f : /\ Climbs(whole, f, CHOOSE k \in DOMAIN whole : whole[k] = part[j], L)
               /\ TraceDecisionLineage(whole, part[j].id) = f[L].chain
    <2>1. \E k \in DOMAIN whole : whole[k] = part[j]
        BY DEF Within
    <2> QED
        BY <2>1, TraceTurns
<1>8. PICK k \in DOMAIN whole : whole[k] = part[j] /\ Climbs(whole, f, k, L)
    <2>1. \E k \in DOMAIN whole : whole[k] = part[j]
        BY DEF Within
    <2> QED
        BY <1>7, <2>1
<1>9. \A n \in 1 .. L : f[n] = Climb(whole, f[n - 1])
    BY <1>1, <1>8, ClimbsUpwards
<1>10. f[L] = h[L]
    <2> DEFINE S == {n \in 0 .. L : f[n] = h[n]}
    <2>1. 0 \in S
        BY <1>1, <1>3, <1>8 DEF Climbs
    <2>2. ASSUME NEW n \in 1 .. L, n - 1 \in S
          PROVE  n \in S
        <3>1. f[n - 1] = h[n - 1] /\ n - 1 \in 0 .. N /\ n \in 1 .. N
            BY <1>1, <2>2
        <3>2. \/ h[n - 1].current = NoId
              \/ \E p \in DOMAIN part : part[p].id = h[n - 1].current
            BY <1>5, <3>1 DEF Upwards
        <3>3. Climb(part, h[n - 1]) = Climb(whole, h[n - 1])
            BY <3>2, ClimbWithin
        <3> QED
            BY <1>3, <1>9, <3>1, <3>3
    <2>3. \A n \in 0 .. L : n \in S
        <3> HIDE DEF S, L
        <3> QED
            BY <1>1, <2>1, <2>2, CountUp
    <2> QED
        BY <1>1, <2>3
<1>11. h[L].current = NoId
    BY <1>1, <1>8, <1>10, WalkEnds
<1>12. PICK e : /\ Climbs(part, e, j, M)
                /\ \A n \in 1 .. M : e[n] = Climb(part, e[n - 1])
                /\ GetDecisionLineage(part, part[j].id) = e[M].chain
    BY LineageTurns
<1>13. e[M] = h[M]
    <2> DEFINE S == {n \in 0 .. M : e[n] = h[n]}
    <2>1. 0 \in S
        BY <1>1, <1>3, <1>12 DEF Climbs
    <2>2. ASSUME NEW n \in 1 .. M, n - 1 \in S
          PROVE  n \in S
        <3>1. e[n - 1] = h[n - 1] /\ n \in 1 .. N
            BY <1>1, <2>2
        <3> QED
            BY <1>3, <1>12, <3>1
    <2>3. \A n \in 0 .. M : n \in S
        <3> HIDE DEF S, M
        <3> QED
            BY <1>1, <2>1, <2>2, CountUp
    <2> QED
        BY <1>1, <2>3
<1>14. h[L] = h[N] /\ h[M] = h[N]
    <2> HIDE DEF L, M, N, a
    <2>1. EveryTurnClimbs(part, h, N)
        BY <1>3 DEF EveryTurnClimbs
    <2>2. h[N] = h[L]
        BY <1>1, <1>11, <2>1, ClimbStays
    <2>3. h[N] = h[M]
        BY <1>1, <1>6, <2>1, ClimbStays
    <2> QED
        BY <2>2, <2>3
<1> QED
    BY <1>7, <1>10, <1>12, <1>13, <1>14

-----------------------------------------------------------------------------
(* What the profiles of a scenario's stages have to be like.               *)

\* What q is, without naming what it is a sequence of.
IsSequence(q) == q \in Seq({q[i] : i \in DOMAIN q})

\* The gates of a stage are content with what its predecessors and itself leave.
GatesFit ==
    \A s \in Stages :
        /\ Profile[s].needs \subseteq UNION {Profile[p].gives : p \in Predecessors(s)}
        /\ Profile[s].least <= Len(Profile[s].decides)
        /\ "block" \notin PolicyOutcomes[s]

\* No two decisions have the same title.
TitlesFit ==
    \A s \in Stages : \A i \in DOMAIN Profile[s].decides :
        /\ Profile[s].decides[i].title # "none"
        /\ \A t \in Stages : \A j \in DOMAIN Profile[t].decides :
               Profile[s].decides[i].title = Profile[t].decides[j].title => s = t /\ i = j

\* A stage makes a decision of that title, a predecessor hands one on.
OwnTitle(s, title) ==
    \E i \in DOMAIN Profile[s].decides : Profile[s].decides[i].title = title

FromPredecessor(s, title) == \E p \in Predecessors(s) : title \in Profile[p].hands_on

\* A parent is an earlier decision of the same stage, or handed on to it.
ParentsFit ==
    \A s \in Stages : \A i \in DOMAIN Profile[s].decides :
        LET parent == Profile[s].decides[i].parent IN
        \/ parent = "none"
        \/ \E j \in DOMAIN Profile[s].decides : j < i /\ Profile[s].decides[j].title = parent
        \/ ~OwnTitle(s, parent) /\ FromPredecessor(s, parent)

\* A stage hands on what it has.
HandsOnFit ==
    \A s \in Stages : \A title \in Profile[s].hands_on :
        OwnTitle(s, title) \/ FromPredecessor(s, title)

\* A decision of s names t as downstream.
Names(s, t) == \E i \in DOMAIN Profile[s].decides : t \in Profile[s].decides[i].impacts

\* A stage that names one of its own round is not the first to name it.
DriversFit ==
    \A s \in Stages : \A t \in Stages : Names(s, t) =>
        \/ t \in ReachableFrom(s)
        \/ \E u \in Ancestors[s] \cap Stages : Names(u, t) /\ t \in ReachableFrom(u)

\* The stages of the workflow fit together.
ProfileFits ==
    /\ \A s \in Stages : IsSequence(Profile[s].decides) /\ Profile[s].least \in Nat
    /\ GatesFit
    /\ TitlesFit
    /\ ParentsFit
    /\ HandsOnFit
    /\ DriversFit

-----------------------------------------------------------------------------
(* The inductive invariant.                                                *)

\* s has a context in this order.
Listed(order, s) == \E i \in DOMAIN order : order[i] = s

\* Each stage once, behind its predecessors.
UpstreamFirst(order) ==
    /\ order \in Seq(Stages)
    /\ \A i, j \in DOMAIN order : order[i] = order[j] => i = j
    /\ \A j \in DOMAIN order : \A p \in Predecessors(order[j]) :
           \E i \in DOMAIN order : i < j /\ order[i] = p

\* No stage of a scenario falls back: what it hands on, it has produced.
NoFallback ==
    /\ \A s \in Stages : stages[s].status # "skipped" /\ ~stages[s].fallback_used
    /\ \A s \in Stages : stage_outputs[s] # "absent" <=> pc[s] = "returned_true"

\* The contexts of the state are those of the stages that have begun.
OrderKept ==
    /\ UpstreamFirst(stage_order)
    /\ \A s \in Stages : Listed(stage_order, s) <=> Begun(s)

\* The last execution of the stage has left its decisions.
Settled(s) == pc[s] \in {"exit_gate", "returned_true"}

\* The decisions of a stage are those of its last execution, and its ids those
\* its predecessors still hand on.
LineageKept ==
    /\ executions \in [Stages -> Nat]
    /\ decisions = [s \in Stages |-> IF Settled(s) THEN Decided(s, executions[s]) ELSE <<>>]
    /\ input_ids = [s \in Stages |-> IF Begun(s) THEN UNION {HandedOn(p) : p \in Predecessors(s)}
                                     ELSE {}]

\* The engine is as Replanning leaves it, and its contexts and decisions fit.
ScenarioInvariant ==
    /\ ReplanInvariant
    /\ NoFallback
    /\ OrderKept
    /\ LineageKept

-----------------------------------------------------------------------------
(* The order of the contexts.                                              *)

\* No two elements of a joined list have the same place, and places are in order.
LEMMA PlacedOnce ==
    ASSUME NEW D, NEW seqs \in Seq(Seq(D)), NEW list \in Seq(D),
           NEW row, NEW col, Placed(seqs, Len(seqs), list, row, col),
           NEW k \in DOMAIN list, NEW l \in DOMAIN list
    PROVE  /\ row[k] = row[l] /\ col[k] = col[l] => k = l
           /\ row[k] < row[l] \/ (row[k] = row[l] /\ col[k] < col[l]) => k < l
<1>1. k \in Nat /\ l \in Nat
    BY LenProperties
<1>2. /\ row[k] \in 1 .. Len(seqs) /\ row[l] \in 1 .. Len(seqs)
      /\ col[k] \in DOMAIN seqs[row[k]] /\ col[l] \in DOMAIN seqs[row[l]]
    BY DEF Placed
<1>3. row[k] \in Nat /\ row[l] \in Nat /\ col[k] \in Nat /\ col[l] \in Nat
    <2>1. DOMAIN seqs = 1 .. Len(seqs) /\ Len(seqs) \in Nat
        BY LenProperties
    <2>2. seqs[row[k]] \in Seq(D) /\ seqs[row[l]] \in Seq(D)
        BY <1>2, <2>1, ElementOfSeq
    <2>3. /\ DOMAIN seqs[row[k]] = 1 .. Len(seqs[row[k]])
          /\ DOMAIN seqs[row[l]] = 1 .. Len(seqs[row[l]])
        BY <2>2, LenProperties
    <2>4. \A n \in Nat : \A i \in 1 .. n : i \in Nat
        OBVIOUS
    <2>5. /\ Len(seqs[row[k]]) \in Nat
          /\ Len(seqs[row[l]]) \in Nat
        BY <2>2, LenProperties
    <2>6. /\ col[k] \in 1 .. Len(seqs[row[k]])
          /\ col[l] \in 1 .. Len(seqs[row[l]])
        BY <1>2, <2>3, Zenon
    <2> QED
        BY <1>2, <2>1, <2>4, <2>5, <2>6, Zenon
<1>4. /\ k < l => row[k] < row[l] \/ (row[k] = row[l] /\ col[k] < col[l])
      /\ l < k => row[l] < row[k] \/ (row[l] = row[k] /\ col[l] < col[k])
    BY DEF Placed
<1> QED
    BY <1>1, <1>3, <1>4, SMTT(30)

\* The k-th of the keys left was at position at[k].
Left(keys, deleted, left, at) ==
    /\ \A k \in DOMAIN left : /\ at[k] \in DOMAIN keys
                              /\ left[k] = keys[at[k]]
                              /\ keys[at[k]] \notin deleted
    /\ \A k, l \in DOMAIN left : (at[k] < at[l] => k < l) /\ (at[k] = at[l] => k = l)
    /\ \A i \in DOMAIN keys : keys[i] \notin deleted => \E k \in DOMAIN left : at[k] = i

\* Deleting keys keeps the order of the others.
LEMMA WithoutPlaced ==
    ASSUME NEW D, NEW keys \in Seq(D), NEW deleted
    PROVE  /\ Without(keys, deleted) \in Seq(D)
           /\ \E at : Left(keys, deleted, Without(keys, deleted), at)
<1> DEFINE cut == [i \in DOMAIN keys |-> IF keys[i] \in deleted THEN <<>> ELSE <<keys[i]>>]
           left == Without(keys, deleted)
<1>1. Len(keys) \in Nat /\ DOMAIN keys = 1 .. Len(keys)
    BY LenProperties
<1>2. ASSUME NEW i \in 1 .. Len(keys)
      PROVE  /\ keys[i] \in deleted => DOMAIN cut[i] = {}
             /\ keys[i] \notin deleted => DOMAIN cut[i] = {1} /\ cut[i][1] = keys[i]
    BY <1>1
<1>3. cut \in Seq(Seq(D)) /\ Len(cut) = Len(keys)
    <2>1. cut \in [1 .. Len(keys) -> Seq(D)]
        BY <1>1
    <2> HIDE DEF cut
    <2> QED
        BY <1>1, <2>1, LenProperties
<1>4. left = Flattened(cut)
    BY DEF Without
<1> HIDE DEF cut, left
<1>5. left \in Seq(D)
    BY <1>3, <1>4, FlattenedPlaced
<1>6. PICK row, col : Placed(cut, Len(keys), left, row, col)
    BY <1>3, <1>4, FlattenedPlaced
<1>7. Len(left) \in Nat /\ DOMAIN left = 1 .. Len(left)
    BY <1>5, LenProperties
<1>8. ASSUME NEW k \in DOMAIN left
      PROVE  /\ row[k] \in DOMAIN keys /\ row[k] \in Nat
             /\ left[k] = keys[row[k]]
             /\ keys[row[k]] \notin deleted
    <2>1. row[k] \in 1 .. Len(keys) /\ col[k] \in DOMAIN cut[row[k]]
          /\ left[k] = cut[row[k]][col[k]]
        BY <1>6 DEF Placed
    <2> QED
        BY <1>1, <1>2, <2>1
<1>9. ASSUME NEW k \in DOMAIN left, NEW l \in DOMAIN left
      PROVE  (row[k] < row[l] => k < l) /\ (row[k] = row[l] => k = l)
    <2>1. \A i \in 1 .. Len(keys) : DOMAIN cut[i] \subseteq {1}
        BY <1>2
    <2>2. col[k] = 1 /\ col[l] = 1
        BY <1>6, <2>1 DEF Placed
    <2> QED
        BY <1>3, <1>5, <1>6, <2>2, PlacedOnce
<1>10. ASSUME NEW i \in DOMAIN keys, keys[i] \notin deleted
       PROVE  \E k \in DOMAIN left : row[k] = i
    <2>1. i \in 1 .. Len(keys) /\ 1 \in DOMAIN cut[i]
        BY <1>1, <1>2, <1>10
    <2> QED
        BY <1>6, <2>1 DEF Placed
<1>11. Left(keys, deleted, left, row)
    BY <1>8, <1>9, <1>10 DEF Left
<1> QED
    BY <1>5, <1>11 DEF left

\* The order without stages that nothing left in it depends on.
LEMMA WithoutUpstreamFirst ==
    ASSUME NEW order, UpstreamFirst(order), NEW deleted,
           \A s \in Stages \ deleted : Listed(order, s) => Predecessors(s) \cap deleted = {}
    PROVE  /\ UpstreamFirst(Without(order, deleted))
           /\ \A s \in Stages :
                  Listed(Without(order, deleted), s) <=> Listed(order, s) /\ s \notin deleted
<1> DEFINE left == Without(order, deleted)
<1>1. order \in Seq(Stages)
    BY DEF UpstreamFirst
<1>2. left \in Seq(Stages)
    BY <1>1, WithoutPlaced
<1>3. PICK at : Left(order, deleted, left, at)
    BY <1>1, WithoutPlaced
<1>4. /\ Len(order) \in Nat /\ DOMAIN order = 1 .. Len(order)
      /\ Len(left) \in Nat /\ DOMAIN left = 1 .. Len(left)
      /\ \A i \in DOMAIN order : order[i] \in Stages
    BY <1>1, <1>2, LenProperties, ElementOfSeq
<1> HIDE DEF left
<1>5. ASSUME NEW k \in DOMAIN left, NEW l \in DOMAIN left, left[k] = left[l]
      PROVE  k = l
    <2>1. at[k] = at[l]
        BY <1>3, <1>5 DEF UpstreamFirst, Left
    <2> QED
        BY <1>3, <2>1 DEF Left
<1>6. ASSUME NEW l \in DOMAIN left, NEW p \in Predecessors(left[l])
      PROVE  \E k \in DOMAIN left : k < l /\ left[k] = p
    <2>1. at[l] \in DOMAIN order /\ left[l] = order[at[l]] /\ left[l] \notin deleted
          /\ left[l] \in Stages
        BY <1>3, <1>4 DEF Left
    <2>2. PICK i \in DOMAIN order : i < at[l] /\ order[i] = p
        BY <2>1 DEF UpstreamFirst
    <2>3. p \notin deleted
        BY <2>1 DEF Listed
    <2>4. PICK k \in DOMAIN left : at[k] = i
        BY <1>3, <2>2, <2>3 DEF Left
    <2>5. k < l
        BY <1>3, <2>2, <2>4 DEF Left
    <2> QED
        BY <1>3, <2>2, <2>4, <2>5 DEF Left
<1>7. UpstreamFirst(left)
    BY <1>2, <1>5, <1>6 DEF UpstreamFirst
<1>8. \A s \in Stages : Listed(left, s) <=> Listed(order, s) /\ s \notin deleted
    BY <1>3 DEF Listed, Left
<1> QED
    BY <1>7, <1>8 DEF left

\* A stage whose predecessors are listed may be listed behind them.
LEMMA AppendUpstreamFirst ==
    ASSUME NEW order, UpstreamFirst(order), NEW s \in Stages, ~Listed(order, s),
           \A p \in Predecessors(s) : Listed(order, p)
    PROVE  /\ UpstreamFirst(Append(order, s))
           /\ \A t \in Stages : Listed(Append(order, s), t) <=> Listed(order, t) \/ t = s
<1> DEFINE new == Append(order, s)
           n == Len(order) + 1
<1>1. order \in Seq(Stages)
    BY DEF UpstreamFirst
<1>2. Len(order) \in Nat /\ DOMAIN order = 1 .. Len(order)
    BY <1>1, LenProperties
<1>3. /\ new \in Seq(Stages) /\ DOMAIN new = 1 .. n /\ new[n] = s
      /\ \A i \in DOMAIN order : new[i] = order[i]
    BY <1>1, <1>2, AppendProperties
<1>4. \A i \in DOMAIN new : i = n \/ i \in DOMAIN order
    BY <1>2, <1>3
<1>5. n \in DOMAIN new /\ n \notin DOMAIN order /\ DOMAIN order \subseteq DOMAIN new
      /\ \A i \in DOMAIN order : i < n
    BY <1>2, <1>3
<1> HIDE DEF new, n
<1>6. \A i, j \in DOMAIN new : new[i] = new[j] => i = j
    BY <1>3, <1>4 DEF UpstreamFirst, Listed
<1>7. ASSUME NEW j \in DOMAIN new, NEW p \in Predecessors(new[j])
      PROVE  \E i \in DOMAIN new : i < j /\ new[i] = p
    <2>1. CASE j = n
        BY <1>3, <1>5, <1>7, <2>1 DEF Listed
    <2>2. CASE j # n
        <3>1. j \in DOMAIN order /\ new[j] = order[j]
            BY <1>3, <1>4, <2>2
        <3>2. PICK i \in DOMAIN order : i < j /\ order[i] = p
            BY <1>7, <3>1 DEF UpstreamFirst
        <3> QED
            BY <1>3, <1>5, <3>2
    <2> QED
        BY <2>1, <2>2
<1>8. UpstreamFirst(new)
    BY <1>3, <1>6, <1>7 DEF UpstreamFirst
<1>9. \A t \in Stages : Listed(new, t) <=> Listed(order, t) \/ t = s
    BY <1>3, <1>4, <1>5 DEF Listed
<1> QED
    BY <1>8, <1>9 DEF new

-----------------------------------------------------------------------------
(* The decisions held in a state of the invariant.                         *)

\* What the stages say of their decisions.
Texts == UNION {{Profile[s].decides[i] : i \in DOMAIN Profile[s].decides} : s \in Stages}

\* The titles of the workflow's decisions, and the ids that can be made of them.
Titles == {d.title : d \in Texts} \cup {d.parent : d \in Texts} \cup {"none"}

Ids == Titles \X Nat

\* A decision of the workflow.
DecisionRecord ==
    [id : Ids, parent : Ids, stage : Stages, impacts : {d.impacts : d \in Texts}]

\* What a stage that has begun is based on is done.
PredecessorsDone ==
    \A s \in Stages : Begun(s) => \A p \in Predecessors(s) : pc[p] = "returned_true"

\* Some of the stages that have begun, in an order that respects the graph.
Held(order) ==
    /\ LineageKept
    /\ PredecessorsDone
    /\ UpstreamFirst(order)
    /\ \A j \in DOMAIN order : Begun(order[j])

\* Types of what a stage says of its decisions.
LEMMA TextType ==
    ASSUME ProfileFits, NEW s \in Stages, NEW i \in DOMAIN Profile[s].decides
    PROVE  /\ Profile[s].decides[i].title \in Titles
           /\ Profile[s].decides[i].title # "none"
           /\ Profile[s].decides[i].parent \in Titles
           /\ Profile[s].decides[i].impacts \in {d.impacts : d \in Texts}
<1>1. Profile[s].decides[i] \in Texts
    BY DEF Texts
<1>2. Profile[s].decides[i].title # "none"
    BY DEF ProfileFits, TitlesFit
<1> QED
    BY <1>1, <1>2 DEF Titles

\* A stage has the decisions of its profile, or none.
LEMMA SettledDecisions ==
    ASSUME LineageKept, NEW s \in Stages
    PROVE  /\ ~Settled(s) => DOMAIN decisions[s] = {}
           /\ Settled(s) => DOMAIN decisions[s] = DOMAIN Profile[s].decides
           /\ executions[s] \in Nat
<1>1. decisions[s] = IF Settled(s) THEN Decided(s, executions[s]) ELSE <<>>
    BY DEF LineageKept
<1>2. DOMAIN Decided(s, executions[s]) = DOMAIN Profile[s].decides
    BY DEF Decided
<1>3. executions[s] \in Nat
    BY DEF LineageKept
<1> QED
    BY <1>1, <1>2, <1>3

\* Each decision of a stage, field by field.
LEMMA DecisionFields ==
    ASSUME LineageKept, NEW s \in Stages, NEW i \in DOMAIN decisions[s]
    PROVE  /\ Settled(s)
           /\ i \in DOMAIN Profile[s].decides
           /\ decisions[s][i].id = <<Profile[s].decides[i].title, executions[s]>>
           /\ decisions[s][i].parent = ParentId(s, Profile[s].decides[i].parent, executions[s])
           /\ decisions[s][i].stage = s
           /\ decisions[s][i].impacts = Profile[s].decides[i].impacts
           /\ decisions[s][i] = [id      |-> decisions[s][i].id,
                                 parent  |-> decisions[s][i].parent,
                                 stage   |-> decisions[s][i].stage,
                                 impacts |-> decisions[s][i].impacts]
<1>1. Settled(s) /\ i \in DOMAIN Profile[s].decides
    BY SettledDecisions
<1>2. decisions[s] = Decided(s, executions[s])
    BY <1>1 DEF LineageKept
<1>3. Decided(s, executions[s])[i] =
          [id      |-> <<Profile[s].decides[i].title, executions[s]>>,
           parent  |-> ParentId(s, Profile[s].decides[i].parent, executions[s]),
           stage   |-> s,
           impacts |-> Profile[s].decides[i].impacts]
    BY <1>1 DEF Decided
<1> QED
    BY <1>1, <1>2, <1>3

\* The places of an order.
LEMMA OrderDomain ==
    ASSUME NEW order, UpstreamFirst(order)
    PROVE  /\ Len(order) \in Nat /\ DOMAIN order = 1 .. Len(order)
           /\ \A j \in DOMAIN order : order[j] \in Stages /\ j \in Nat
<1>1. order \in Seq(Stages)
    BY DEF UpstreamFirst
<1> QED
    BY <1>1, LenProperties, ElementOfSeq

\* id is that of a decision of a stage listed before position j.
KnownBefore(order, j, id) ==
    \E i \in DOMAIN order :
        /\ i < j
        /\ \E m \in DOMAIN decisions[order[i]] : decisions[order[i]][m].id = id

\* What a stage is given to know are decisions of stages listed before it.
LEMMA InputsKnown ==
    ASSUME ProfileFits, NEW order, Held(order)
    PROVE  \A j \in DOMAIN order : \A id \in input_ids[order[j]] : KnownBefore(order, j, id)
<1> DEFINE n == Len(order)
           P(j) == \A id \in input_ids[order[j]] : KnownBefore(order, j, id)
           S == {k \in 0 .. n : \A j \in DOMAIN order : j <= k => P(j)}
<1>1. /\ n \in Nat /\ DOMAIN order = 1 .. n /\ \A j \in DOMAIN order : order[j] \in Stages
      /\ UpstreamFirst(order) /\ LineageKept
    BY OrderDomain DEF Held
<1>2. 0 \in S
    BY <1>1
<1>3. ASSUME NEW k \in 1 .. n, k - 1 \in S
      PROVE  k \in S
    <2>1. ASSUME NEW id \in input_ids[order[k]]
          PROVE  KnownBefore(order, k, id)
        <3>1. order[k] \in Stages /\ k \in DOMAIN order
            BY <1>1
        <3>2. input_ids[order[k]] =
                  IF Begun(order[k]) THEN UNION {HandedOn(p) : p \in Predecessors(order[k])} ELSE {}
            BY <1>1, <3>1 DEF LineageKept
        <3>3. PICK p \in Predecessors(order[k]) : id \in HandedOn(p)
            BY <2>1, <3>2
        <3>4. PICK i \in DOMAIN order : i < k /\ order[i] = p
            BY <1>1, <3>1, <3>3 DEF UpstreamFirst
        <3>5. CASE \E m \in DOMAIN decisions[p] : decisions[p][m].id = id
            BY <3>4, <3>5 DEF KnownBefore
        <3>6. CASE id \in input_ids[p]
            <4>1. i <= k - 1
                BY <1>1, <3>4
            <4>2. KnownBefore(order, i, id)
                BY <1>3, <3>4, <3>6, <4>1
            <4>3. \A l \in DOMAIN order : l < i => l < k
                BY <1>1, <3>4
            <4> QED
                BY <4>2, <4>3 DEF KnownBefore
        <3> QED
            BY <3>3, <3>5, <3>6 DEF HandedOn
    <2>2. ASSUME NEW j \in DOMAIN order, j <= k
          PROVE  P(j)
        <3>1. CASE j = k
            BY <2>1, <3>1
        <3>2. CASE j # k
            <4>1. j <= k - 1
                BY <1>1, <2>2, <3>2
            <4> QED
                BY <1>3, <4>1
        <3> QED
            BY <3>1, <3>2
    <2>3. k \in 0 .. n
        OBVIOUS
    <2> QED
        BY <2>2, <2>3
<1>4. n \in 0 .. n /\ \A k \in 0 .. n : k \in S
    <2> HIDE DEF S, n
    <2> QED
        BY <1>1, <1>2, <1>3, CountUp
<1>5. n \in S
    BY <1>4
<1> QED
    BY <1>1, <1>5

\* A stage that is done hands an id on for each title it is meant to.
LEMMA TitlesHandedOn ==
    ASSUME ProfileFits, NEW order, Held(order)
    PROVE  \A j \in DOMAIN order : pc[order[j]] = "returned_true" =>
               \A title \in Profile[order[j]].hands_on :
                   \E id \in HandedOn(order[j]) : id[1] = title
<1> DEFINE n == Len(order)
           P(s) == pc[s] = "returned_true" =>
                       \A title \in Profile[s].hands_on : \E id \in HandedOn(s) : id[1] = title
           S == {k \in 0 .. n : \A j \in DOMAIN order : j <= k => P(order[j])}
<1>1. /\ n \in Nat /\ DOMAIN order = 1 .. n /\ \A j \in DOMAIN order : order[j] \in Stages
      /\ UpstreamFirst(order) /\ LineageKept
    BY OrderDomain DEF Held
<1>2. 0 \in S
    BY <1>1
<1>3. ASSUME NEW k \in 1 .. n, k - 1 \in S
      PROVE  k \in S
    <2> DEFINE s == order[k]
    <2>1. ASSUME NEW title \in Profile[s].hands_on, pc[s] = "returned_true"
          PROVE  \E id \in HandedOn(s) : id[1] = title
        <3>1. s \in Stages /\ k \in DOMAIN order
            BY <1>1
        <3>2. CASE OwnTitle(s, title)
            <4>1. PICK i \in DOMAIN Profile[s].decides : Profile[s].decides[i].title = title
                BY <3>2 DEF OwnTitle
            <4>2. i \in DOMAIN decisions[s]
                BY <1>1, <2>1, <3>1, <4>1, SettledDecisions DEF Settled
            <4>3. decisions[s][i].id = <<title, executions[s]>>
                BY <1>1, <3>1, <4>1, <4>2, DecisionFields
            <4>4. decisions[s][i].id \in HandedOn(s) /\ decisions[s][i].id[1] = title
                BY <2>1, <4>2, <4>3 DEF HandedOn
            <4> QED
                BY <4>4
        <3>3. CASE FromPredecessor(s, title)
            <4>1. PICK p \in Predecessors(s) : title \in Profile[p].hands_on
                BY <3>3 DEF FromPredecessor
            <4>2. PICK i \in DOMAIN order : i < k /\ order[i] = p
                BY <1>1, <3>1, <4>1 DEF UpstreamFirst
            <4>3. Begun(s) /\ pc[p] = "returned_true"
                BY <2>1, <3>1, <4>1 DEF Begun, Held, PredecessorsDone
            <4>4. i <= k - 1
                BY <1>1, <4>2
            <4>5. PICK id \in HandedOn(p) : id[1] = title
                BY <1>3, <4>1, <4>2, <4>3, <4>4
            <4>6. id \in input_ids[s]
                BY <1>1, <3>1, <4>1, <4>3 DEF LineageKept
            <4>7. id \in HandedOn(s)
                BY <2>1, <4>5, <4>6 DEF HandedOn
            <4> QED
                BY <4>5, <4>7
        <3> QED
            BY <2>1, <3>1, <3>2, <3>3 DEF ProfileFits, HandsOnFit
    <2>2. ASSUME NEW j \in DOMAIN order, j <= k
          PROVE  P(order[j])
        <3>1. CASE j = k
            BY <2>1, <3>1
        <3>2. CASE j # k
            <4>1. j <= k - 1
                BY <1>1, <2>2, <3>2
            <4> QED
                BY <1>3, <4>1
        <3> QED
            BY <3>1, <3>2
    <2>3. k \in 0 .. n
        OBVIOUS
    <2> QED
        BY <2>2, <2>3
<1>4. n \in 0 .. n /\ \A k \in 0 .. n : k \in S
    <2> HIDE DEF S, n
    <2> QED
        BY <1>1, <1>2, <1>3, CountUp
<1>5. n \in S
    BY <1>4
<1> QED
    BY <1>1, <1>5

\* None counts as an id.
LEMMA NoIdType == NoId \in Ids
<1>1. "none" \in Titles
    BY DEF Titles
<1> QED
    BY <1>1 DEF NoId, Ids

\* The id of a decision is one of the workflow's, and never None.
LEMMA IdType ==
    ASSUME ProfileFits, LineageKept, NEW s \in Stages, NEW i \in DOMAIN decisions[s]
    PROVE  /\ decisions[s][i].id \in Ids
           /\ decisions[s][i].id[1] = Profile[s].decides[i].title
           /\ decisions[s][i].id[1] # "none"
           /\ decisions[s][i].id # NoId
<1>1. /\ i \in DOMAIN Profile[s].decides
      /\ decisions[s][i].id = <<Profile[s].decides[i].title, executions[s]>>
    BY DecisionFields
<1>2. executions[s] \in Nat
    BY SettledDecisions
<1>3. Profile[s].decides[i].title \in Titles /\ Profile[s].decides[i].title # "none"
    BY <1>1, TextType
<1> QED
    BY <1>1, <1>2, <1>3 DEF Ids, NoId

\* A parent is a root's None, an earlier decision of the same context or one of
\* an earlier context.
LEMMA ParentKnown ==
    ASSUME ProfileFits, NEW order, Held(order), NEW k \in DOMAIN order,
           NEW i \in DOMAIN decisions[order[k]]
    PROVE  LET s == order[k]
               parent == decisions[s][i].parent
           IN  /\ parent \in Ids
               /\ parent = NoId <=> Profile[s].decides[i].parent = "none"
               /\ parent # NoId => \/ \E j \in DOMAIN decisions[s] :
                                          j < i /\ decisions[s][j].id = parent
                                   \/ KnownBefore(order, k, parent)
<1> DEFINE s == order[k]
           title == Profile[s].decides[i].parent
           parent == decisions[s][i].parent
           known == {id \in input_ids[s] : id[1] = title}
<1>1. s \in Stages /\ LineageKept /\ UpstreamFirst(order) /\ \A j \in DOMAIN order : j \in Nat
    BY OrderDomain DEF Held
<1>2. /\ Settled(s) /\ i \in DOMAIN Profile[s].decides
      /\ parent = ParentId(s, title, executions[s])
    BY <1>1, DecisionFields
<1>3. DOMAIN decisions[s] = DOMAIN Profile[s].decides /\ executions[s] \in Nat
    BY <1>1, <1>2, SettledDecisions
<1>4. ASSUME NEW id \in input_ids[s]
      PROVE  KnownBefore(order, k, id) /\ id \in Ids /\ id[1] # "none" /\ id # NoId
    <2>1. KnownBefore(order, k, id)
        BY InputsKnown
    <2>2. PICK j \in DOMAIN order :
              \E m \in DOMAIN decisions[order[j]] : decisions[order[j]][m].id = id
        BY <2>1 DEF KnownBefore
    <2>3. order[j] \in Stages
        BY <1>1, OrderDomain
    <2> QED
        BY <1>1, <2>1, <2>2, <2>3, IdType
<1>5. title \in Titles
    BY <1>1, <1>2, TextType
<1>6. CASE title = "none"
    <2>1. ~OwnTitle(s, title)
        BY <1>1, <1>6, TextType DEF OwnTitle
    <2>2. known = {}
        BY <1>4, <1>6
    <2>3. parent = NoId
        BY <1>2, <2>1, <2>2 DEF ParentId, OwnTitle
    <2>4. NoId \in Ids
        BY NoIdType
    <2> QED
        BY <1>6, <2>3, <2>4
<1>7. CASE title # "none" /\ \E j \in DOMAIN Profile[s].decides :
                                  j < i /\ Profile[s].decides[j].title = title
    <2>1. PICK j \in DOMAIN Profile[s].decides : j < i /\ Profile[s].decides[j].title = title
        BY <1>7
    <2>2. parent = <<title, executions[s]>>
        BY <1>2, <2>1 DEF ParentId
    <2>3. decisions[s][j].id = parent
        <3>1. decisions[s][j].id = <<Profile[s].decides[j].title, executions[s]>>
            BY <1>1, <1>3, <2>1, DecisionFields
        <3> HIDE DEF s, title, parent
        <3> QED
            BY <2>1, <2>2, <3>1
    <2>4. parent \in Ids /\ parent # NoId
        BY <1>1, <1>3, <2>1, <2>3, IdType
    <2> QED
        BY <1>3, <1>7, <2>1, <2>3, <2>4
<1>8. CASE /\ title # "none"
           /\ ~\E j \in DOMAIN Profile[s].decides :
                   j < i /\ Profile[s].decides[j].title = title
    <2>1. ~OwnTitle(s, title) /\ FromPredecessor(s, title)
        BY <1>1, <1>2, <1>8 DEF ProfileFits, ParentsFit
    <2>2. PICK p \in Predecessors(s) : title \in Profile[p].hands_on
        BY <2>1 DEF FromPredecessor
    <2>3. PICK j \in DOMAIN order : j < k /\ order[j] = p
        BY <1>1, <2>2 DEF UpstreamFirst
    <2>4. Begun(s) /\ pc[p] = "returned_true"
        BY <1>1, <1>2, <2>2 DEF Begun, Settled, Held, PredecessorsDone
    <2>5. PICK id \in HandedOn(p) : id[1] = title
        BY <2>2, <2>3, <2>4, TitlesHandedOn
    <2>6. id \in known
        BY <1>1, <2>2, <2>4, <2>5 DEF LineageKept
    <2>7. parent = CHOOSE x \in known : TRUE
        BY <1>2, <2>1, <2>6 DEF ParentId, OwnTitle
    <2>8. parent \in input_ids[s]
        BY <2>6, <2>7
    <2> QED
        BY <1>4, <1>8, <2>8
<1> QED
    BY <1>6, <1>7, <1>8

\* The rows of the list of all decisions.
Rows(order) == [i \in DOMAIN order |-> decisions[order[i]]]

\* The decisions, context by context, are sequences of decisions.
LEMMA RowsType ==
    ASSUME ProfileFits, NEW order, Held(order)
    PROVE  /\ Rows(order) \in Seq(Seq(DecisionRecord))
           /\ Len(Rows(order)) = Len(order)
           /\ \A i \in DOMAIN order : Rows(order)[i] = decisions[order[i]]
<1>1. /\ Len(order) \in Nat /\ DOMAIN order = 1 .. Len(order)
      /\ \A i \in DOMAIN order : order[i] \in Stages
      /\ LineageKept
    BY OrderDomain DEF Held
<1>2. ASSUME NEW k \in DOMAIN order
      PROVE  decisions[order[k]] \in Seq(DecisionRecord)
    <2> DEFINE s == order[k]
    <2>1. ASSUME NEW i \in DOMAIN decisions[s]
          PROVE  decisions[s][i] \in DecisionRecord
        <3>1. decisions[s][i].id \in Ids
            BY <1>1, <2>1, IdType
        <3>2. decisions[s][i].parent \in Ids
            BY <2>1, ParentKnown
        <3>3. /\ i \in DOMAIN Profile[s].decides
              /\ decisions[s][i].stage = s
              /\ decisions[s][i].impacts = Profile[s].decides[i].impacts
              /\ decisions[s][i] = [id      |-> decisions[s][i].id,
                                    parent  |-> decisions[s][i].parent,
                                    stage   |-> decisions[s][i].stage,
                                    impacts |-> decisions[s][i].impacts]
            BY <1>1, <2>1, DecisionFields
        <3>4. /\ decisions[s][i].stage \in Stages
              /\ decisions[s][i].impacts \in {d.impacts : d \in Texts}
            BY <1>1, <3>3, TextType
        <3> HIDE DEF s
        <3> QED
            BY <3>1, <3>2, <3>3, <3>4 DEF DecisionRecord
    <2>2. CASE Settled(s)
        <3>1. IsSequence(Profile[s].decides)
            BY <1>1 DEF ProfileFits
        <3>2. /\ Len(Profile[s].decides) \in Nat
              /\ DOMAIN Profile[s].decides = 1 .. Len(Profile[s].decides)
            BY <3>1, LenProperties DEF IsSequence
        <3>3. decisions[s] = Decided(s, executions[s])
            BY <1>1, <2>2 DEF LineageKept
        <3>4. decisions[s] = [i \in 1 .. Len(Profile[s].decides) |-> decisions[s][i]]
            BY <3>2, <3>3 DEF Decided
        <3>5. decisions[s] \in [1 .. Len(Profile[s].decides) -> DecisionRecord]
            <4>1. DOMAIN decisions[s] = 1 .. Len(Profile[s].decides)
                BY <3>4
            <4> HIDE DEF s
            <4> QED
                BY <2>1, <3>4, <4>1
        <3> QED
            BY <3>2, <3>5
    <2>3. CASE ~Settled(s)
        BY <1>1, <2>3 DEF LineageKept
    <2> QED
        BY <2>2, <2>3
<1>3. Rows(order) \in [1 .. Len(order) -> Seq(DecisionRecord)]
    BY <1>1, <1>2 DEF Rows
<1>4. \A i \in DOMAIN order : Rows(order)[i] = decisions[order[i]]
    BY DEF Rows
<1> QED
    BY <1>1, <1>3, <1>4, LenProperties

\* The list of all decisions and where each of them is from.
LEMMA DecisionsPlaced ==
    ASSUME ProfileFits, NEW order, Held(order)
    PROVE  /\ AllDecisions(order, decisions) \in Seq(DecisionRecord)
           /\ \E row, col :
                  Placed(Rows(order), Len(Rows(order)), AllDecisions(order, decisions), row, col)
<1>1. AllDecisions(order, decisions) = Flattened(Rows(order))
    BY DEF AllDecisions, Rows
<1> QED
    BY <1>1, RowsType, FlattenedPlaced

\* A place in the joined list is a decision of a context.
LEMMA RowsRange ==
    ASSUME ProfileFits, NEW order, Held(order), NEW list, NEW row, NEW col,
           Placed(Rows(order), Len(Rows(order)), list, row, col), NEW k \in DOMAIN list
    PROVE  /\ row[k] \in DOMAIN order
           /\ order[row[k]] \in Stages
           /\ col[k] \in DOMAIN decisions[order[row[k]]]
           /\ list[k] = decisions[order[row[k]]][col[k]]
<1>1. /\ DOMAIN order = 1 .. Len(order) /\ \A i \in DOMAIN order : order[i] \in Stages
      /\ UpstreamFirst(order)
    BY OrderDomain DEF Held
<1> QED
    BY <1>1, RowsType DEF Placed

\* Every decision of a listed stage has its place.
LEMMA PlaceOf ==
    ASSUME ProfileFits, NEW order, Held(order), NEW list, NEW row, NEW col,
           Placed(Rows(order), Len(Rows(order)), list, row, col),
           NEW i \in DOMAIN order, NEW j \in DOMAIN decisions[order[i]]
    PROVE  \E k \in DOMAIN list : row[k] = i /\ col[k] = j /\ list[k] = decisions[order[i]][j]
<1>1. DOMAIN order = 1 .. Len(order) /\ UpstreamFirst(order)
    BY OrderDomain DEF Held
<1>2. i \in 1 .. Len(Rows(order)) /\ j \in DOMAIN Rows(order)[i]
    BY <1>1, RowsType
<1>3. PICK k \in DOMAIN list : row[k] = i /\ col[k] = j
    BY <1>2 DEF Placed
<1> QED
    BY <1>3, RowsRange

\* All decisions of the stages in order, in that order, form a rooted list.
LEMMA DecisionsRooted ==
    ASSUME ProfileFits, NEW order, Held(order)
    PROVE  Rooted(AllDecisions(order, decisions))
<1> DEFINE list == AllDecisions(order, decisions)
<1>1. PICK row, col : Placed(Rows(order), Len(Rows(order)), list, row, col)
    BY DecisionsPlaced
<1>2. list \in Seq(DecisionRecord) /\ Rows(order) \in Seq(Seq(DecisionRecord))
    BY DecisionsPlaced, RowsType
<1>3. LineageKept /\ UpstreamFirst(order)
    BY DEF Held
<1> HIDE DEF list
<1>4. ASSUME NEW k \in DOMAIN list
      PROVE  /\ row[k] \in DOMAIN order
             /\ order[row[k]] \in Stages
             /\ col[k] \in DOMAIN decisions[order[row[k]]]
             /\ list[k] = decisions[order[row[k]]][col[k]]
    BY <1>1, RowsRange
<1>5. ASSUME NEW k \in DOMAIN list, NEW l \in DOMAIN list, list[k].id = list[l].id
      PROVE  k = l
    <2> DEFINE s == order[row[k]]
               t == order[row[l]]
    <2>1. /\ col[k] \in DOMAIN Profile[s].decides /\ col[l] \in DOMAIN Profile[t].decides
          /\ s \in Stages /\ t \in Stages
        BY <1>3, <1>4, DecisionFields
    <2>2. Profile[s].decides[col[k]].title = Profile[t].decides[col[l]].title
        <3>1. list[k].id[1] = Profile[s].decides[col[k]].title
            BY <1>3, <1>4, IdType
        <3>2. list[l].id[1] = Profile[t].decides[col[l]].title
            BY <1>3, <1>4, IdType
        <3> QED
            BY <1>5, <3>1, <3>2
    <2>3. s = t /\ col[k] = col[l]
        BY <2>1, <2>2 DEF ProfileFits, TitlesFit
    <2>4. row[k] = row[l]
        BY <1>3, <1>4, <2>3 DEF UpstreamFirst
    <2> QED
        BY <1>1, <1>2, <2>3, <2>4, PlacedOnce
<1>6. ASSUME NEW k \in DOMAIN list
      PROVE  list[k].id # NoId
    BY <1>3, <1>4, IdType
<1>7. ASSUME NEW k \in DOMAIN list, list[k].parent # NoId
      PROVE  \E j \in DOMAIN list : j < k /\ list[j].id = list[k].parent
    <2> DEFINE s == order[row[k]]
    <2>1. \/ \E j \in DOMAIN decisions[s] : j < col[k] /\ decisions[s][j].id = list[k].parent
          \/ KnownBefore(order, row[k], list[k].parent)
        BY <1>4, <1>7, ParentKnown
    <2>2. CASE \E j \in DOMAIN decisions[s] : j < col[k] /\ decisions[s][j].id = list[k].parent
        <3>1. PICK j \in DOMAIN decisions[s] : j < col[k] /\ decisions[s][j].id = list[k].parent
            BY <2>2
        <3>2. PICK l \in DOMAIN list : row[l] = row[k] /\ col[l] = j /\ list[l] = decisions[s][j]
            BY <1>1, <1>4, PlaceOf
        <3>3. l < k
            BY <1>1, <1>2, <3>1, <3>2, PlacedOnce
        <3> QED
            BY <3>1, <3>2, <3>3
    <2>3. CASE KnownBefore(order, row[k], list[k].parent)
        <3>1. PICK i \in DOMAIN order :
                  /\ i < row[k]
                  /\ \E m \in DOMAIN decisions[order[i]] :
                         decisions[order[i]][m].id = list[k].parent
            BY <2>3 DEF KnownBefore
        <3>2. PICK m \in DOMAIN decisions[order[i]] :
                  decisions[order[i]][m].id = list[k].parent
            BY <3>1
        <3>3. PICK l \in DOMAIN list : row[l] = i /\ list[l] = decisions[order[i]][m]
            BY <1>1, PlaceOf
        <3>4. l < k
            BY <1>1, <1>2, <3>1, <3>3, PlacedOnce
        <3> QED
            BY <3>2, <3>3, <3>4
    <2> QED
        BY <2>1, <2>2, <2>3
<1>8. Rooted(list)
    BY <1>5, <1>6, <1>7 DEF Rooted
<1> QED
    BY <1>8 DEF list

\* Ids and decisions fit together.
LEMMA IdsRecorded == Recorded(DecisionRecord, Ids)
BY NoIdType DEF Recorded, DecisionRecord

-----------------------------------------------------------------------------
(* The lineage of a state of the invariant.                                *)

\* What a stage that has begun is based on has completed and handed its output on.
LEMMA DoneBehind ==
    ASSUME ReplanInvariant, NoFallback, NEW s \in Stages, Begun(s), NEW p \in Predecessors(s)
    PROVE  /\ p \in Stages
           /\ pc[p] = "returned_true"
           /\ stages[p].status = "completed"
           /\ stages[s].input_data[p] = "produced"
<1>1. p \in Stages
    BY DEF Predecessors
<1>2. stages[s].status \notin {"absent", "blocked"}
    BY DEF ReplanInvariant, Aftermath, StatusFits, StatusAt, Begun, ReplanTypeOK, StateTypeOK,
           Awaiting, Returned
<1>3. OutputOf(p) # "absent" /\ stages[s].input_data[p] = OutputOf(p)
    BY <1>2 DEF ReplanInvariant, Aftermath, NoStaleInput
<1>4. stages[p].status # "skipped" /\ ~stages[p].fallback_used
    BY <1>1 DEF NoFallback
<1>5. stages[p].status = "completed" /\ OutputOf(p) = "produced"
    BY <1>3, <1>4 DEF OutputOf
<1>6. SuccessFollows(pc[p], stages[p])
    BY <1>1 DEF ReplanInvariant, Aftermath, Traced, TraceFollows
<1> QED
    BY <1>1, <1>3, <1>5, <1>6 DEF SuccessFollows

\* The contexts of the state are a list that the lemmas on lineage are about.
LEMMA HeldStages ==
    ASSUME ScenarioInvariant
    PROVE  /\ Held(stage_order)
           /\ \A s \in Stages : Begun(s) => \E j \in DOMAIN stage_order : stage_order[j] = s
<1>1. PredecessorsDone
    BY DoneBehind DEF ScenarioInvariant, PredecessorsDone
<1>2. UpstreamFirst(stage_order) /\ LineageKept
    BY DEF ScenarioInvariant, OrderKept
<1>3. \A j \in DOMAIN stage_order : Begun(stage_order[j])
    BY <1>2, OrderDomain DEF ScenarioInvariant, OrderKept, Listed
<1>4. \A s \in Stages : Begun(s) => \E j \in DOMAIN stage_order : stage_order[j] = s
    BY DEF ScenarioInvariant, OrderKept, Listed
<1> QED
    BY <1>1, <1>2, <1>3, <1>4 DEF Held

\* The contexts whose output the ExecutionContext holds.
RecordedOrder == Without(stage_order, {s \in Stages : stage_outputs[s] = "absent"})

\* The stages that the ExecutionContext records, with all they are based on.
LEMMA HeldRecorded ==
    ASSUME ScenarioInvariant
    PROVE  /\ Held(RecordedOrder)
           /\ \A s \in Stages : stage_outputs[s] # "absent" =>
                  \E j \in DOMAIN RecordedOrder : RecordedOrder[j] = s
           /\ \A j \in DOMAIN RecordedOrder : Listed(stage_order, RecordedOrder[j])
<1> DEFINE left == RecordedOrder
           none == {s \in Stages : stage_outputs[s] = "absent"}
<1>1. \A s \in Stages : /\ stage_outputs[s] # "absent" <=> pc[s] = "returned_true"
                        /\ Listed(stage_order, s) <=> Begun(s)
    BY DEF ScenarioInvariant, NoFallback, OrderKept
<1>2. ASSUME NEW s \in Stages \ none, Listed(stage_order, s)
      PROVE  Predecessors(s) \cap none = {}
    BY <1>1, <1>2, DoneBehind DEF ScenarioInvariant
<1>3. /\ UpstreamFirst(left)
      /\ \A s \in Stages : Listed(left, s) <=> Listed(stage_order, s) /\ s \notin none
    <2>1. UpstreamFirst(stage_order)
        BY DEF ScenarioInvariant, OrderKept
    <2> HIDE DEF none
    <2>2. /\ UpstreamFirst(Without(stage_order, none))
          /\ \A s \in Stages : Listed(Without(stage_order, none), s)
                                   <=> Listed(stage_order, s) /\ s \notin none
        BY <1>2, <2>1, WithoutUpstreamFirst
    <2> QED
        BY <2>2 DEF RecordedOrder, none
<1>4. ASSUME NEW j \in DOMAIN left
      PROVE  Listed(stage_order, left[j]) /\ Begun(left[j])
    <2>1. left[j] \in Stages /\ Listed(left, left[j])
        BY <1>3, OrderDomain DEF Listed
    <2> QED
        BY <1>1, <1>3, <2>1
<1>5. ASSUME NEW s \in Stages, stage_outputs[s] # "absent"
      PROVE  \E j \in DOMAIN left : left[j] = s
    <2>1. Begun(s) /\ s \notin none
        BY <1>1, <1>5 DEF Begun
    <2>2. Listed(left, s)
        BY <1>1, <1>3, <2>1
    <2> QED
        BY <2>2 DEF Listed
<1>6. PredecessorsDone /\ LineageKept
    BY HeldStages DEF Held
<1> QED
    BY <1>3, <1>4, <1>5, <1>6 DEF Held

\* What the ExecutionContext knows, the state knows.
LEMMA ContextWithin ==
    ASSUME ProfileFits, ScenarioInvariant
    PROVE  Within(AllDecisions(RecordedOrder, decisions), AllDecisions(stage_order, decisions))
<1> DEFINE part == AllDecisions(RecordedOrder, decisions)
           whole == AllDecisions(stage_order, decisions)
<1>1. PICK row, col : Placed(Rows(RecordedOrder), Len(Rows(RecordedOrder)), part, row, col)
    BY HeldRecorded, DecisionsPlaced
<1>2. PICK r, c : Placed(Rows(stage_order), Len(Rows(stage_order)), whole, r, c)
    BY HeldStages, DecisionsPlaced
<1> HIDE DEF part, whole
<1>3. ASSUME NEW k \in DOMAIN part
      PROVE  \E l \in DOMAIN whole : whole[l] = part[k]
    <2> DEFINE s == RecordedOrder[row[k]]
    <2>1. /\ row[k] \in DOMAIN RecordedOrder
          /\ col[k] \in DOMAIN decisions[s]
          /\ part[k] = decisions[s][col[k]]
        BY <1>1, HeldRecorded, RowsRange
    <2>2. PICK i \in DOMAIN stage_order : stage_order[i] = s
        BY <2>1, HeldRecorded DEF Listed
    <2>3. PICK l \in DOMAIN whole : whole[l] = decisions[stage_order[i]][col[k]]
        BY <1>2, <2>1, <2>2, HeldStages, PlaceOf
    <2> QED
        BY <2>1, <2>2, <2>3
<1> QED
    BY <1>3 DEF Within, part, whole

LEMMA LineageOfInvariant ==
    ASSUME ProfileFits, ScenarioInvariant
    PROVE  LineageClosed
<1> DEFINE held == AllDecisions(stage_order, decisions)
<1>1. Held(stage_order) /\ LineageKept /\ UpstreamFirst(stage_order)
    BY HeldStages DEF Held
<1>2. PICK row, col : Placed(Rows(stage_order), Len(Rows(stage_order)), held, row, col)
    BY <1>1, DecisionsPlaced
<1>3. held \in Seq(DecisionRecord) /\ Rooted(held)
    BY <1>1, DecisionsPlaced, DecisionsRooted
<1>4. Len(held) \in Nat /\ DOMAIN held = 1 .. Len(held)
    BY <1>3, LenProperties
<1> HIDE DEF held
<1>5. ASSUME NEW s \in Stages, NEW id \in input_ids[s]
      PROVE  DecisionById(held, id) # <<>>
    <2>1. Begun(s)
        BY <1>1, <1>5 DEF LineageKept
    <2>2. PICK j \in DOMAIN stage_order : stage_order[j] = s
        BY <2>1, HeldStages
    <2>3. KnownBefore(stage_order, j, id)
        BY <1>1, <1>5, <2>2, InputsKnown
    <2>4. PICK i \in DOMAIN stage_order :
              \E m \in DOMAIN decisions[stage_order[i]] : decisions[stage_order[i]][m].id = id
        BY <2>3 DEF KnownBefore
    <2>5. PICK m \in DOMAIN decisions[stage_order[i]] : decisions[stage_order[i]][m].id = id
        BY <2>4
    <2>6. PICK k \in DOMAIN held : held[k] = decisions[stage_order[i]][m]
        BY <1>1, <1>2, PlaceOf
    <2>7. held[k].id = id
        BY <2>5, <2>6
    <2>8. PICK l \in DOMAIN held : DecisionById(held, id) = <<held[l]>>
        BY <1>4, <2>7, DecisionFound
    <2> QED
        BY <2>8
<1>6. ASSUME NEW s \in Stages, NEW i \in DOMAIN decisions[s]
      PROVE  LET chain == TraceDecisionLineage(held, decisions[s][i].id) IN
             /\ chain[1].parent = NoId
             /\ decisions[s][i].parent = NoId <=> Profile[s].decides[i].parent = "none"
             /\ stage_outputs[s] # "absent" =>
                    GetDecisionLineage(ContextDecisions, decisions[s][i].id) = chain
    <2>1. Begun(s)
        BY <1>1, <1>6, DecisionFields DEF Settled, Begun
    <2>2. PICK j \in DOMAIN stage_order : stage_order[j] = s
        BY <2>1, HeldStages
    <2>3. PICK k \in DOMAIN held : held[k] = decisions[s][i]
        BY <1>1, <1>2, <1>6, <2>2, PlaceOf
    <2>4. TraceDecisionLineage(held, held[k].id)[1].parent = NoId
        BY <1>3, IdsRecorded, TraceRooted
    <2>5. decisions[s][i].parent = NoId <=> Profile[s].decides[i].parent = "none"
        BY <1>1, <1>6, <2>2, ParentKnown
    <2>6. ASSUME stage_outputs[s] # "absent"
          PROVE  GetDecisionLineage(ContextDecisions, decisions[s][i].id)
                     = TraceDecisionLineage(held, decisions[s][i].id)
        <3> DEFINE part == AllDecisions(RecordedOrder, decisions)
        <3>1. Held(RecordedOrder)
            BY HeldRecorded
        <3>2. PICK r, c : Placed(Rows(RecordedOrder), Len(Rows(RecordedOrder)), part, r, c)
            BY <3>1, DecisionsPlaced
        <3>3. part \in Seq(DecisionRecord) /\ Rooted(part) /\ Within(part, held)
            BY <3>1, DecisionsPlaced, DecisionsRooted, ContextWithin DEF held
        <3>4. ContextDecisions = part
            BY DEF ContextDecisions, RecordedOrder
        <3> HIDE DEF part
        <3>5. PICK m \in DOMAIN RecordedOrder : RecordedOrder[m] = s
            BY <2>6, HeldRecorded
        <3>6. PICK l \in DOMAIN part : part[l] = decisions[s][i]
            BY <1>6, <3>1, <3>2, <3>5, PlaceOf
        <3>7. GetDecisionLineage(part, part[l].id) = TraceDecisionLineage(held, part[l].id)
            BY <1>3, <3>3, IdsRecorded, TracesAgree
        <3> QED
            BY <3>4, <3>6, <3>7
    <2> QED
        BY <2>3, <2>4, <2>5, <2>6
<1> QED
    BY <1>5, <1>6 DEF LineageClosed, held

\* Whatever a listed stage is based on is done and listed before it.
LEMMA AncestorsListed ==
    ASSUME NEW order, Held(order)
    PROVE  \A j \in DOMAIN order : \A u \in Ancestors[order[j]] :
               \E i \in DOMAIN order : i < j /\ order[i] = u /\ pc[u] = "returned_true"
<1> DEFINE n == Len(order)
           P(j) == \A u \in Ancestors[order[j]] :
                       \E i \in DOMAIN order : i < j /\ order[i] = u /\ pc[u] = "returned_true"
           S == {k \in 0 .. n : \A j \in DOMAIN order : j <= k => P(j)}
<1>1. /\ n \in Nat /\ DOMAIN order = 1 .. n /\ \A j \in DOMAIN order : order[j] \in Stages
      /\ UpstreamFirst(order) /\ PredecessorsDone /\ \A j \in DOMAIN order : Begun(order[j])
    BY OrderDomain DEF Held
<1>2. 0 \in S
    BY <1>1
<1>3. ASSUME NEW k \in 1 .. n, k - 1 \in S
      PROVE  k \in S
    <2>1. ASSUME NEW u \in Ancestors[order[k]]
          PROVE  \E i \in DOMAIN order : i < k /\ order[i] = u /\ pc[u] = "returned_true"
        <3>1. order[k] \in Stages /\ k \in DOMAIN order
            BY <1>1
        <3>2. \/ u \in Predecessors(order[k])
              \/ \E p \in Predecessors(order[k]) : u \in Ancestors[p]
            BY <2>1, <3>1, AncestorsRecursion
        <3>3. CASE u \in Predecessors(order[k])
            BY <1>1, <3>1, <3>3 DEF UpstreamFirst, PredecessorsDone
        <3>4. CASE \E p \in Predecessors(order[k]) : u \in Ancestors[p]
            <4>1. PICK p \in Predecessors(order[k]) : u \in Ancestors[p]
                BY <3>4
            <4>2. PICK j \in DOMAIN order : j < k /\ order[j] = p
                BY <1>1, <3>1, <4>1 DEF UpstreamFirst
            <4>3. j <= k - 1
                BY <1>1, <4>2
            <4>4. PICK i \in DOMAIN order : i < j /\ order[i] = u /\ pc[u] = "returned_true"
                BY <1>3, <4>1, <4>2, <4>3
            <4>5. i < k
                BY <1>1, <4>2, <4>4
            <4> QED
                BY <4>4, <4>5
        <3> QED
            BY <3>2, <3>3, <3>4
    <2>2. ASSUME NEW j \in DOMAIN order, j <= k
          PROVE  P(j)
        <3>1. CASE j = k
            BY <2>1, <3>1
        <3>2. CASE j # k
            <4>1. j <= k - 1
                BY <1>1, <2>2, <3>2
            <4> QED
                BY <1>3, <4>1
        <3> QED
            BY <3>1, <3>2
    <2>3. k \in 0 .. n
        OBVIOUS
    <2> QED
        BY <2>2, <2>3
<1>4. n \in 0 .. n /\ \A k \in 0 .. n : k \in S
    <2> HIDE DEF S, n
    <2> QED
        BY <1>1, <1>2, <1>3, CountUp
<1>5. n \in S
    BY <1>4
<1> QED
    BY <1>1, <1>5

LEMMA DriverOfInvariant ==
    ASSUME ProfileFits, ScenarioInvariant
    PROVE  DriverPrecedes
<1> DEFINE held == AllDecisions(stage_order, decisions)
<1>1. /\ Held(stage_order) /\ LineageKept
      /\ \A j \in DOMAIN stage_order : stage_order[j] \in Stages
    BY HeldStages, OrderDomain DEF Held
<1>2. PICK row, col : Placed(Rows(stage_order), Len(Rows(stage_order)), held, row, col)
    BY <1>1, DecisionsPlaced
<1>3. held \in Seq(DecisionRecord) /\ Rows(stage_order) \in Seq(Seq(DecisionRecord))
    BY <1>1, DecisionsPlaced, RowsType
<1>4. Len(held) \in Nat /\ DOMAIN held = 1 .. Len(held)
    BY <1>3, LenProperties
<1> HIDE DEF held
<1>5. ASSUME NEW s \in Stages, NEW i \in DOMAIN DecisionForTransition(held, s)
      PROVE  s \in ReachableFrom(DecisionForTransition(held, s)[i].stage)
    <2>1. PICK k \in DOMAIN held :
              /\ DecisionForTransition(held, s)[i] = held[k]
              /\ s \in held[k].impacts
              /\ \A j \in DOMAIN held : s \in held[j].impacts => k <= j
        BY <1>4, DriverFound
    <2> DEFINE q == stage_order[row[k]]
    <2>2. /\ row[k] \in DOMAIN stage_order
          /\ q \in Stages
          /\ col[k] \in DOMAIN decisions[q]
          /\ held[k] = decisions[q][col[k]]
        BY <1>1, <1>2, RowsRange
    <2>3. /\ held[k].stage = q
          /\ col[k] \in DOMAIN Profile[q].decides
          /\ s \in Profile[q].decides[col[k]].impacts
        <3>1. /\ decisions[q][col[k]].stage = q
              /\ col[k] \in DOMAIN Profile[q].decides
              /\ decisions[q][col[k]].impacts = Profile[q].decides[col[k]].impacts
            BY <1>1, <2>2, DecisionFields
        <3> HIDE DEF q
        <3> QED
            BY <2>1, <2>2, <3>1
    <2>4. Names(q, s)
        BY <2>3 DEF Names
    <2>5. CASE s \in ReachableFrom(q)
        BY <2>1, <2>3, <2>5
    <2>6. CASE \E u \in Ancestors[q] \cap Stages : Names(u, s)
        <3>1. PICK u \in Ancestors[q] \cap Stages : Names(u, s)
            BY <2>6
        <3>2. PICK j \in DOMAIN stage_order :
                  j < row[k] /\ stage_order[j] = u /\ pc[u] = "returned_true"
            BY <1>1, <2>2, <3>1, AncestorsListed
        <3>3. PICK m \in DOMAIN Profile[u].decides : s \in Profile[u].decides[m].impacts
            BY <3>1 DEF Names
        <3>4. m \in DOMAIN decisions[u]
            BY <1>1, <3>1, <3>2, <3>3, SettledDecisions DEF Settled
        <3>5. decisions[u][m].impacts = Profile[u].decides[m].impacts
            BY <1>1, <3>1, <3>4, DecisionFields
        <3>6. PICK l \in DOMAIN held : row[l] = j /\ held[l] = decisions[u][m]
            BY <1>1, <1>2, <3>2, <3>4, PlaceOf
        <3>7. l < k
            BY <1>2, <1>3, <3>2, <3>6, PlacedOnce
        <3>8. k <= l
            BY <2>1, <3>3, <3>5, <3>6
        <3> QED
            BY <1>4, <3>7, <3>8
    <2> QED
        BY <2>2, <2>4, <2>5, <2>6 DEF ProfileFits, DriversFit
<1> QED
    BY <1>5 DEF DriverPrecedes, held

-----------------------------------------------------------------------------
(* A step of a scenario is one of a replanned run.                         *)

\* A step of a stage is one of the engine's.
LEMMA ScenarioReplans ==
    ASSUME NEW s \in Stages, ScenarioStep(s)
    PROVE  StageStep(s)
<1>1. CASE BeginStage(s)
    BY <1>1 DEF BeginStage, StageStep
<1>2. CASE EntryGate(s)
    BY <1>2 DEF EntryGate, StageStep, LeaveEntryGate
<1>3. CASE (Approve(s) \/ Reject(s)) /\ UNCHANGED lineageVars
    BY <1>3 DEF StageStep
<1>4. CASE Execute(s)
    BY <1>4 DEF Execute, StageStep
<1>5. CASE ExitGate(s)
    BY <1>5 DEF ExitGate, StageStep
<1> QED
    BY <1>1, <1>2, <1>3, <1>4, <1>5 DEF ScenarioStep

\* A step of the scenario is one of Replanning.
LEMMA ScenarioIsReplan == [ScenarioNext]_scenarioVars => [ReplanNext]_allVars
<1> SUFFICES ASSUME [ScenarioNext]_scenarioVars
             PROVE  [ReplanNext]_allVars
    OBVIOUS
<1>1. CASE EngineStep /\ UNCHANGED <<replanVars, lineageVars>>
    BY <1>1 DEF ReplanNext, RunStep
<1>2. CASE \E s \in Stages : ScenarioStep(s) /\ UNCHANGED replanVars
    BY <1>2, ScenarioReplans DEF ReplanNext, RunStep
<1>3. CASE ReplanStep /\ UNCHANGED lineageVars
    BY <1>3 DEF ReplanNext
<1>4. CASE \E origin \in Stages \cup {Requirement} :
               (ReplanSkipped(origin) /\ UNCHANGED lineageVars) \/ StartScenarioReplan(origin)
    BY <1>4 DEF ReplanNext, Replan, StartScenarioReplan
<1>5. CASE Stopped /\ UNCHANGED lineageVars
    BY <1>5 DEF ReplanNext
<1>6. CASE UNCHANGED scenarioVars
    BY <1>6 DEF scenarioVars
<1> QED
    BY <1>1, <1>2, <1>3, <1>4, <1>5, <1>6 DEF ScenarioNext

-----------------------------------------------------------------------------
(* The invariant is inductive.                                             *)

LEMMA ScenarioInvariantInit == ScenarioInit => ScenarioInvariant
<1> SUFFICES ASSUME ScenarioInit
             PROVE  ScenarioInvariant
    OBVIOUS
<1>1. ReplanInvariant
    BY ReplanInvariantInit DEF ScenarioInit
<1>2. NoFallback
    BY DEF ScenarioInit, ReplanInit, Init, NoFallback, NoContext
<1>3. OrderKept
    <2>1. stage_order = <<>> /\ \A s \in Stages : pc[s] = "idle"
        BY DEF ScenarioInit, ReplanInit, Init
    <2>2. stage_order \in Seq(Stages) /\ DOMAIN stage_order = {}
        BY <2>1
    <2> QED
        BY <2>1, <2>2 DEF OrderKept, UpstreamFirst, Listed, Begun
<1>4. LineageKept
    <2>1. \A s \in Stages : ~Settled(s) /\ ~Begun(s)
        BY DEF ScenarioInit, ReplanInit, Init, Settled, Begun
    <2> QED
        BY <2>1 DEF ScenarioInit, LineageKept
<1> QED
    BY <1>1, <1>2, <1>3, <1>4 DEF ScenarioInvariant

\* A step that begins and settles no stage leaves the lineage as it was.
LEMMA LineageStays ==
    ASSUME ScenarioInvariant, UNCHANGED lineageVars,
           \A s \in Stages : (Begun(s)' <=> Begun(s)) /\ (Settled(s)' <=> Settled(s))
    PROVE  OrderKept' /\ LineageKept'
<1>1. OrderKept'
    BY DEF ScenarioInvariant, OrderKept, UpstreamFirst, Listed, lineageVars, Predecessors
<1>2. \A s \in Stages : HandedOn(s)' = HandedOn(s)
    BY DEF HandedOn, lineageVars
<1>3. \A s \in Stages : Decided(s, executions[s])' = Decided(s, executions[s])
    BY DEF Decided, ParentId, lineageVars
<1>4. (executions \in [Stages -> Nat])'
    BY DEF ScenarioInvariant, LineageKept, lineageVars
<1>5. decisions' = [s \in Stages |->
                        IF Settled(s)' THEN Decided(s, executions[s])' ELSE <<>>]
    BY <1>3 DEF ScenarioInvariant, LineageKept, lineageVars
<1>6. input_ids' = [s \in Stages |->
                        IF Begun(s)' THEN UNION {HandedOn(p)' : p \in Predecessors(s)} ELSE {}]
    <2>1. input_ids' = [s \in Stages |->
                            IF Begun(s) THEN UNION {HandedOn(p) : p \in Predecessors(s)} ELSE {}]
        BY DEF ScenarioInvariant, LineageKept, lineageVars
    <2>2. \A s \in Stages : {HandedOn(p)' : p \in Predecessors(s)}
                                = {HandedOn(p) : p \in Predecessors(s)}
        BY <1>2 DEF Predecessors
    <2> QED
        BY <2>1, <2>2
<1> QED
    BY <1>1, <1>4, <1>5, <1>6 DEF LineageKept

\* A stage is completed exactly when its coroutine has returned True.
LEMMA CompletedReturned ==
    ASSUME ReplanInvariant, NoFallback, NEW s \in Stages
    PROVE  stages[s].status = "completed" <=> pc[s] = "returned_true"
<1>1. SuccessFollows(pc[s], stages[s]) /\ StatusFits(s)
    BY DEF ReplanInvariant, Aftermath, Traced, TraceFollows
<1>2. stages[s].status # "skipped"
    BY DEF NoFallback
<1> QED
    BY <1>1, <1>2 DEF SuccessFollows, StatusFits, StatusAt

\* A stage begins: its context comes behind those of its predecessors, and it
\* takes over the ids that they hand on.
LEMMA BeginStageKeeps ==
    ASSUME ScenarioInvariant, NEW s \in Stages, BeginStage(s)
    PROVE  NoFallback' /\ OrderKept' /\ LineageKept'
<1>1. /\ pc[s] = "created" /\ pc' = [pc EXCEPT ![s] = "entry_gate"]
      /\ stages' = [stages EXCEPT ![s] = NewContext(s)]
      /\ stage_outputs' = stage_outputs
      /\ stage_order' = Append(stage_order, s)
      /\ input_ids' = [input_ids EXCEPT ![s] = UNION {HandedOn(p) : p \in Predecessors(s)}]
      /\ executions' = executions /\ decisions' = decisions
    BY DEF BeginStage, Begin, StepTo, OnlyStage, contextVars
<1>2. /\ pc \in [Stages -> {"idle"} \cup Awaiting \cup Returned]
      /\ stages \in [Stages -> StageContext]
    BY DEF ScenarioInvariant, ReplanInvariant, ReplanTypeOK, StateTypeOK
<1>3. \A t \in Stages : /\ Begun(t)' <=> Begun(t) \/ t = s
                        /\ Settled(t)' <=> Settled(t)
                        /\ pc'[t] = "returned_true" <=> pc[t] = "returned_true"
    BY <1>1, <1>2 DEF Begun, Settled
<1>4. ~Begun(s) /\ \A p \in Predecessors(s) : p \in Stages /\ pc[p] = "returned_true"
    BY <1>1 DEF Begun, ScenarioInvariant, ReplanInvariant, Aftermath, RoundKept, Predecessors
<1>5. NoFallback'
    <2>1. NewContext(s).status = "awaiting_gate" /\ NewContext(s).fallback_used = FALSE
        BY DEF NewContext, NoContext
    <2> QED
        BY <1>1, <1>2, <1>3, <2>1 DEF ScenarioInvariant, NoFallback
<1>6. OrderKept'
    <2>1. \A p \in Predecessors(s) : Listed(stage_order, p)
        BY <1>4 DEF ScenarioInvariant, OrderKept, Begun
    <2>2. ~Listed(stage_order, s) /\ UpstreamFirst(stage_order)
        BY <1>4 DEF ScenarioInvariant, OrderKept
    <2>3. /\ UpstreamFirst(stage_order')
          /\ \A t \in Stages : Listed(stage_order', t) <=> Listed(stage_order, t) \/ t = s
        BY <1>1, <2>1, <2>2, AppendUpstreamFirst
    <2>4. UpstreamFirst(stage_order)' /\ \A t \in Stages : Listed(stage_order, t)' <=> Begun(t)'
        BY <1>3, <2>3 DEF ScenarioInvariant, OrderKept, UpstreamFirst, Listed, Predecessors
    <2> QED
        BY <2>4 DEF OrderKept
<1>7. LineageKept'
    <2>1. /\ executions \in [Stages -> Nat]
          /\ decisions = [t \in Stages |->
                              IF Settled(t) THEN Decided(t, executions[t]) ELSE <<>>]
          /\ input_ids = [t \in Stages |->
                 IF Begun(t) THEN UNION {HandedOn(p) : p \in Predecessors(t)} ELSE {}]
        BY DEF ScenarioInvariant, LineageKept
    <2>2. \A t \in Stages \ {s} : input_ids'[t] = input_ids[t] /\ HandedOn(t)' = HandedOn(t)
        BY <1>1, <2>1 DEF HandedOn
    <2>3. ~Settled(s)
        BY <1>1 DEF Settled
    <2>4. ASSUME NEW t \in Stages, Settled(t)
          PROVE  Decided(t, executions[t])' = Decided(t, executions[t])
        <3>1. executions'[t] = executions[t] /\ input_ids'[t] = input_ids[t]
            BY <1>1, <2>2, <2>3, <2>4
        <3>2. \A title : ParentId(t, title, executions[t])' = ParentId(t, title, executions[t])
            BY <3>1 DEF ParentId
        <3> QED
            BY <3>1, <3>2 DEF Decided
    <2>5. decisions' = [t \in Stages |->
                            IF Settled(t)' THEN Decided(t, executions[t])' ELSE <<>>]
        BY <1>1, <1>3, <2>1, <2>4
    <2>6. ASSUME NEW t \in Stages, Begun(t)'
          PROVE  input_ids'[t] = UNION {HandedOn(p)' : p \in Predecessors(t)}
        <3>1. \A p \in Predecessors(t) : p \in Stages \ {s}
            <4>1. CASE t = s
                BY <4>1, NotOwnPredecessor DEF Predecessors
            <4>2. CASE t # s
                <5>1. Begun(t)
                    BY <1>3, <2>6, <4>2
                <5>2. \A p \in Predecessors(t) : p \in Stages /\ pc[p] = "returned_true"
                    BY <5>1, DoneBehind DEF ScenarioInvariant
                <5> QED
                    BY <1>1, <5>2
            <4> QED
                BY <4>1, <4>2
        <3>2. {HandedOn(p)' : p \in Predecessors(t)} = {HandedOn(p) : p \in Predecessors(t)}
            BY <2>2, <3>1
        <3>3. input_ids'[t] = UNION {HandedOn(p) : p \in Predecessors(t)}
            <4>1. CASE t = s
                BY <1>1, <2>1, <4>1
            <4>2. CASE t # s
                BY <1>3, <2>1, <2>2, <2>6, <4>2
            <4> QED
                BY <4>1, <4>2
        <3> QED
            BY <3>2, <3>3
    <2>7. ASSUME NEW t \in Stages, ~Begun(t)'
          PROVE  input_ids'[t] = {}
        BY <1>3, <2>1, <2>2, <2>7
    <2>8. input_ids' = [t \in Stages |->
              IF Begun(t)' THEN UNION {HandedOn(p)' : p \in Predecessors(t)} ELSE {}]
        <3>1. input_ids' = [t \in Stages |-> input_ids'[t]]
            BY <1>1, <2>1
        <3> QED
            BY <2>6, <2>7, <3>1
    <2>9. (executions \in [Stages -> Nat])'
        BY <1>1, <2>1
    <2> QED
        BY <2>5, <2>8, <2>9 DEF LineageKept
<1> QED
    BY <1>5, <1>6, <1>7

\* The gates in front of execute() are passed or not.
LEMMA GateKeeps ==
    ASSUME ScenarioInvariant, NEW s \in Stages, UNCHANGED lineageVars,
           EntryGateFails(s) \/ BlockByPolicy(s) \/ RequestApproval(s) \/ StartUnapproved(s)
           \/ Approve(s) \/ Reject(s)
    PROVE  NoFallback' /\ OrderKept' /\ LineageKept'
<1>1. /\ pc \in [Stages -> {"idle"} \cup Awaiting \cup Returned]
      /\ stages \in [Stages -> StageContext]
    BY DEF ScenarioInvariant, ReplanInvariant, ReplanTypeOK, StateTypeOK
<1>2. PICK at \in {"returned_false", "approval", "execute"},
           st \in {"failed", "awaiting_approval", "in_progress"} :
          /\ pc[s] \in {"entry_gate", "approval"}
          /\ pc' = [pc EXCEPT ![s] = at]
          /\ \/ stages' = [stages EXCEPT ![s] = AsFailed(stages[s])]
             \/ stages' = [stages EXCEPT ![s] = [stages[s] EXCEPT !.status = st]]
          /\ stage_outputs' = stage_outputs
    <2>1. CASE EntryGateFails(s)
        BY <2>1 DEF EntryGateFails, StepTo, OnlyStage, contextVars
    <2>2. CASE BlockByPolicy(s)
        BY <2>2 DEF BlockByPolicy, PolicyDecides, PassEntryGate, StepTo, contextVars
    <2>3. CASE RequestApproval(s)
        BY <2>3 DEF RequestApproval, PolicyDecides, PassEntryGate, StepTo, contextVars
    <2>4. CASE StartUnapproved(s)
        BY <2>4 DEF StartUnapproved, PolicyDecides, PassEntryGate, StepTo, contextVars
    <2>5. CASE Approve(s)
        BY <2>5 DEF Approve, StepTo, contextVars
    <2>6. CASE Reject(s)
        BY <2>6 DEF Reject, StepTo, contextVars
    <2> QED
        BY <2>1, <2>2, <2>3, <2>4, <2>5, <2>6
<1>3. \A t \in Stages : /\ Begun(t)' <=> Begun(t)
                        /\ Settled(t)' <=> Settled(t)
                        /\ pc'[t] = "returned_true" <=> pc[t] = "returned_true"
    BY <1>1, <1>2 DEF Begun, Settled
<1>4. stages'[s].status # "skipped" /\ stages'[s].fallback_used = stages[s].fallback_used
    <2>1. stages[s] \in StageContext
        BY <1>1
    <2>2. CASE stages' = [stages EXCEPT ![s] = AsFailed(stages[s])]
        <3>1. stages'[s] = AsFailed(stages[s])
            BY <1>1, <2>2
        <3>2. AsFailed(stages[s]).status = "failed"
            BY <2>1 DEF AsFailed, StageContext
        <3> QED
            BY <2>1, <3>1, <3>2, RecordKeepsFallback
    <2>3. CASE stages' = [stages EXCEPT ![s] = [stages[s] EXCEPT !.status = st]]
        <3>1. stages'[s] = [stages[s] EXCEPT !.status = st]
            BY <1>1, <2>3
        <3>2. /\ [stages[s] EXCEPT !.status = st].status = st
              /\ [stages[s] EXCEPT !.status = st].fallback_used = stages[s].fallback_used
            BY <2>1 DEF StageContext
        <3> QED
            BY <3>1, <3>2
    <2> QED
        BY <1>2, <2>2, <2>3
<1>5. \A t \in Stages \ {s} : stages'[t] = stages[t]
    BY <1>1, <1>2
<1>6. NoFallback'
    BY <1>2, <1>3, <1>4, <1>5 DEF ScenarioInvariant, NoFallback
<1> QED
    BY <1>3, <1>6, LineageStays

\* A stage is executed before any stage that depends on it has begun.
LEMMA ExecuteKeeps ==
    ASSUME ScenarioInvariant, NEW s \in Stages, Execute(s)
    PROVE  NoFallback' /\ OrderKept' /\ LineageKept'
<1>1. PICK left \in BOOLEAN :
          /\ pc[s] = "execute" /\ pc' = [pc EXCEPT ![s] = "exit_gate"]
          /\ stages' = [stages EXCEPT ![s] = WithArtifacts(stages[s], left)]
          /\ stage_outputs' = stage_outputs
          /\ executions' = [executions EXCEPT ![s] = executions[s] + 1]
          /\ decisions' = [decisions EXCEPT ![s] = Decided(s, executions'[s])]
          /\ stage_order' = stage_order /\ input_ids' = input_ids
    BY DEF Execute, ExecuteReturns, StepTo, OnlyStage, contextVars
<1>2. /\ pc \in [Stages -> {"idle"} \cup Awaiting \cup Returned]
      /\ stages \in [Stages -> StageContext]
    BY DEF ScenarioInvariant, ReplanInvariant, ReplanTypeOK, StateTypeOK
<1>3. \A t \in Stages : /\ Begun(t)' <=> Begun(t)
                        /\ Settled(t)' <=> Settled(t) \/ t = s
                        /\ pc'[t] = "returned_true" <=> pc[t] = "returned_true"
    BY <1>1, <1>2 DEF Begun, Settled
<1>4. NoFallback'
    <2>1. /\ stages'[s].status = stages[s].status
          /\ stages'[s].fallback_used = stages[s].fallback_used
        <3>1. stages'[s] = WithArtifacts(stages[s], left) /\ stages[s] \in StageContext
            BY <1>1, <1>2
        <3> QED
            BY <3>1 DEF WithArtifacts, StageContext
    <2>2. \A t \in Stages \ {s} : stages'[t] = stages[t]
        BY <1>1, <1>2
    <2> QED
        BY <1>1, <1>3, <2>1, <2>2 DEF ScenarioInvariant, NoFallback
<1>5. OrderKept'
    BY <1>1, <1>3
    DEF ScenarioInvariant, OrderKept, UpstreamFirst, Listed, Predecessors
<1>6. LineageKept'
    <2>1. /\ executions \in [Stages -> Nat]
          /\ decisions = [t \in Stages |->
                              IF Settled(t) THEN Decided(t, executions[t]) ELSE <<>>]
          /\ input_ids = [t \in Stages |->
                 IF Begun(t) THEN UNION {HandedOn(p) : p \in Predecessors(t)} ELSE {}]
        BY DEF ScenarioInvariant, LineageKept
    <2>2. /\ executions' \in [Stages -> Nat]
          /\ \A t \in Stages \ {s} : executions'[t] = executions[t]
        BY <1>1, <2>1
    <2>3. \A t \in Stages : Decided(t, executions[t])' = Decided(t, executions'[t])
        BY <1>1 DEF Decided, ParentId
    <2>4. decisions' = [t \in Stages |->
                            IF Settled(t)' THEN Decided(t, executions[t])' ELSE <<>>]
        <3>1. DOMAIN decisions = Stages /\ DOMAIN decisions' = Stages
              /\ decisions' = [t \in Stages |-> decisions'[t]]
            BY <1>1, <2>1
        <3>2. ASSUME NEW t \in Stages
              PROVE  decisions'[t] = IF Settled(t)' THEN Decided(t, executions[t])' ELSE <<>>
            <4>1. CASE t = s
                BY <1>1, <1>3, <2>3, <3>1, <4>1
            <4>2. CASE t # s
                BY <1>1, <1>3, <2>1, <2>2, <2>3, <3>1, <4>2
            <4> QED
                BY <4>1, <4>2
        <3> QED
            BY <3>1, <3>2
    <2>5. \A p \in Stages \ {s} : HandedOn(p)' = HandedOn(p)
        <3>1. \A p \in Stages \ {s} : decisions'[p] = decisions[p]
            BY <1>1, <2>1
        <3> QED
            BY <1>1, <3>1 DEF HandedOn
    <2>6. ASSUME NEW t \in Stages, Begun(t)
          PROVE  {HandedOn(p)' : p \in Predecessors(t)} = {HandedOn(p) : p \in Predecessors(t)}
        <3>1. \A p \in Predecessors(t) : p \in Stages /\ pc[p] = "returned_true"
            BY <2>6, DoneBehind DEF ScenarioInvariant
        <3>2. \A p \in Predecessors(t) : p \in Stages \ {s}
            BY <1>1, <3>1
        <3> QED
            BY <2>5, <3>2
    <2>7. input_ids' = [t \in Stages |->
              IF Begun(t)' THEN UNION {HandedOn(p)' : p \in Predecessors(t)} ELSE {}]
        BY <1>1, <1>3, <2>1, <2>6
    <2>8. (executions \in [Stages -> Nat])'
        BY <2>2
    <2> QED
        BY <2>4, <2>7, <2>8 DEF LineageKept
<1> QED
    BY <1>4, <1>5, <1>6

\* The exit gate of a scenario's stage always passes.
LEMMA ExitGateContent ==
    ASSUME ProfileFits, LineageKept, NEW s \in Stages, Settled(s)
    PROVE  ExitPasses(s)
<1>1. decisions[s] = Decided(s, executions[s])
    BY DEF LineageKept
<1>2. Profile[s].decides \in Seq({Profile[s].decides[i] : i \in DOMAIN Profile[s].decides})
    BY DEF ProfileFits, IsSequence
<1>3. /\ Len(Profile[s].decides) \in Nat
      /\ DOMAIN Profile[s].decides = 1 .. Len(Profile[s].decides)
    BY <1>2, LenProperties
<1>4. decisions[s] = [i \in 1 .. Len(Profile[s].decides) |-> decisions[s][i]]
    BY <1>1, <1>3 DEF Decided
<1>5. decisions[s] \in [1 .. Len(Profile[s].decides) ->
                            {decisions[s][i] : i \in 1 .. Len(Profile[s].decides)}]
    BY <1>4
<1>6. Len(decisions[s]) = Len(Profile[s].decides)
    BY <1>3, <1>5, LenProperties
<1> QED
    BY <1>3, <1>6 DEF ExitPasses, ProfileFits, GatesFit

\* The exit gate passes: execute() has made as many decisions as it asks for.
LEMMA ExitGateKeeps ==
    ASSUME ProfileFits, ScenarioInvariant, NEW s \in Stages, ExitGate(s)
    PROVE  NoFallback' /\ OrderKept' /\ LineageKept'
<1>1. pc[s] = "exit_gate" /\ UNCHANGED lineageVars
    BY DEF ExitGate
<1>2. ExitGatePasses(s)
    BY <1>1, ExitGateContent DEF ExitGate, ScenarioInvariant, Settled
<1>3. /\ pc' = [pc EXCEPT ![s] = "returned_true"]
      /\ stages' = [stages EXCEPT ![s] =
             [stages[s] EXCEPT !.status = "completed",
                               !.exit_gate_results = stages[s].exit_gate_results \cup {TRUE}]]
      /\ stage_outputs' = [stage_outputs EXCEPT ![s] = "produced"]
    BY <1>2 DEF ExitGatePasses, StepTo, RecordStageOutput
<1>4. /\ pc \in [Stages -> {"idle"} \cup Awaiting \cup Returned]
      /\ stages \in [Stages -> StageContext]
      /\ stage_outputs \in [Stages -> Output]
    BY DEF ScenarioInvariant, ReplanInvariant, ReplanTypeOK, StateTypeOK
<1>5. \A t \in Stages : /\ Begun(t)' <=> Begun(t)
                        /\ Settled(t)' <=> Settled(t)
    BY <1>1, <1>3, <1>4 DEF Begun, Settled
<1>6. stages'[s].status = "completed" /\ stages'[s].fallback_used = stages[s].fallback_used
    <2>1. stages[s] \in StageContext
        BY <1>4
    <2>2. stages'[s] =
             [stages[s] EXCEPT !.status = "completed",
                               !.exit_gate_results = stages[s].exit_gate_results \cup {TRUE}]
        BY <1>3, <1>4
    <2> QED
        BY <2>1, <2>2 DEF StageContext
<1>7. \A t \in Stages \ {s} : /\ stages'[t] = stages[t] /\ pc'[t] = pc[t]
                              /\ stage_outputs'[t] = stage_outputs[t]
    BY <1>3, <1>4
<1>8. pc'[s] = "returned_true" /\ stage_outputs'[s] = "produced"
    BY <1>3, <1>4
<1>9. NoFallback'
    BY <1>6, <1>7, <1>8 DEF ScenarioInvariant, NoFallback
<1> QED
    BY <1>1, <1>5, <1>9, LineageStays

\* A step of run() or replan() itself starts coroutines, or blocks what it has
\* not executed.
Schedules ==
    /\ \A s \in Stages : pc'[s] = pc[s] \/ (pc[s] = "idle" /\ pc'[s] = "created")
    /\ \A s \in Stages : stages'[s] = stages[s]
                         \/ stages'[s] = [NoContext EXCEPT !.status = "blocked"]
    /\ stage_outputs' = stage_outputs

\* The scheduler of run() leaves the contexts alone ...
LEMMA EngineSchedules ==
    ASSUME ReplanInvariant, EngineStep
    PROVE  Schedules
<1>0. /\ pc \in [Stages -> {"idle"} \cup Awaiting \cup Returned]
      /\ stages \in [Stages -> StageContext]
    BY DEF ReplanInvariant, ReplanTypeOK, StateTypeOK
<1>1. CASE Schedule
    <2>1. Bookkeeping /\ phase = "loop"
        BY <1>1 DEF Schedule, ReplanInvariant, Running, RunInvariant
    <2>2. \A s \in Round : s \in Stages /\ pc[s] = "idle"
        BY <2>1 DEF Bookkeeping, Round, ReadyStages
    <2>3. /\ batch' = Round /\ stages' = stages /\ stage_outputs' = stage_outputs
          /\ pc' = [s \in Stages |-> IF s \in batch' THEN "created" ELSE pc[s]]
        BY <1>1 DEF Schedule, contextVars
    <2> QED
        BY <2>2, <2>3 DEF Schedules
<1>2. CASE NothingReady \/ Collect \/ RequestFinalQc \/ FinalQcRaises
    BY <1>2 DEF NothingReady, Collect, RequestFinalQc, FinalQcRaises, Schedules, stageVars,
                contextVars
<1>3. CASE FinalQcTimesOut \/ FinalQcRejects
    BY <1>3 DEF FinalQcTimesOut, FinalQcRejects, FailFinalQc, Schedules, stageVars, contextVars
<1>4. CASE Finish \/ FinalQcApproves
    <2>1. /\ pc' = pc /\ stage_outputs' = stage_outputs
          /\ stages' = [s \in Stages |-> IF s \in Unexecuted
                                         THEN [NoContext EXCEPT !.status = "blocked"]
                                         ELSE stages[s]]
        BY <1>4 DEF Finish, FinalQcApproves, Finalise, contextVars
    <2> QED
        BY <2>1 DEF Schedules
<1> QED
    BY <1>1, <1>2, <1>3, <1>4 DEF EngineStep

\* ... and so does that of replan(), once it has dropped those it replans.
LEMMA ReplanSchedules ==
    ASSUME ReplanInvariant, ReplanStep
    PROVE  Schedules
<1>1. CASE ScheduleReplan
    <2>1. /\ phase = "replan" /\ failed = {} /\ batch = {}
          /\ \A s \in ImpactedStages : pc[s] = "idle" <=> s \notin completed \cup failed \cup batch
        BY <1>1
        DEF ScheduleReplan, ReplanInvariant, Aftermath, ReplanBookkeeping, RoundKept, Replans
    <2>2. \A s \in ReadyToReplan : s \in Stages /\ pc[s] = "idle"
        BY <2>1 DEF ReadyToReplan, ReadyStages
    <2>3. /\ batch' = ReadyToReplan /\ stages' = stages /\ stage_outputs' = stage_outputs
          /\ pc' = [s \in Stages |-> IF s \in batch' THEN "created" ELSE pc[s]]
        BY <1>1 DEF ScheduleReplan, contextVars
    <2> QED
        BY <2>2, <2>3 DEF Schedules
<1>2. CASE NothingToReplan \/ CollectReplan \/ ReplanRaises
    BY <1>2 DEF NothingToReplan, CollectReplan, ReplanRaises, Schedules, stageVars, contextVars
<1>3. CASE FinishReplan
    <2>1. /\ pc' = pc /\ stage_outputs' = stage_outputs
          /\ stages' = [s \in Stages |-> IF s \in ReplanBlocked
                                         THEN [NoContext EXCEPT !.status = "blocked"]
                                         ELSE stages[s]]
        BY <1>3 DEF FinishReplan, contextVars
    <2> QED
        BY <2>1 DEF Schedules
<1> QED
    BY <1>1, <1>2, <1>3 DEF ReplanStep

\* What leaves the contexts alone preserves the invariant.
LEMMA SchedulesKeeps ==
    ASSUME ScenarioInvariant, Schedules, UNCHANGED lineageVars
    PROVE  NoFallback' /\ OrderKept' /\ LineageKept'
<1>1. \A s \in Stages : /\ Begun(s)' <=> Begun(s)
                        /\ Settled(s)' <=> Settled(s)
                        /\ pc'[s] = "returned_true" <=> pc[s] = "returned_true"
    BY DEF Schedules, Begun, Settled
<1>2. /\ [NoContext EXCEPT !.status = "blocked"].status = "blocked"
      /\ [NoContext EXCEPT !.status = "blocked"].fallback_used = FALSE
    BY DEF NoContext
<1>3. NoFallback'
    BY <1>1, <1>2 DEF ScenarioInvariant, NoFallback, Schedules
<1> QED
    BY <1>1, <1>3, LineageStays

\* What a replan drops is in no order, no context and no input any more, and
\* nothing it preserves was based on it.
LEMMA StartScenarioReplanKeeps ==
    ASSUME ScenarioInvariant, NEW origin \in Stages \cup {Requirement},
           StartScenarioReplan(origin)
    PROVE  NoFallback' /\ OrderKept' /\ LineageKept'
<1> DEFINE lost == Impacted(origin)
<1>1. /\ completed' = PreservedCompleted(lost)
      /\ stages' = [s \in Stages |-> IF s \in lost THEN NoContext ELSE stages[s]]
      /\ pc' = [s \in Stages |-> IF s \in lost THEN "idle" ELSE pc[s]]
      /\ stage_outputs' = [s \in Stages |->
             IF s \notin completed' THEN "absent"
             ELSE IF stages[s].fallback_used THEN "preset" ELSE "produced"]
      /\ stage_order' = Without(stage_order, lost)
      /\ decisions' = [s \in Stages |-> IF s \in lost THEN <<>> ELSE decisions[s]]
      /\ input_ids' = [s \in Stages |-> IF s \in lost THEN {} ELSE input_ids[s]]
      /\ executions' = executions
    BY DEF StartScenarioReplan, StartReplan
<1>2. lost \subseteq Stages /\ Closed(lost)
    BY ImpactedClosed
<1> HIDE DEF lost
<1>3. \A s \in Stages : pc'[s] = IF s \in lost THEN "idle" ELSE pc[s]
    BY <1>1
<1>4. \A s \in Stages : /\ Begun(s)' <=> Begun(s) /\ s \notin lost
                        /\ Settled(s)' <=> Settled(s) /\ s \notin lost
    BY <1>3 DEF Begun, Settled
<1>5. NoFallback'
    <2>1. ASSUME NEW s \in Stages
          PROVE  (stages[s].status # "skipped" /\ ~stages[s].fallback_used)'
        <3>1. NoContext.status = "absent" /\ NoContext.fallback_used = FALSE
            BY DEF NoContext
        <3> QED
            BY <1>1, <3>1 DEF ScenarioInvariant, NoFallback
    <2>2. ASSUME NEW s \in Stages
          PROVE  stage_outputs'[s] # "absent" <=> pc'[s] = "returned_true"
        <3>1. stage_outputs'[s] # "absent" <=> s \in completed'
            BY <1>1
        <3>2. s \in completed' <=> s \notin lost /\ stages[s].status = "completed"
            BY <1>1 DEF PreservedCompleted
        <3>3. stages[s].status = "completed" <=> pc[s] = "returned_true"
            BY CompletedReturned DEF ScenarioInvariant
        <3> QED
            BY <1>3, <3>1, <3>2, <3>3
    <2> QED
        BY <2>1, <2>2 DEF NoFallback
<1>6. OrderKept'
    <2>1. UpstreamFirst(stage_order)
        BY DEF ScenarioInvariant, OrderKept
    <2>2. \A s \in Stages \ lost : Listed(stage_order, s) => Predecessors(s) \cap lost = {}
        BY <1>2, UpstreamKept
    <2>3. /\ UpstreamFirst(stage_order')
          /\ \A s \in Stages :
                 Listed(stage_order', s) <=> Listed(stage_order, s) /\ s \notin lost
        BY <1>1, <2>1, <2>2, WithoutUpstreamFirst
    <2>4. UpstreamFirst(stage_order)' /\ \A s \in Stages : Listed(stage_order, s)' <=> Begun(s)'
        BY <1>4, <2>3 DEF ScenarioInvariant, OrderKept, UpstreamFirst, Listed, Predecessors
    <2> QED
        BY <2>4 DEF OrderKept
<1>7. LineageKept'
    <2>1. /\ executions \in [Stages -> Nat]
          /\ decisions = [s \in Stages |->
                              IF Settled(s) THEN Decided(s, executions[s]) ELSE <<>>]
          /\ input_ids = [s \in Stages |->
                 IF Begun(s) THEN UNION {HandedOn(p) : p \in Predecessors(s)} ELSE {}]
        BY DEF ScenarioInvariant, LineageKept
    <2>2. \A s \in Stages \ lost : /\ decisions'[s] = decisions[s]
                                   /\ input_ids'[s] = input_ids[s]
        BY <1>1
    <2>3. \A s \in Stages \ lost :
              /\ HandedOn(s)' = HandedOn(s)
              /\ Decided(s, executions[s])' = Decided(s, executions[s])
        BY <1>1, <2>2 DEF HandedOn, Decided, ParentId
    <2>4. decisions' = [s \in Stages |->
                            IF Settled(s)' THEN Decided(s, executions[s])' ELSE <<>>]
        <3>1. ASSUME NEW s \in Stages
              PROVE  (IF s \in lost THEN <<>> ELSE decisions[s])
                         = IF Settled(s)' THEN Decided(s, executions[s])' ELSE <<>>
            BY <1>4, <2>1, <2>3
        <3> QED
            BY <1>1, <3>1
    <2>5. input_ids' = [s \in Stages |->
              IF Begun(s)' THEN UNION {HandedOn(p)' : p \in Predecessors(s)} ELSE {}]
        <3>1. ASSUME NEW s \in Stages \ lost
              PROVE  {HandedOn(p)' : p \in Predecessors(s)}
                         = {HandedOn(p) : p \in Predecessors(s)}
            <4>1. \A p \in Predecessors(s) : p \in Stages \ lost
                BY <1>2, UpstreamKept DEF Predecessors
            <4> QED
                BY <2>3, <4>1
        <3>2. ASSUME NEW s \in Stages
              PROVE  (IF s \in lost THEN {} ELSE input_ids[s])
                         = IF Begun(s)' THEN UNION {HandedOn(p)' : p \in Predecessors(s)} ELSE {}
            BY <1>4, <2>1, <3>1
        <3> QED
            BY <1>1, <3>2
    <2> QED
        BY <1>1, <2>1, <2>4, <2>5 DEF LineageKept
<1> QED
    BY <1>5, <1>6, <1>7

LEMMA ScenarioInvariantNext ==
    ProfileFits /\ ScenarioInvariant /\ [ScenarioNext]_scenarioVars => ScenarioInvariant'
<1> SUFFICES ASSUME ProfileFits, ScenarioInvariant, [ScenarioNext]_scenarioVars
             PROVE  ScenarioInvariant'
    OBVIOUS
<1>1. ReplanInvariant /\ ReplanInvariant'
    BY ScenarioIsReplan, ReplanInvariantNext DEF ScenarioInvariant
<1>2. CASE EngineStep /\ UNCHANGED <<replanVars, lineageVars>>
    BY <1>1, <1>2, EngineSchedules, SchedulesKeeps DEF ScenarioInvariant
<1>3. ASSUME NEW s \in Stages, ScenarioStep(s)
      PROVE  NoFallback' /\ OrderKept' /\ LineageKept'
    <2>1. CASE BeginStage(s)
        BY <2>1, BeginStageKeeps
    <2>2. CASE EntryGate(s)
        <3>1. /\ UNCHANGED lineageVars
              /\ EntryGateFails(s) \/ BlockByPolicy(s) \/ RequestApproval(s) \/ StartUnapproved(s)
            BY <2>2 DEF EntryGate
        <3> QED
            BY <3>1, GateKeeps
    <2>3. CASE (Approve(s) \/ Reject(s)) /\ UNCHANGED lineageVars
        BY <2>3, GateKeeps
    <2>4. CASE Execute(s)
        BY <2>4, ExecuteKeeps
    <2>5. CASE ExitGate(s)
        BY <2>5, ExitGateKeeps
    <2> QED
        BY <1>3, <2>1, <2>2, <2>3, <2>4, <2>5 DEF ScenarioStep
<1>4. CASE ReplanStep /\ UNCHANGED lineageVars
    BY <1>1, <1>4, ReplanSchedules, SchedulesKeeps DEF ScenarioInvariant
<1>5. ASSUME UNCHANGED <<pc, stages, stage_outputs, lineageVars>>
      PROVE  NoFallback' /\ OrderKept' /\ LineageKept'
    BY <1>5, SchedulesKeeps DEF Schedules
<1>6. ASSUME NEW origin \in Stages \cup {Requirement},
             (ReplanSkipped(origin) /\ UNCHANGED lineageVars) \/ StartScenarioReplan(origin)
      PROVE  NoFallback' /\ OrderKept' /\ LineageKept'
    <2>1. CASE ReplanSkipped(origin) /\ UNCHANGED lineageVars
        BY <1>5, <2>1 DEF ReplanSkipped, vars, contextVars
    <2>2. CASE StartScenarioReplan(origin)
        BY <2>2, StartScenarioReplanKeeps
    <2> QED
        BY <1>6, <2>1, <2>2
<1>7. CASE (Stopped /\ UNCHANGED lineageVars) \/ UNCHANGED scenarioVars
    BY <1>1, <1>5, <1>7 DEF Stopped, scenarioVars, allVars, vars, contextVars, ScenarioInvariant
<1>8. CASE \E s \in Stages : ScenarioStep(s) /\ UNCHANGED replanVars
    BY <1>1, <1>3, <1>8 DEF ScenarioInvariant
<1>9. CASE \E origin \in Stages \cup {Requirement} :
               (ReplanSkipped(origin) /\ UNCHANGED lineageVars) \/ StartScenarioReplan(origin)
    BY <1>1, <1>6, <1>9 DEF ScenarioInvariant
<1> QED
    BY <1>2, <1>4, <1>7, <1>8, <1>9 DEF ScenarioNext

-----------------------------------------------------------------------------
(* Why a stage fails.                                                      *)

\* The entry gate of a scenario's stage always passes.
LEMMA EntryGateContent ==
    ASSUME ProfileFits, ScenarioInvariant, NEW s \in Stages, pc[s] = "entry_gate"
    PROVE  EntryPasses(s)
<1>1. \A p \in Predecessors(s) : p \in Stages /\ stages[s].input_data[p] = "produced"
    BY DoneBehind DEF ScenarioInvariant, Begun
<1>2. UNION {Profile[p].gives : p \in Predecessors(s)} \subseteq InputKeys(s)
    BY <1>1 DEF InputKeys
<1>3. Profile[s].needs \subseteq UNION {Profile[p].gives : p \in Predecessors(s)}
    BY DEF ProfileFits, GatesFit
<1> QED
    BY <1>2, <1>3 DEF EntryPasses

LEMMA FailsOnlyIfRejectedStep ==
    ProfileFits /\ ScenarioInvariant /\ [ScenarioNext]_scenarioVars => FailsOnlyIfRejected
<1> SUFFICES ASSUME ProfileFits, ScenarioInvariant, [ScenarioNext]_scenarioVars,
                    NEW s \in Stages, pc[s] # "returned_false", pc'[s] = "returned_false"
             PROVE  approvals'[s] = "rejected"
    BY DEF FailsOnlyIfRejected
<1>1. /\ ReplanInvariant
      /\ pc \in [Stages -> {"idle"} \cup Awaiting \cup Returned]
      /\ approvals \in [Stages -> ApprovalStatus]
    BY DEF ScenarioInvariant, ReplanInvariant, ReplanTypeOK, StateTypeOK
<1>2. ~Schedules /\ pc' # pc
    BY DEF Schedules
<1>3. CASE EngineStep
    BY <1>1, <1>2, <1>3, EngineSchedules
<1>4. CASE ReplanStep
    BY <1>1, <1>2, <1>4, ReplanSchedules
<1>5. CASE \E origin \in Stages \cup {Requirement} :
               ReplanSkipped(origin) \/ StartScenarioReplan(origin)
    BY <1>2, <1>5 DEF ReplanSkipped, StartScenarioReplan, StartReplan, vars
<1>6. ASSUME NEW t \in Stages, ScenarioStep(t)
      PROVE  approvals'[s] = "rejected"
    <2>1. ASSUME NEW at, at # "returned_false", pc' = [pc EXCEPT ![t] = at]
          PROVE  FALSE
        BY <1>1, <2>1
    <2>2. CASE BeginStage(t)
        BY <2>1, <2>2 DEF BeginStage, Begin, StepTo
    <2>3. CASE EntryGate(t)
        <3>1. EntryPasses(t) /\ "block" \notin PolicyOutcomes[t]
            BY <2>3, EntryGateContent DEF EntryGate, ProfileFits, GatesFit
        <3>2. RequestApproval(t) \/ StartUnapproved(t)
            BY <2>3, <3>1 DEF EntryGate, BlockByPolicy
        <3> QED
            BY <2>1, <3>2 DEF RequestApproval, StartUnapproved, StepTo
    <2>4. CASE Approve(t)
        BY <2>1, <2>4 DEF Approve, StepTo
    <2>5. CASE Reject(t)
        <3>1. /\ pc' = [pc EXCEPT ![t] = "returned_false"]
              /\ approvals' = [approvals EXCEPT ![t] = "rejected"]
            BY <2>5 DEF Reject, StepTo
        <3> QED
            BY <1>1, <3>1
    <2>6. CASE Execute(t)
        BY <2>1, <2>6 DEF Execute, ExecuteReturns, StepTo
    <2>7. CASE ExitGate(t)
        <3>1. ExitGatePasses(t)
            BY <2>7, ExitGateContent DEF ExitGate, ScenarioInvariant, Settled
        <3> QED
            BY <2>1, <3>1 DEF ExitGatePasses, StepTo
    <2> QED
        BY <1>6, <2>2, <2>3, <2>4, <2>5, <2>6, <2>7 DEF ScenarioStep
<1>7. CASE Stopped \/ UNCHANGED scenarioVars
    BY <1>2, <1>7 DEF Stopped, scenarioVars, allVars, vars
<1> QED
    BY <1>3, <1>4, <1>5, <1>6, <1>7 DEF ScenarioNext

-----------------------------------------------------------------------------
(* The theorems.                                                           *)

\* What a scenario has on record while it runs and is replanned.
THEOREM ScenarioInvariantCorrect ==
    ASSUME ProfileFits
    PROVE  ScenarioSpec => []ScenarioInvariant
<1>1. ScenarioInvariant /\ [ScenarioNext]_scenarioVars => ScenarioInvariant'
    BY ScenarioInvariantNext
<1> QED
    BY <1>1, ScenarioInvariantInit, PTL DEF ScenarioSpec

\* No decision id that a stage was handed on and no parent is left dangling.
THEOREM LineageClosedAlways ==
    ASSUME ProfileFits
    PROVE  ScenarioSpec => []LineageClosed
<1>1. ScenarioInvariant => LineageClosed
    BY LineageOfInvariant
<1> QED
    BY <1>1, ScenarioInvariantCorrect, PTL

\* The decision reported to have driven a stage is one of a stage upstream.
THEOREM DriverPrecedesAlways ==
    ASSUME ProfileFits
    PROVE  ScenarioSpec => []DriverPrecedes
<1>1. ScenarioInvariant => DriverPrecedes
    BY DriverOfInvariant
<1> QED
    BY <1>1, ScenarioInvariantCorrect, PTL

\* A stage of a scenario fails only because its approval was rejected.
THEOREM FailsOnlyIfRejectedAlways ==
    ASSUME ProfileFits
    PROVE  ScenarioSpec => [][FailsOnlyIfRejected]_scenarioVars
<1>1. ScenarioInvariant /\ [ScenarioNext]_scenarioVars => FailsOnlyIfRejected
    BY FailsOnlyIfRejectedStep
<1> QED
    BY <1>1, ScenarioInvariantCorrect, PTL DEF ScenarioSpec

=============================================================================
