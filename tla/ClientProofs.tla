---------------------------- MODULE ClientProofs ----------------------------
(***************************************************************************)
(* Theorems about the clients, for any lists, sizes, panes and intervals:  *)
(* what the terminal shows and what its keys act on, the frames of the     *)
(* desktop client, activation, the widths of what is drawn, and staleness. *)
(***************************************************************************)
EXTENDS Terminal, Desktop, Activation, Heartbeats, Layout, TLAPS, FiniteSetTheorems

-----------------------------------------------------------------------------
(***************************************************************************)
(* Lists by ranks.  Every element of a finite set has a set of those       *)
(* before it; as those sets make a strict order, their sizes are the ranks *)
(* 0, 1, ... without a gap.                                                *)
(***************************************************************************)
IsOrder(S, before) ==
  /\ before \in [S -> SUBSET S]
  /\ \A i \in S : i \notin before[i]
  /\ \A i, j \in S : i # j => i \in before[j] \/ j \in before[i]
  /\ \A i, j, k \in S : i \in before[j] /\ j \in before[k] => i \in before[k]

LEMMA RanksAreOnto ==
  ASSUME NEW S, IsFiniteSet(S), NEW before, IsOrder(S, before)
  PROVE  /\ \A i \in S : Cardinality(before[i]) \in 0..(Cardinality(S) - 1)
         /\ \A i, j \in S : i \in before[j] => Cardinality(before[i]) < Cardinality(before[j])
         /\ \A k \in 0..(Cardinality(S) - 1) : \E i \in S : Cardinality(before[i]) = k
<1>. DEFINE rank == [i \in S |-> Cardinality(before[i])]
            Ranks == 0..(Cardinality(S) - 1)
<1>1. Cardinality(S) \in Nat
  BY FS_CardinalityType
<1>2. ASSUME NEW i \in S
      PROVE  Cardinality(before[i]) \in Ranks
  <2>1. before[i] \in SUBSET (S \ {i})
    BY DEF IsOrder
  <2>2. IsFiniteSet(S \ {i}) /\ Cardinality(S \ {i}) = Cardinality(S) - 1
    BY FS_RemoveElement
  <2>3. IsFiniteSet(before[i]) /\ Cardinality(before[i]) <= Cardinality(S) - 1
    BY <2>1, <2>2, FS_Subset
  <2>4. Cardinality(before[i]) \in Nat
    BY <2>3, FS_CardinalityType
  <2>. QED
    BY <1>1, <2>3, <2>4
<1>3. ASSUME NEW i \in S, NEW j \in S, i \in before[j]
      PROVE  Cardinality(before[i]) < Cardinality(before[j])
  <2>1. before[i] \in SUBSET before[j] /\ before[i] # before[j]
    BY <1>3 DEF IsOrder
  <2>2. IsFiniteSet(before[j])
    BY FS_Subset DEF IsOrder
  <2>3. Cardinality(before[i]) <= Cardinality(before[j])
        /\ Cardinality(before[i]) # Cardinality(before[j])
    BY <2>1, <2>2, FS_Subset
  <2>. QED
    BY <1>2, <2>3
<1>4. rank \in Injection(S, Ranks)
  <2>1. rank \in [S -> Ranks]
    BY <1>2
  <2>2. ASSUME NEW i \in S, NEW j \in S, i # j PROVE rank[i] # rank[j]
    BY <1>2, <1>3, <2>2 DEF IsOrder
  <2>. QED
    BY <2>1, <2>2 DEF Injection, IsInjective
<1>5. IsFiniteSet(Ranks) /\ Cardinality(Ranks) = Cardinality(S)
  BY <1>1, FS_Interval
<1>6. rank \in Surjection(S, Ranks)
  <2>. HIDE DEF rank, Ranks
  <2>. QED
    BY <1>4, <1>5, FS_Injection
<1>7. \A k \in Ranks : \E i \in S : Cardinality(before[i]) = k
  BY <1>6 DEF Surjection
<1>. QED
  BY <1>2, <1>3, <1>7

\* What Ranked takes its k-th element from: every position once, in the order.
Pick(before, k) == CHOOSE i \in DOMAIN before : Cardinality(before[i]) = k - 1

LEMMA RanksPick ==
  ASSUME NEW S, IsFiniteSet(S), NEW before, IsOrder(S, before)
  PROVE  /\ DOMAIN before = S /\ Cardinality(S) \in Nat
         /\ \A k \in 1..Cardinality(S) : Pick(before, k) \in S
         /\ \A i \in S : \E k \in 1..Cardinality(S) : Pick(before, k) = i
         /\ \A k, l \in 1..Cardinality(S) : k < l => Pick(before, k) \in before[Pick(before, l)]
<1>. DEFINE rank(i) == Cardinality(before[i])
            count == Cardinality(S)
            pick(k) == Pick(before, k)
<1>1. count \in Nat
  BY FS_CardinalityType
<1>2. /\ \A i \in S : rank(i) \in 0..(count - 1)
      /\ \A i, j \in S : i \in before[j] => rank(i) < rank(j)
      /\ \A k \in 0..(count - 1) : \E i \in S : rank(i) = k
  BY RanksAreOnto
<1>3. /\ DOMAIN before = S
      /\ \A k \in 1..count : pick(k) = CHOOSE i \in S : rank(i) = k - 1
  BY DEF IsOrder, Pick
<1>4. \A i, j \in S : i # j => i \in before[j] \/ j \in before[i]
  BY DEF IsOrder
<1>. HIDE DEF rank, count, pick
<1>5. \A k \in 1..count : pick(k) \in S /\ rank(pick(k)) = k - 1
  <2>. TAKE k \in 1..count
  <2>1. k - 1 \in 0..(count - 1)
    BY <1>1
  <2>2. \E i \in S : rank(i) = k - 1
    BY <1>2, <2>1
  <2>. QED
    BY <1>3, <2>2
<1>6. \A i, j \in S : rank(i) = rank(j) => i = j
  BY <1>2, <1>4
<1>7. ASSUME NEW i \in S PROVE \E k \in 1..count : pick(k) = i
  <2>1. rank(i) + 1 \in 1..count /\ (rank(i) + 1) - 1 = rank(i)
    BY <1>1, <1>2
  <2>2. pick(rank(i) + 1) \in S /\ rank(pick(rank(i) + 1)) = rank(i)
    BY <1>5, <2>1
  <2>. QED
    BY <1>6, <2>1, <2>2
<1>8. ASSUME NEW k \in 1..count, NEW l \in 1..count, k < l
      PROVE  pick(k) \in before[pick(l)]
  <2>1. /\ pick(k) \in S /\ pick(l) \in S
        /\ rank(pick(k)) = k - 1 /\ rank(pick(l)) = l - 1
        /\ k - 1 < l - 1
    BY <1>1, <1>5, <1>8
  <2>2. pick(k) # pick(l) /\ ~(rank(pick(l)) < rank(pick(k)))
    BY <1>1, <2>1
  <2>. QED
    BY <1>2, <1>4, <2>1, <2>2
<1>9. /\ \A k \in 1..count : pick(k) \in S
      /\ \A i \in S : \E k \in 1..count : pick(k) = i
      /\ \A k, l \in 1..count : k < l => pick(k) \in before[pick(l)]
  BY <1>5, <1>7, <1>8
<1>. QED
  BY <1>1, <1>3, <1>9 DEF count, pick

\* A list of views as a client is sent it.
IsList(list) ==
  /\ list \in Seq({list[i] : i \in 1..Len(list)})
  /\ \A i \in 1..Len(list) :
       list[i].id \in Ids /\ list[i].waiting \in BOOLEAN /\ list[i].at \in Int

\* The views at some positions, and those of a sequence of views.
ViewsAt(list, positions) == {list[i] : i \in positions}
ViewsOf(seq) == {seq[k] : k \in 1..Len(seq)}

LEMMA PositionsAreFinite ==
  ASSUME NEW list, IsList(list), NEW positions \in SUBSET (1..Len(list))
  PROVE  /\ IsFiniteSet(positions) /\ Cardinality(positions) \in Nat
         /\ \A i \in positions : i \in Int /\ list[i].at \in Int
<1>1. Len(list) \in Nat
  BY DEF IsList
<1>2. IsFiniteSet(1..Len(list))
  BY <1>1, FS_Interval
<1>3. IsFiniteSet(positions)
  BY <1>2, FS_Subset
<1>4. Cardinality(positions) \in Nat
  BY <1>3, FS_CardinalityType
<1>. QED
  BY <1>1, <1>3, <1>4 DEF IsList

LEMMA RankedAreThose ==
  ASSUME NEW list, NEW S, IsFiniteSet(S), NEW before, IsOrder(S, before)
  PROVE  /\ Ranked(list, before) \in Seq(ViewsAt(list, S))
         /\ Len(Ranked(list, before)) = Cardinality(S)
         /\ \A k \in 1..Cardinality(S) : Ranked(list, before)[k] = list[Pick(before, k)]
         /\ ViewsOf(Ranked(list, before)) = ViewsAt(list, S)
<1>1. /\ DOMAIN before = S /\ Cardinality(S) \in Nat
      /\ \A k \in 1..Cardinality(S) : Pick(before, k) \in S
      /\ \A i \in S : \E k \in 1..Cardinality(S) : Pick(before, k) = i
  BY RanksPick
<1>2. Ranked(list, before) = [k \in 1..Cardinality(S) |-> list[Pick(before, k)]]
  BY <1>1 DEF Ranked, Pick
<1>3. Ranked(list, before) \in [1..Cardinality(S) -> ViewsAt(list, S)]
  BY <1>1, <1>2 DEF ViewsAt
<1>4. Ranked(list, before) \in Seq(ViewsAt(list, S))
      /\ Len(Ranked(list, before)) = Cardinality(S)
  BY <1>1, <1>3
<1>5. \A k \in 1..Cardinality(S) : Ranked(list, before)[k] = list[Pick(before, k)]
  BY <1>2
<1>6. ViewsOf(Ranked(list, before)) = ViewsAt(list, S)
  BY <1>1, <1>4, <1>5 DEF ViewsOf, ViewsAt
<1>. QED
  BY <1>4, <1>5, <1>6

LEMMA KeptAreThose ==
  ASSUME NEW list, IsList(list), NEW positions \in SUBSET (1..Len(list))
  PROVE  /\ Kept(list, positions) \in Seq(ViewsAt(list, positions))
         /\ Len(Kept(list, positions)) = Cardinality(positions)
         /\ ViewsOf(Kept(list, positions)) = ViewsAt(list, positions)
<1>. DEFINE before == [i \in positions |-> {j \in positions : j < i}]
<1>1. IsFiniteSet(positions) /\ \A i \in positions : i \in Int
  BY PositionsAreFinite
<1>2. IsOrder(positions, before)
  BY <1>1 DEF IsOrder
<1>3. Kept(list, positions) = Ranked(list, before)
  BY DEF Kept
<1>. HIDE DEF before
<1>. QED
  BY <1>1, <1>2, <1>3, RankedAreThose

LEMMA NewestAreThose ==
  ASSUME NEW list, IsList(list), NEW positions \in SUBSET (1..Len(list))
  PROVE  /\ Newest(list, positions) \in Seq(ViewsAt(list, positions))
         /\ Len(Newest(list, positions)) = Cardinality(positions)
         /\ ViewsOf(Newest(list, positions)) = ViewsAt(list, positions)
         /\ \A k, l \in 1..Cardinality(positions) :
              k < l => Newest(list, positions)[k].at >= Newest(list, positions)[l].at
<1>. DEFINE before == [i \in positions |-> {j \in positions : Newer(list, j, i)}]
<1>1. IsFiniteSet(positions) /\ \A i \in positions : i \in Int /\ list[i].at \in Int
  BY PositionsAreFinite
<1>2. IsOrder(positions, before)
  BY <1>1 DEF IsOrder, Newer
<1>3. Newest(list, positions) = Ranked(list, before)
  BY DEF Newest
<1>4. \A i, j \in positions : j \in before[i] => list[j].at >= list[i].at
  BY <1>1 DEF Newer
<1>. HIDE DEF before
<1>5. \A k, l \in 1..Cardinality(positions) :
        k < l => Newest(list, positions)[k].at >= Newest(list, positions)[l].at
  <2>1. /\ DOMAIN before = positions
        /\ \A k \in 1..Cardinality(positions) : Pick(before, k) \in positions
        /\ \A k, l \in 1..Cardinality(positions) :
             k < l => Pick(before, k) \in before[Pick(before, l)]
    BY <1>1, <1>2, RanksPick
  <2>2. \A k \in 1..Cardinality(positions) : Ranked(list, before)[k] = list[Pick(before, k)]
    BY <2>1 DEF Ranked, Pick
  <2>3. \A k, l \in 1..Cardinality(positions) :
          k < l => list[Pick(before, k)].at >= list[Pick(before, l)].at
    BY <1>4, <2>1
  <2>. QED
    BY <1>3, <2>2, <2>3
<1>. QED
  BY <1>1, <1>2, <1>3, <1>5, RankedAreThose

\* The k-th of two sequences, one after the other.
LEMMA ConcatIs ==
  ASSUME NEW S, NEW s \in Seq(S), NEW t \in Seq(S)
  PROVE  /\ s \o t \in Seq(S)
         /\ Len(s \o t) = Len(s) + Len(t)
         /\ \A k \in 1..Len(s) : (s \o t)[k] = s[k]
         /\ \A k \in 1..Len(t) : (s \o t)[Len(s) + k] = t[k]
OBVIOUS

(***************************************************************************)
(* partition_sessions loses no session and invents none: those that wait   *)
(* come first, the others behind them from the newest to the oldest.       *)
(***************************************************************************)
THEOREM PartitionIsComplete ==
  ASSUME NEW list, IsList(list), NEW positions \in SUBSET (1..Len(list))
  PROVE  LET order == Partition(list, positions)
             waiting == Cardinality(WaitingAt(list, positions))
         IN  /\ order \in Seq(ViewsAt(list, positions))
             /\ Len(order) = Cardinality(positions)
             /\ ViewsOf(order) = ViewsAt(list, positions)
             /\ waiting \in 0..Len(order)
             /\ \A k \in 1..Len(order) : order[k].waiting <=> k <= waiting
             /\ \A k, l \in (waiting + 1)..Len(order) : k < l => order[k].at >= order[l].at
<1>. DEFINE W == WaitingAt(list, positions)
            R == positions \ W
            top == Kept(list, W)
            others == Newest(list, R)
            order == Partition(list, positions)
            All == ViewsAt(list, positions)
<1>1. /\ W \in SUBSET (1..Len(list)) /\ R \in SUBSET (1..Len(list))
      /\ W \cup R = positions /\ W \cap R = {}
  BY DEF WaitingAt
<1>2. \A i \in positions : (i \in W <=> list[i].waiting) /\ list[i].waiting \in BOOLEAN
  BY DEF WaitingAt, IsWaiting, IsList
<1>3. order = top \o others
  BY DEF Partition
<1>. HIDE DEF W, R
<1>4. /\ top \in Seq(ViewsAt(list, W)) /\ Len(top) = Cardinality(W)
      /\ ViewsOf(top) = ViewsAt(list, W)
  BY <1>1, KeptAreThose
<1>5. /\ others \in Seq(ViewsAt(list, R)) /\ Len(others) = Cardinality(R)
      /\ ViewsOf(others) = ViewsAt(list, R)
      /\ \A k, l \in 1..Cardinality(R) : k < l => others[k].at >= others[l].at
  BY <1>1, NewestAreThose
<1>6. /\ Cardinality(W) \in Nat /\ Cardinality(R) \in Nat
      /\ Cardinality(positions) = Cardinality(W) + Cardinality(R)
  <2>1. /\ IsFiniteSet(W) /\ IsFiniteSet(R)
        /\ Cardinality(W) \in Nat /\ Cardinality(R) \in Nat
    BY <1>1, PositionsAreFinite
  <2>2. Cardinality(W \cup R) = Cardinality(W) + Cardinality(R) - Cardinality(W \cap R)
    BY <2>1, FS_Union
  <2>3. Cardinality(W \cap R) = 0
    BY <1>1, FS_EmptySet
  <2>4. Cardinality(W \cup R) = Cardinality(positions)
    BY <1>1
  <2>. QED
    BY <2>1, <2>2, <2>3, <2>4
<1>7. All = ViewsAt(list, W) \cup ViewsAt(list, R)
  BY <1>1 DEF ViewsAt
<1>. HIDE DEF top, others, order, All
<1>8. top \in Seq(All) /\ others \in Seq(All)
  BY <1>4, <1>5, <1>7
<1>9. /\ order \in Seq(All) /\ Len(order) = Cardinality(W) + Cardinality(R)
      /\ \A k \in 1..Cardinality(W) : order[k] = top[k]
      /\ \A k \in 1..Cardinality(R) : order[Cardinality(W) + k] = others[k]
  <2>1. /\ top \o others \in Seq(All) /\ Len(top \o others) = Len(top) + Len(others)
        /\ \A k \in 1..Len(top) : (top \o others)[k] = top[k]
        /\ \A k \in 1..Len(others) : (top \o others)[Len(top) + k] = others[k]
    BY <1>8, ConcatIs
  <2>. QED
    BY <1>3, <1>4, <1>5, <2>1
<1>10. /\ \A k \in 1..Cardinality(W) : order[k] \in ViewsAt(list, W)
       /\ \A k \in (Cardinality(W) + 1)..Len(order) :
            k - Cardinality(W) \in 1..Cardinality(R)
            /\ order[k] = others[k - Cardinality(W)] /\ order[k] \in ViewsAt(list, R)
  <2>1. \A k \in 1..Cardinality(W) : order[k] \in ViewsAt(list, W)
    BY <1>4, <1>9
  <2>2. ASSUME NEW k \in (Cardinality(W) + 1)..Len(order)
        PROVE  k - Cardinality(W) \in 1..Cardinality(R)
               /\ order[k] = others[k - Cardinality(W)] /\ order[k] \in ViewsAt(list, R)
    <3>1. k - Cardinality(W) \in 1..Cardinality(R) /\ Cardinality(W) + (k - Cardinality(W)) = k
      BY <1>6, <1>9
    <3>2. order[k] = others[k - Cardinality(W)]
      BY <1>9, <3>1
    <3>. QED
      BY <1>5, <3>1, <3>2
  <2>. QED
    BY <2>1, <2>2
<1>11. ViewsOf(order) = All
  <2>1. ViewsOf(order) \subseteq All
    BY <1>6, <1>9 DEF ViewsOf
  <2>2. ASSUME NEW v \in ViewsAt(list, W) PROVE v \in ViewsOf(order)
    <3>1. PICK k \in 1..Cardinality(W) : top[k] = v
      BY <1>4 DEF ViewsOf
    <3>2. k \in 1..Len(order) /\ order[k] = v
      BY <1>6, <1>9, <3>1
    <3>. QED
      BY <3>2 DEF ViewsOf
  <2>3. ASSUME NEW v \in ViewsAt(list, R) PROVE v \in ViewsOf(order)
    <3>1. PICK k \in 1..Cardinality(R) : others[k] = v
      BY <1>5 DEF ViewsOf
    <3>2. Cardinality(W) + k \in 1..Len(order) /\ order[Cardinality(W) + k] = v
      BY <1>6, <1>9, <3>1
    <3>. QED
      BY <3>2 DEF ViewsOf
  <2>. QED
    BY <1>7, <2>1, <2>2, <2>3
<1>12. \A k \in 1..Len(order) : order[k].waiting <=> k <= Cardinality(W)
  <2>. TAKE k \in 1..Len(order)
  <2>1. CASE k <= Cardinality(W)
    <3>1. order[k] \in ViewsAt(list, W)
      BY <1>6, <1>10, <2>1
    <3>. QED
      BY <1>1, <1>2, <2>1, <3>1 DEF ViewsAt
  <2>2. CASE ~(k <= Cardinality(W))
    <3>1. order[k] \in ViewsAt(list, R)
      BY <1>6, <1>9, <1>10, <2>2
    <3>. QED
      BY <1>1, <1>2, <2>2, <3>1 DEF ViewsAt
  <2>. QED
    BY <2>1, <2>2
<1>13. \A k, l \in (Cardinality(W) + 1)..Len(order) : k < l => order[k].at >= order[l].at
  <2>. TAKE k, l \in (Cardinality(W) + 1)..Len(order)
  <2>1. /\ order[k] = others[k - Cardinality(W)] /\ k - Cardinality(W) \in 1..Cardinality(R)
        /\ order[l] = others[l - Cardinality(W)] /\ l - Cardinality(W) \in 1..Cardinality(R)
    BY <1>10
  <2>2. k < l => k - Cardinality(W) < l - Cardinality(W)
    BY <1>6
  <2>. QED
    BY <1>5, <2>1, <2>2
<1>14. Cardinality(W) \in 0..Len(order)
  BY <1>6, <1>9
<1>15. Len(order) = Cardinality(positions)
  BY <1>6, <1>9
<1>. QED
  BY <1>9, <1>11, <1>12, <1>13, <1>14, <1>15 DEF W, order, All

-----------------------------------------------------------------------------
(***************************************************************************)
(* The terminal client.                                                    *)
(***************************************************************************)

TerminalTypeOK ==
  /\ stage \in {"apply", "key", "ended"}
  /\ termSize \in [width : Nat, height : Nat] /\ size \in [width : Nat, height : Nat]
  /\ IsList(sessions)
  /\ local \in BOOLEAN /\ resized \in BOOLEAN
  /\ view \in {"list", "detail"}
  /\ scroll \in Nat

\* The lines of a session are within the window from offset on.
InView(offset, row) == offset <= row /\ row + LinesPer <= offset + Body

\* What the cursor is on: a session of the list if it has one, within the window
\* unless the size of the terminal has changed since.
CursorHolds(order, waiting, id, offset, moved) ==
  /\ IF order = <<>> THEN id = Nothing ELSE Has(order, id)
  /\ id # Nothing /\ ~moved /\ Body >= LinesPer => InView(offset, RowOf(order, waiting, id))

\* What a user sees when a key can be pressed is what there is.
FrameIsCurrent == stage = "key" => frame = Frame

TerminalInv ==
  /\ CursorHolds(Order, WaitingCount, selected, scroll, resized)
  /\ FrameIsCurrent

-----------------------------------------------------------------------------
LEMMA LinesPerIs == LinesPer \in {1, 4}
BY DEF LinesPer

LEMMA OrderIs ==
  ASSUME NEW list, IsList(list), NEW isLocal \in BOOLEAN
  PROVE  /\ OrderOf(list, isLocal) \in Seq(Ids)
         /\ WaitingCountOf(list, isLocal) \in 0..Len(OrderOf(list, isLocal))
<1>. DEFINE positions == VisibleAt(list, isLocal)
            order == Partition(list, positions)
<1>1. positions \in SUBSET (1..Len(list))
  BY DEF VisibleAt
<1>. HIDE DEF positions
<1>2. order \in Seq(ViewsAt(list, positions))
      /\ Cardinality(WaitingAt(list, positions)) \in 0..Len(order)
  BY <1>1, PartitionIsComplete
<1>3. \A k \in 1..Len(order) : order[k].id \in Ids
  <2>1. \A k \in 1..Len(order) : order[k] \in ViewsAt(list, positions)
    BY <1>2
  <2>2. \A v \in ViewsAt(list, positions) : v.id \in Ids
    BY <1>1 DEF ViewsAt, IsList
  <2>. QED
    BY <2>1, <2>2
<1>. HIDE DEF order
<1>4. [i \in 1..Len(order) |-> order[i].id] \in Seq(Ids)
      /\ Len([i \in 1..Len(order) |-> order[i].id]) = Len(order)
  BY <1>2, <1>3
<1>5. OrderOf(list, isLocal) = [i \in 1..Len(order) |-> order[i].id]
  BY DEF OrderOf, order, positions
<1>6. WaitingCountOf(list, isLocal) = Cardinality(WaitingAt(list, positions))
  BY DEF WaitingCountOf, positions
<1>. QED
  BY <1>2, <1>4, <1>5, <1>6

LEMMA PositionIs ==
  ASSUME NEW order \in Seq(Ids), NEW id, Has(order, id)
  PROVE  /\ PositionIn(order, id) \in 1..Len(order)
         /\ order[PositionIn(order, id)] = id
         /\ id \in Ids /\ order # <<>>
BY DEF PositionIn, Has

LEMMA RowIs ==
  ASSUME NEW order \in Seq(Ids), NEW waiting \in 0..Len(order), NEW id, Has(order, id)
  PROVE  RowOf(order, waiting, id) \in Nat
<1>. DEFINE i == PositionIn(order, id)
<1>1. i \in 1..Len(order)
  BY PositionIs
<1>. HIDE DEF i
<1>2. CASE LinesPer = 1
  BY <1>1, <1>2 DEF RowOf, i
<1>3. CASE LinesPer = 4
  BY <1>1, <1>3 DEF RowOf, i
<1>. QED
  BY <1>2, <1>3, LinesPerIs

LEMMA SyncedShows ==
  ASSUME NEW offset \in Nat, NEW row \in Nat, Body \in Nat
  PROVE  /\ Synced(offset, row) \in Nat
         /\ Body >= LinesPer => InView(Synced(offset, row), row)
BY LinesPerIs DEF Synced, InView

LEMMA SelectHolds ==
  ASSUME TerminalTypeOK, NEW order \in Seq(Ids), NEW waiting \in 0..Len(order),
         NEW id, Has(order, id), Select(id, order, waiting)
  PROVE  /\ selected' = id
         /\ scroll' \in Nat /\ resized' \in BOOLEAN
         /\ CursorHolds(order, waiting, id, scroll', resized')
<1>1. /\ scroll' = Synced(scroll, RowOf(order, waiting, id)) /\ resized' = (Body = 0)
      /\ selected' = id
  BY DEF Select
<1>2. Body \in Nat /\ scroll \in Nat
  BY DEF TerminalTypeOK, Body
<1>3. RowOf(order, waiting, id) \in Nat
  BY RowIs
<1>4. /\ scroll' \in Nat
      /\ Body >= LinesPer => InView(scroll', RowOf(order, waiting, id))
  BY <1>1, <1>2, <1>3, SyncedShows
<1>. QED
  BY <1>1, <1>4, PositionIs DEF CursorHolds

LEMMA ReconcileHolds ==
  ASSUME TerminalTypeOK, NEW previous \in Seq(Ids), NEW order \in Seq(Ids),
         NEW waiting \in 0..Len(order), Reconcile(previous, order, waiting)
  PROVE  /\ scroll' \in Nat /\ resized' \in BOOLEAN /\ view' \in {"list", "detail"}
         /\ CursorHolds(order, waiting, selected', scroll', resized')
         /\ Has(order, selected) => selected' = selected
<1>1. CASE Has(order, selected)
  <2>1. Select(selected, order, waiting) /\ view' = view
    BY <1>1 DEF Reconcile
  <2>. QED
    BY <1>1, <2>1, SelectHolds DEF TerminalTypeOK
<1>2. CASE order = <<>>
  <2>1. ~Has(order, selected)
    BY <1>2 DEF Has
  <2>2. selected' = Nothing /\ scroll' = 0 /\ view' = "list" /\ resized' = FALSE
    BY <1>2, <2>1 DEF Reconcile
  <2>. QED
    BY <1>2, <2>1, <2>2 DEF CursorHolds
<1>3. CASE ~Has(order, selected) /\ order # <<>>
  <2>. DEFINE place == IF Has(previous, selected) THEN PositionIn(previous, selected) ELSE 1
              id == order[IF place <= Len(order) THEN place ELSE Len(order)]
  <2>1. place \in Nat \ {0}
    BY PositionIs
  <2>2. Len(order) \in Nat \ {0}
    BY <1>3
  <2>3. Select(id, order, waiting) /\ view' = view
    BY <1>3 DEF Reconcile
  <2>. HIDE DEF place
  <2>4. Has(order, id)
    BY <2>1, <2>2 DEF Has
  <2>. HIDE DEF id
  <2>. QED
    BY <1>3, <2>3, <2>4, SelectHolds DEF TerminalTypeOK
<1>. QED
  BY <1>1, <1>2, <1>3

LEMMA MoveHolds ==
  ASSUME TerminalTypeOK, CursorHolds(Order, WaitingCount, selected, scroll, resized),
         Order \in Seq(Ids), WaitingCount \in 0..Len(Order), NEW place,
         Order # <<>> => place \in 1..Len(Order), MoveTo(place)
  PROVE  /\ scroll' \in Nat /\ resized' \in BOOLEAN
         /\ CursorHolds(Order, WaitingCount, selected', scroll', resized')
<1>1. CASE Order = <<>>
  BY <1>1 DEF MoveTo, TerminalTypeOK, CursorHolds
<1>2. CASE Order # <<>>
  <2>1. Has(Order, Order[place]) /\ Select(Order[place], Order, WaitingCount)
    BY <1>2 DEF Has, MoveTo
  <2>. QED
    BY <2>1, SelectHolds
<1>. QED
  BY <1>1, <1>2

LEMMA MovedIs ==
  ASSUME TerminalTypeOK, Order \in Seq(Ids), Order # <<>>,
         NEW delta \in Int
  PROVE  Moved(delta) \in 1..Len(Order)
<1>1. Len(Order) \in Nat \ {0}
  OBVIOUS
<1>2. \A n \in Int : (n % Len(Order)) + 1 \in 1..Len(Order)
  BY <1>1
<1>3. CASE Has(Order, selected)
  <2>1. PositionIn(Order, selected) - 1 + delta \in Int
    BY <1>3, PositionIs
  <2>. QED
    BY <1>2, <1>3, <2>1 DEF Moved
<1>4. CASE ~Has(Order, selected)
  BY <1>1, <1>4 DEF Moved
<1>. QED
  BY <1>3, <1>4

LEMMA HalfPageIs ==
  ASSUME TerminalTypeOK
  PROVE  HalfPage \in Int
<1>1. Body \in Nat
  BY DEF TerminalTypeOK, Body
<1>. QED
  BY <1>1, LinesPerIs DEF HalfPage

Lines == [id : Ids \cup {Nothing}, line : Nat]

LEMMA LinesOfIs ==
  ASSUME NEW order \in Seq(Ids), NEW from \in Nat \ {0}, NEW to \in Nat,
         from <= to + 1, to <= Len(order)
  PROVE  /\ LinesOf(order, from, to) \in Seq(Lines)
         /\ Len(LinesOf(order, from, to)) = (to - from + 1) * LinesPer
         /\ \A i \in from..to, line \in 1..LinesPer :
              /\ (i - from) * LinesPer + line \in 1..Len(LinesOf(order, from, to))
              /\ LinesOf(order, from, to)[(i - from) * LinesPer + line]
                   = [id |-> order[i], line |-> line]
<1>. DEFINE all == LinesOf(order, from, to)
            count == (to - from + 1) * LinesPer
            place(i, line) == (i - from) * LinesPer + line
<1>1. count \in Nat
  <2>1. CASE LinesPer = 1
    BY <2>1
  <2>2. CASE LinesPer = 4
    BY <2>2
  <2>. QED
    BY <2>1, <2>2, LinesPerIs
<1>2. \A k \in 1..count : /\ from + (k - 1) \div LinesPer \in 1..Len(order)
                          /\ ((k - 1) % LinesPer) + 1 \in Nat
  <2>1. CASE LinesPer = 1
    BY <2>1
  <2>2. CASE LinesPer = 4
    BY <2>2
  <2>. QED
    BY <2>1, <2>2, LinesPerIs
<1>3. \A i \in from..to, line \in 1..LinesPer :
        /\ place(i, line) \in 1..count
        /\ from + (place(i, line) - 1) \div LinesPer = i
        /\ ((place(i, line) - 1) % LinesPer) + 1 = line
  <2>1. CASE LinesPer = 1
    BY <2>1
  <2>2. CASE LinesPer = 4
    BY <2>2
  <2>. QED
    BY <2>1, <2>2, LinesPerIs
<1>. DEFINE which(k) == from + (k - 1) \div LinesPer
            number(k) == ((k - 1) % LinesPer) + 1
<1>4. all = [k \in 1..count |-> [id |-> order[which(k)], line |-> number(k)]]
  BY DEF LinesOf
<1>5. /\ \A k \in 1..count : which(k) \in 1..Len(order) /\ number(k) \in Nat
      /\ \A i \in from..to, line \in 1..LinesPer :
           place(i, line) \in 1..count /\ which(place(i, line)) = i /\ number(place(i, line)) = line
  BY <1>2, <1>3
<1>. HIDE DEF all, count, which, number, place
<1>6. \A k \in 1..count : all[k] = [id |-> order[which(k)], line |-> number(k)]
  BY <1>4
<1>7. \A k \in 1..count : all[k] \in Lines
  <2>. TAKE k \in 1..count
  <2>1. order[which(k)] \in Ids /\ number(k) \in Nat
    BY <1>5
  <2>2. all[k] = [id |-> order[which(k)], line |-> number(k)]
    BY <1>6
  <2>3. [id |-> order[which(k)], line |-> number(k)] \in Lines
    BY <2>1 DEF Lines
  <2>. QED
    BY <2>2, <2>3
<1>8. all \in Seq(Lines) /\ Len(all) = count
  <2>1. all \in [1..count -> Lines]
    BY <1>4, <1>7
  <2>. QED
    BY <1>1, <2>1
<1>9. \A i \in from..to, line \in 1..LinesPer :
        place(i, line) \in 1..Len(all) /\ all[place(i, line)] = [id |-> order[i], line |-> line]
  BY <1>5, <1>6, <1>8
<1>. QED
  BY <1>8, <1>9 DEF all, count, place

LEMMA FlatLinesShow ==
  ASSUME TerminalTypeOK, NEW id, Has(Order, id), NEW line \in 1..LinesPer
  PROVE  /\ FlatLines \in Seq(Lines)
         /\ RowOf(Order, WaitingCount, id) + line \in 1..Len(FlatLines)
         /\ FlatLines[RowOf(Order, WaitingCount, id) + line] = [id |-> id, line |-> line]
<1>. DEFINE order == Order
            w == WaitingCount
            n == Len(order)
            i == PositionIn(order, id)
            row == RowOf(order, w, id)
            border == <<Border>>
            top == LinesOf(order, 1, w)
            others == LinesOf(order, w + 1, n)
<1>1. order \in Seq(Ids) /\ n \in Nat /\ w \in 0..n
  BY OrderIs DEF TerminalTypeOK, Order, WaitingCount
<1>2. i \in 1..n /\ order[i] = id
  BY <1>1, PositionIs
<1>3. LinesPer \in {1, 4} /\ line \in Nat
  BY LinesPerIs
<1>4. border \in Seq(Lines) /\ Len(border) = 1
  BY DEF Border, Lines
<1>5. row = IF i <= w THEN 1 + (i - 1) * LinesPer
                      ELSE (IF w > 0 THEN 2 ELSE 0) + (i - 1) * LinesPer
  BY DEF RowOf
<1>6. FlatLines = IF w = 0 THEN LinesOf(order, 1, n)
                  ELSE border \o top \o border \o others
  BY DEF FlatLines
<1>. HIDE DEF order, w, n, i, row, border
<1>7. CASE w = 0
  <2>1. row + line = (i - 1) * LinesPer + line
    <3>1. row = 0 + (i - 1) * LinesPer
      BY <1>2, <1>5, <1>7
    <3>2. (i - 1) * LinesPer \in Int
      BY <1>1, <1>2, <1>3
    <3>. QED
      BY <3>1, <3>2
  <2>2. /\ LinesOf(order, 1, n) \in Seq(Lines)
        /\ (i - 1) * LinesPer + line \in 1..Len(LinesOf(order, 1, n))
        /\ LinesOf(order, 1, n)[(i - 1) * LinesPer + line] = [id |-> order[i], line |-> line]
    BY <1>1, <1>2, LinesOfIs DEF n
  <2>. QED
    BY <1>2, <1>6, <1>7, <2>1, <2>2 DEF order, w, row
<1>8. CASE w # 0
  <2>1. /\ top \in Seq(Lines) /\ Len(top) = w * LinesPer
        /\ \A j \in 1..w : /\ (j - 1) * LinesPer + line \in 1..Len(top)
                           /\ top[(j - 1) * LinesPer + line] = [id |-> order[j], line |-> line]
    <3>1. 1 \in Nat \ {0} /\ w \in Nat /\ 1 <= w + 1 /\ w <= Len(order) /\ w - 1 + 1 = w
      BY <1>1 DEF n
    <3>2. /\ LinesOf(order, 1, w) \in Seq(Lines)
          /\ Len(LinesOf(order, 1, w)) = (w - 1 + 1) * LinesPer
          /\ \A j \in 1..w :
               /\ (j - 1) * LinesPer + line \in 1..Len(LinesOf(order, 1, w))
               /\ LinesOf(order, 1, w)[(j - 1) * LinesPer + line]
                    = [id |-> order[j], line |-> line]
      BY <1>1, <3>1, LinesOfIs
    <3>. QED
      BY <3>1, <3>2
  <2>2. /\ others \in Seq(Lines)
        /\ \A j \in (w + 1)..n :
             /\ (j - (w + 1)) * LinesPer + line \in 1..Len(others)
             /\ others[(j - (w + 1)) * LinesPer + line] = [id |-> order[j], line |-> line]
    <3>. DEFINE from == w + 1
    <3>1. from \in Nat \ {0} /\ n \in Nat /\ from <= n + 1 /\ n <= Len(order)
      BY <1>1 DEF n
    <3>. HIDE DEF from
    <3>2. /\ LinesOf(order, from, n) \in Seq(Lines)
          /\ \A j \in from..n :
               /\ (j - from) * LinesPer + line \in 1..Len(LinesOf(order, from, n))
               /\ LinesOf(order, from, n)[(j - from) * LinesPer + line]
                    = [id |-> order[j], line |-> line]
      BY <1>1, <3>1, LinesOfIs
    <3>. QED
      BY <3>2 DEF from
  <2>. HIDE DEF top, others
  <2>3. /\ border \o top \in Seq(Lines) /\ Len(border \o top) = 1 + Len(top)
        /\ \A k \in 1..Len(top) : (border \o top)[1 + k] = top[k]
    <3>1. /\ border \o top \in Seq(Lines) /\ Len(border \o top) = Len(border) + Len(top)
          /\ \A k \in 1..Len(top) : (border \o top)[Len(border) + k] = top[k]
      <4>1. border \in Seq(Lines) /\ top \in Seq(Lines)
        BY <1>4, <2>1
      <4>. QED
        BY <4>1, ConcatIs
    <3>. QED
      BY <1>4, <3>1
  <2>4. /\ border \o top \o border \in Seq(Lines) /\ Len(border \o top \o border) = 2 + Len(top)
        /\ \A k \in 1..(1 + Len(top)) : (border \o top \o border)[k] = (border \o top)[k]
    <3>. DEFINE s == border \o top
    <3>. HIDE DEF s
    <3>1. /\ s \o border \in Seq(Lines) /\ Len(s \o border) = Len(s) + Len(border)
          /\ \A k \in 1..Len(s) : (s \o border)[k] = s[k]
      BY <1>4, <2>3, ConcatIs DEF s
    <3>. QED
      BY <1>4, <2>1, <2>3, <3>1 DEF s
  <2>5. /\ FlatLines \in Seq(Lines) /\ Len(FlatLines) = 2 + Len(top) + Len(others)
        /\ \A k \in 1..(2 + Len(top)) : FlatLines[k] = (border \o top \o border)[k]
        /\ \A k \in 1..Len(others) : FlatLines[2 + Len(top) + k] = others[k]
    <3>. DEFINE s == border \o top \o border
    <3>1. FlatLines = s \o others
      BY <1>6, <1>8 DEF top, others
    <3>. HIDE DEF s
    <3>2. /\ s \o others \in Seq(Lines) /\ Len(s \o others) = Len(s) + Len(others)
          /\ \A k \in 1..Len(s) : (s \o others)[k] = s[k]
          /\ \A k \in 1..Len(others) : (s \o others)[Len(s) + k] = others[k]
      <4>1. s \in Seq(Lines)
        BY <2>4 DEF s
      <4>. QED
        BY <2>2, <4>1, ConcatIs
    <3>3. Len(s) = 2 + Len(top)
      BY <2>4 DEF s
    <3>. QED
      BY <3>1, <3>2, <3>3 DEF s
  <2>6. CASE i <= w
    <3>. DEFINE k == (i - 1) * LinesPer + line
    <3>1. k \in 1..Len(top) /\ top[k] = [id |-> order[i], line |-> line]
      BY <1>1, <1>2, <2>1, <2>6
    <3>2. row + line = 1 + k
      BY <1>1, <1>2, <1>3, <1>5, <2>6
    <3>. HIDE DEF k
    <3>3. 1 + k \in 1..Len(FlatLines) /\ FlatLines[1 + k] = top[k]
      <4>1. Len(top) \in Nat /\ Len(others) \in Nat
        BY <2>1, <2>2
      <4>2. 1 + k \in 1..(1 + Len(top)) /\ 1 + k \in 1..(2 + Len(top)) /\ 1 + k \in 1..Len(FlatLines)
        BY <2>5, <3>1, <4>1
      <4>. QED
        BY <2>3, <2>4, <2>5, <3>1, <4>2
    <3>. QED
      BY <1>2, <2>5, <3>1, <3>2, <3>3 DEF order, w, row
  <2>7. CASE ~(i <= w)
    <3>. DEFINE k == (i - (w + 1)) * LinesPer + line
    <3>1. k \in 1..Len(others) /\ others[k] = [id |-> order[i], line |-> line]
      BY <1>1, <1>2, <2>2, <2>7
    <3>2. row + line = 2 + Len(top) + k
      <4>1. row = 2 + (i - 1) * LinesPer
        BY <1>1, <1>2, <1>3, <1>5, <1>8, <2>7
      <4>2. CASE LinesPer = 1
        BY <1>1, <1>2, <1>3, <2>1, <4>1, <4>2
      <4>3. CASE LinesPer = 4
        BY <1>1, <1>2, <1>3, <2>1, <4>1, <4>3
      <4>. QED
        BY <1>3, <4>2, <4>3
    <3>. HIDE DEF k
    <3>3. 2 + Len(top) + k \in 1..Len(FlatLines) /\ FlatLines[2 + Len(top) + k] = others[k]
      <4>1. Len(top) \in Nat /\ Len(others) \in Nat
        BY <2>1, <2>2
      <4>. QED
        BY <2>5, <3>1, <4>1
    <3>. QED
      BY <1>2, <2>5, <3>1, <3>2, <3>3 DEF order, w, row
  <2>. QED
    BY <2>6, <2>7
<1>. QED
  BY <1>7, <1>8

LEMMA ListsAreLists == \A list \in Lists \cup {<<>>} : IsList(list)
<1>1. IsList(<<>>)
  BY DEF IsList
<1>. QED
  BY <1>1, ListsAssumption DEF IsList

\* The cursor, of the same window, over what comes to be the order.
LEMMA CursorLater ==
  ASSUME size' = size, NEW order, NEW waiting, Order' = order, WaitingCount' = waiting,
         CursorHolds(order, waiting, selected', scroll', resized')
  PROVE  CursorHolds(Order, WaitingCount, selected, scroll, resized)'
BY DEF CursorHolds, InView, RowOf, Body, LinesPer, Wide

cursorVars == <<size, sessions, local, selected, scroll, resized>>

LEMMA CursorUntouched ==
  ASSUME CursorHolds(Order, WaitingCount, selected, scroll, resized), UNCHANGED cursorVars
  PROVE  CursorHolds(Order, WaitingCount, selected, scroll, resized)'
<1>1. size' = size /\ Order' = Order /\ WaitingCount' = WaitingCount
      /\ selected' = selected /\ scroll' = scroll /\ resized' = resized
  BY DEF cursorVars, Order, WaitingCount
<1>. QED
  BY <1>1, CursorLater

LEMMA KeysTouchLittle ==
  ASSUME TerminalTypeOK,
         \/ ReceiveConnection \/ NoKeyPressed \/ KeyEnter \/ KeyDelete \/ KeySpace
         \/ KeyConfirm \/ KeyCancel \/ KeyQuit \/ UNCHANGED terminalVars
         \/ \E new \in TermSizes : Resize(new)
  PROVE  UNCHANGED cursorVars /\ TerminalTypeOK'
<1>1. UNCHANGED cursorVars
  BY DEF ReceiveConnection, NoKeyPressed, KeyEnter, KeyDelete, KeySpace, KeyConfirm, KeyCancel,
         KeyQuit, Resize, KeyLeaves, terminalVars, stateVars, cursorVars
<1>2. stage' \in {"apply", "key", "ended"} /\ view' \in {"list", "detail"}
  BY DEF ReceiveConnection, NoKeyPressed, KeyEnter, KeyDelete, KeySpace, KeyConfirm, KeyCancel,
         KeyQuit, Resize, KeyLeaves, terminalVars, stateVars, TerminalTypeOK
<1>3. termSize' \in [width : Nat, height : Nat]
  BY TerminalAssumption
  DEF ReceiveConnection, NoKeyPressed, KeyEnter, KeyDelete, KeySpace, KeyConfirm, KeyCancel,
      KeyQuit, Resize, KeyLeaves, terminalVars, stateVars, TerminalTypeOK
<1>. QED
  BY <1>1, <1>2, <1>3 DEF cursorVars, TerminalTypeOK

LEMMA DrawKeepsCursor ==
  ASSUME TerminalTypeOK, CursorHolds(Order, WaitingCount, selected, scroll, resized), Draw
  PROVE  TerminalTypeOK' /\ CursorHolds(Order, WaitingCount, selected, scroll, resized)'
<1>1. /\ UNCHANGED <<termSize, sessions, selected, local, view, scroll>>
      /\ stage' = "key" /\ resized' = (resized \/ size' # size)
  BY DEF Draw, stateVars
<1>2. size' \in [width : Nat, height : Nat]
  BY DEF Draw, TakeSize, TerminalTypeOK
<1>3. TerminalTypeOK'
  BY <1>1, <1>2 DEF TerminalTypeOK
<1>4. Order' = Order /\ WaitingCount' = WaitingCount
  BY <1>1 DEF Order, WaitingCount
<1>5. CASE size' = size
  <2>1. resized' = resized
    BY <1>1, <1>5 DEF TerminalTypeOK
  <2>. QED
    BY <1>1, <1>3, <1>4, <1>5, <2>1, CursorLater
<1>6. CASE size' # size
  BY <1>1, <1>3, <1>4, <1>6 DEF CursorHolds
<1>. QED
  BY <1>5, <1>6

LEMMA ListsKeepCursor ==
  ASSUME TerminalTypeOK, NEW list \in Lists, ReceiveSessions(list)
  PROVE  /\ TerminalTypeOK' /\ CursorHolds(Order, WaitingCount, selected, scroll, resized)'
         /\ Has(OrderOf(sessions', local'), selected) => selected' = selected
<1>. DEFINE order == OrderOf(list, local)
            waiting == WaitingCountOf(list, local)
<1>1. /\ UNCHANGED <<stage, termSize, size, local>> /\ sessions' = list
      /\ Reconcile(Order, order, waiting)
  BY DEF ReceiveSessions
<1>2. IsList(list) /\ IsList(sessions) /\ local \in BOOLEAN
  BY ListsAreLists DEF TerminalTypeOK
<1>3. Order \in Seq(Ids) /\ order \in Seq(Ids) /\ waiting \in 0..Len(order)
  BY <1>2, OrderIs DEF Order
<1>4. Order' = order /\ WaitingCount' = waiting /\ OrderOf(sessions', local') = order
  BY <1>1 DEF Order, WaitingCount
<1>. HIDE DEF order, waiting
<1>5. /\ scroll' \in Nat /\ resized' \in BOOLEAN /\ view' \in {"list", "detail"}
      /\ CursorHolds(order, waiting, selected', scroll', resized')
      /\ Has(order, selected) => selected' = selected
  BY <1>1, <1>3, ReconcileHolds
<1>6. TerminalTypeOK'
  BY <1>1, <1>2, <1>5 DEF TerminalTypeOK
<1>. QED
  BY <1>1, <1>4, <1>5, <1>6, CursorLater

LEMMA HostsKeepCursor ==
  ASSUME TerminalTypeOK, CursorHolds(Order, WaitingCount, selected, scroll, resized), KeyHosts
  PROVE  TerminalTypeOK' /\ CursorHolds(Order, WaitingCount, selected, scroll, resized)'
<1>1. stage' = "apply" /\ UNCHANGED <<termSize, size, sessions>>
  BY DEF KeyHosts, KeyLeaves
<1>2. CASE LocalHost = Nothing
  <2>1. UNCHANGED <<selected, scroll, resized, view, local>>
    BY <1>2 DEF KeyHosts
  <2>. QED
    BY <1>1, <2>1, CursorUntouched DEF cursorVars, TerminalTypeOK
<1>3. CASE LocalHost # Nothing
  <2>. DEFINE order == OrderOf(sessions, local')
              waiting == WaitingCountOf(sessions, local')
  <2>1. local' \in BOOLEAN /\ Reconcile(Order, order, waiting)
    BY <1>3 DEF KeyHosts, TerminalTypeOK
  <2>2. Order \in Seq(Ids) /\ order \in Seq(Ids) /\ waiting \in 0..Len(order)
    BY <2>1, OrderIs DEF Order, TerminalTypeOK
  <2>3. Order' = order /\ WaitingCount' = waiting
    BY <1>1 DEF Order, WaitingCount
  <2>. HIDE DEF order, waiting
  <2>4. /\ scroll' \in Nat /\ resized' \in BOOLEAN /\ view' \in {"list", "detail"}
        /\ CursorHolds(order, waiting, selected', scroll', resized')
    BY <2>1, <2>2, ReconcileHolds
  <2>5. TerminalTypeOK'
    BY <1>1, <2>1, <2>4 DEF TerminalTypeOK
  <2>. QED
    BY <1>1, <2>3, <2>4, <2>5, CursorLater
<1>. QED
  BY <1>2, <1>3

LEMMA MovesKeepCursor ==
  ASSUME TerminalTypeOK, CursorHolds(Order, WaitingCount, selected, scroll, resized),
         KeyMove \/ KeyLast \/ KeyFirst
  PROVE  TerminalTypeOK' /\ CursorHolds(Order, WaitingCount, selected, scroll, resized)'
<1>1. stage' = "apply" /\ UNCHANGED <<termSize, size, sessions, local, view>>
  BY DEF KeyMove, KeyLast, KeyFirst, KeyLeaves
<1>2. Order \in Seq(Ids) /\ WaitingCount \in 0..Len(Order)
  BY OrderIs DEF Order, WaitingCount, TerminalTypeOK
<1>3. Order' = Order /\ WaitingCount' = WaitingCount
  BY <1>1 DEF Order, WaitingCount
<1>4. CASE UNCHANGED <<selected, scroll, resized>>
  BY <1>1, <1>4, CursorUntouched DEF cursorVars, TerminalTypeOK
<1>5. CASE \E place : (Order # <<>> => place \in 1..Len(Order)) /\ MoveTo(place)
  <2>1. /\ scroll' \in Nat /\ resized' \in BOOLEAN
        /\ CursorHolds(Order, WaitingCount, selected', scroll', resized')
    BY <1>2, <1>5, MoveHolds
  <2>2. TerminalTypeOK'
    BY <1>1, <2>1 DEF TerminalTypeOK
  <2>. QED
    BY <1>1, <1>3, <2>1, <2>2, CursorLater
<1>6. \/ UNCHANGED <<selected, scroll, resized>>
      \/ \E place : (Order # <<>> => place \in 1..Len(Order)) /\ MoveTo(place)
  <2>1. CASE KeyMove
    <3>1. PICK delta \in {1, -1, HalfPage, -HalfPage} : MoveTo(Moved(delta))
      BY <2>1 DEF KeyMove
    <3>2. delta \in Int
      BY HalfPageIs
    <3>3. Order # <<>> => Moved(delta) \in 1..Len(Order)
      BY <1>2, <3>2, MovedIs
    <3>. QED
      BY <3>1, <3>3
  <2>2. CASE KeyLast
    <3>1. Order # <<>> => Len(Order) \in 1..Len(Order)
      BY <1>2
    <3>. QED
      BY <2>2, <3>1 DEF KeyLast
  <2>3. CASE KeyFirst
    <3>1. Order # <<>> => 1 \in 1..Len(Order)
      BY <1>2
    <3>. QED
      BY <2>3, <3>1 DEF KeyFirst
  <2>. QED
    BY <2>1, <2>2, <2>3
<1>. QED
  BY <1>4, <1>5, <1>6

LEMMA CursorStep ==
  ASSUME TerminalTypeOK, TerminalInv, [TerminalNext]_terminalVars
  PROVE  TerminalTypeOK' /\ CursorHolds(Order, WaitingCount, selected, scroll, resized)'
<1>. CursorHolds(Order, WaitingCount, selected, scroll, resized)
  BY DEF TerminalInv
<1>1. CASE \E list \in Lists : ReceiveSessions(list)
  BY <1>1, ListsKeepCursor
<1>2. CASE Draw
  BY <1>2, DrawKeepsCursor
<1>3. CASE KeyMove \/ KeyLast \/ KeyFirst
  BY <1>3, MovesKeepCursor
<1>4. CASE KeyHosts
  BY <1>4, HostsKeepCursor
<1>5. CASE \/ ReceiveConnection \/ NoKeyPressed \/ KeyEnter \/ KeyDelete \/ KeySpace
           \/ KeyConfirm \/ KeyCancel \/ KeyQuit \/ UNCHANGED terminalVars
           \/ \E new \in TermSizes : Resize(new)
  BY <1>5, KeysTouchLittle, CursorUntouched
<1>. QED
  BY <1>1, <1>2, <1>3, <1>4, <1>5 DEF TerminalNext

\* What is drawn is what there is, as long as a key is waited for.
LEMMA FrameStep ==
  ASSUME TerminalTypeOK, FrameIsCurrent, [TerminalNext]_terminalVars
  PROVE  FrameIsCurrent'
<1>1. CASE Draw
  BY <1>1 DEF Draw, FrameIsCurrent
<1>2. CASE UNCHANGED <<stage, size, stateVars, frame>>
  <2>1. Frame' = Frame
    BY <1>2 DEF stateVars, Frame, Visible, Order, Page, Has, LinesInView, FlatLines, WaitingCount,
                LinesOf, Border, LinesPer, Wide, Body
  <2>. QED
    BY <1>2, <2>1 DEF FrameIsCurrent
<1>3. CASE \E new \in TermSizes : Resize(new)
  BY <1>2, <1>3 DEF Resize
<1>4. CASE UNCHANGED terminalVars
  BY <1>2, <1>4 DEF terminalVars
<1>5. CASE stage' # "key"
  BY <1>5 DEF FrameIsCurrent
<1>6. CASE (\E list \in Lists : ReceiveSessions(list)) \/ ReceiveConnection
  BY <1>5, <1>6 DEF ReceiveSessions, ReceiveConnection
<1>7. CASE \/ NoKeyPressed \/ KeyMove \/ KeyLast \/ KeyFirst \/ KeyEnter \/ KeyDelete
           \/ KeySpace \/ KeyHosts \/ KeyConfirm \/ KeyCancel \/ KeyQuit
  <2>1. stage' \in {"apply", "ended"}
    BY <1>7 DEF NoKeyPressed, KeyMove, KeyLast, KeyFirst, KeyEnter, KeyDelete, KeySpace,
                KeyHosts, KeyConfirm, KeyCancel, KeyQuit
  <2>. QED
    BY <1>5, <2>1
<1>. QED
  BY <1>1, <1>3, <1>4, <1>6, <1>7 DEF TerminalNext

LEMMA TerminalIsInductive ==
  TerminalSpec => [](TerminalTypeOK /\ TerminalInv)
<1>1. TerminalInit => TerminalTypeOK /\ TerminalInv
  <2>. SUFFICES ASSUME TerminalInit PROVE TerminalTypeOK /\ TerminalInv
    OBVIOUS
  <2>1. TerminalTypeOK
    BY ListsAreLists, TerminalAssumption DEF TerminalInit, TerminalTypeOK
  <2>2. Order \in Seq(Ids) /\ Len(Order) = 0
    <3>1. VisibleAt(sessions, local) = {}
      BY DEF TerminalInit, VisibleAt
    <3>2. Len(Partition(sessions, VisibleAt(sessions, local))) = 0
      BY <2>1, <3>1, PartitionIsComplete, FS_EmptySet DEF TerminalTypeOK
    <3>3. Order \in Seq(Ids)
      BY <2>1, OrderIs DEF Order, TerminalTypeOK
    <3>. QED
      BY <3>2, <3>3 DEF Order, OrderOf
  <2>3. Order = <<>> /\ selected = Nothing /\ stage # "key"
    BY <2>2 DEF TerminalInit
  <2>. QED
    BY <2>1, <2>3 DEF TerminalInv, CursorHolds, FrameIsCurrent
<1>2. TerminalTypeOK /\ TerminalInv /\ [TerminalNext]_terminalVars => (TerminalTypeOK /\ TerminalInv)'
  BY CursorStep, FrameStep DEF TerminalInv
<1>. QED
  BY <1>1, <1>2, PTL DEF TerminalSpec

(***************************************************************************)
(* Whatever lists come, however the terminal is sized and whatever is      *)
(* pressed: the list has a cursor as long as it has sessions, and it is in *)
(* the window with all its lines.                                          *)
(***************************************************************************)
THEOREM CursorIsShown == TerminalSpec => []SelectedSessionIsShown
<1>1. TerminalTypeOK /\ TerminalInv => SelectedSessionIsShown
  <2>. SUFFICES ASSUME TerminalTypeOK, TerminalInv, stage = "key"
                PROVE  /\ selected = Nothing <=> frame.visible = {}
                       /\ view = "detail" => frame.page = selected
                       /\ view = "list" /\ selected # Nothing /\ ~resized /\ Body >= LinesPer =>
                            \A line \in 1..LinesPer :
                              [id |-> selected, line |-> line] \in frame.lines
    BY DEF SelectedSessionIsShown
  <2>1. /\ frame.visible = Visible /\ frame.page = Page
        /\ view = "list" => frame.lines = LinesInView
    BY DEF TerminalInv, FrameIsCurrent, Frame
  <2>2. Order \in Seq(Ids) /\ CursorHolds(Order, WaitingCount, selected, scroll, resized)
    BY OrderIs DEF Order, TerminalTypeOK, TerminalInv
  <2>3. selected # Nothing => Has(Order, selected)
    BY <2>2 DEF CursorHolds
  <2>4. selected = Nothing <=> Visible = {}
    <3>1. Order # <<>> => selected # Nothing
      BY <2>2, PositionIs, ListsAssumption DEF CursorHolds
    <3>2. Order = <<>> <=> Visible = {}
      <4>1. Order # <<>> => 1 \in 1..Len(Order)
        BY <2>2
      <4>2. Order = <<>> => 1..Len(Order) = {}
        BY <2>2
      <4>3. Visible = {Order[i] : i \in 1..Len(Order)}
        BY DEF Visible
      <4>. QED
        BY <4>1, <4>2, <4>3
    <3>. QED
      BY <2>2, <3>1, <3>2 DEF CursorHolds
  <2>5. view = "detail" => Page = selected
    BY <2>3 DEF Page
  <2>6. ASSUME view = "list", selected # Nothing, ~resized, Body >= LinesPer, NEW line \in 1..LinesPer
        PROVE  [id |-> selected, line |-> line] \in LinesInView
    <3>. DEFINE k == RowOf(Order, WaitingCount, selected) + line
    <3>1. InView(scroll, RowOf(Order, WaitingCount, selected))
      BY <2>2, <2>6 DEF CursorHolds
    <3>2. /\ FlatLines \in Seq(Lines) /\ k \in 1..Len(FlatLines)
          /\ FlatLines[k] = [id |-> selected, line |-> line]
      BY <2>3, <2>6, FlatLinesShow
    <3>3. /\ RowOf(Order, WaitingCount, selected) \in Nat /\ scroll \in Nat /\ Body \in Nat
      <4>1. WaitingCount \in 0..Len(Order)
        BY OrderIs DEF Order, WaitingCount, TerminalTypeOK
      <4>. QED
        BY <2>2, <2>3, <2>6, <4>1, RowIs DEF TerminalTypeOK, Body
    <3>4. scroll < k /\ k <= scroll + Body
      BY <3>1, <3>3, LinesPerIs DEF InView
    <3>. HIDE DEF k
    <3>5. k \in (scroll + 1)..(IF scroll + Body <= Len(FlatLines) THEN scroll + Body
                                                               ELSE Len(FlatLines))
      BY <3>2, <3>3, <3>4
    <3>. QED
      BY <3>2, <3>5 DEF LinesInView
  <2>. QED
    BY <2>1, <2>4, <2>5, <2>6
<1>. QED
  BY <1>1, TerminalIsInductive, PTL

(***************************************************************************)
(* What a key acts on is what the user saw: the session activated is the   *)
(* one drawn as selected, the one deleted the one the dialog named, still  *)
(* in the list; and no list takes the cursor off a session it still has.   *)
(***************************************************************************)
THEOREM KeysHitWhatIsSeen == TerminalSpec => AimIsKept
<1>. DEFINE Aim ==
       /\ effect' \in [activated : Ids] => effect' = effect \/ effect'.activated = frame.selected
       /\ effect' \in [deleted : Ids] =>
            effect' = effect \/ (effect'.deleted = frame.dialog /\ frame.dialog \in frame.visible)
       /\ ~Key /\ Has(OrderOf(sessions', local'), selected) => selected' = selected
<1>1. TerminalTypeOK /\ TerminalInv /\ [TerminalNext]_terminalVars => [Aim]_terminalVars
  <2>. SUFFICES ASSUME TerminalTypeOK, TerminalInv, TerminalNext PROVE Aim
    OBVIOUS
  <2>1. Key => frame.selected = selected /\ frame.dialog = pending /\ frame.visible = Visible
    BY DEF TerminalInv, FrameIsCurrent, Key, Frame
  <2>2. CASE effect' = effect /\ (Key \/ selected' = selected)
    BY <2>2
  <2>3. CASE \E list \in Lists : ReceiveSessions(list)
    <3>1. effect' = effect
      BY <2>3 DEF ReceiveSessions
    <3>2. Has(OrderOf(sessions', local'), selected) => selected' = selected
      BY <2>3, ListsKeepCursor
    <3>. QED
      BY <3>1, <3>2
  <2>4. CASE Draw
    <3>1. effect' = Nothing /\ selected' = selected
      BY <2>4 DEF Draw, stateVars
    <3>. QED
      BY <3>1, TerminalAssumption
  <2>5. CASE KeyEnter
    <3>1. Key /\ (effect' = effect \/ effect' = [activated |-> selected])
      BY <2>5 DEF KeyEnter, ListKey
    <3>. QED
      BY <2>1, <3>1
  <2>6. CASE KeyConfirm
    <3>1. Key /\ effect' = IF Has(Order, pending) THEN [deleted |-> pending] ELSE Nothing
      BY <2>6 DEF KeyConfirm, Confirmed
    <3>2. CASE Has(Order, pending)
      <4>1. pending \in Visible /\ effect' = [deleted |-> pending]
        BY <3>1, <3>2 DEF Has, Visible
      <4>. QED
        BY <2>1, <3>1, <4>1
    <3>3. CASE ~Has(Order, pending)
      BY <3>1, <3>3, TerminalAssumption
    <3>. QED
      BY <3>2, <3>3
  <2>7. CASE \/ ReceiveConnection \/ (\E new \in TermSizes : Resize(new)) \/ NoKeyPressed
             \/ KeyMove \/ KeyLast \/ KeyFirst \/ KeyDelete \/ KeySpace \/ KeyHosts
             \/ KeyCancel \/ KeyQuit
    <3>1. effect' = effect /\ (Key \/ selected' = selected)
      BY <2>7 DEF ReceiveConnection, Resize, NoKeyPressed, KeyMove, KeyLast, KeyFirst, KeyDelete,
                  KeySpace, KeyHosts, KeyCancel, KeyQuit, ListKey, Key, KeyLeaves, stateVars
    <3>. QED
      BY <2>2, <3>1
  <2>. QED
    BY <2>3, <2>4, <2>5, <2>6, <2>7 DEF TerminalNext
<1>. QED
  BY <1>1, TerminalIsInductive, PTL DEF TerminalSpec, AimIsKept

-----------------------------------------------------------------------------
(***************************************************************************)
(* The desktop client.                                                     *)
(***************************************************************************)

\* What the frames keep: the window and its menu are what the window system
\* was told, and an error, stored or copied, is that of a failed activation.
DesktopInv ==
  /\ LET Snapshots == [sessions : DesktopLists \cup {<<>>}, connected : BOOLEAN,
                       errors : SUBSET failed]
     IN  snapshot \in Snapshots /\ copy \in Snapshots
  /\ told = flags \cap Sent
  /\ checked \ ticks = flags \ ticks
  /\ phase \in {"keys", "copy"} => ticks = {}

LEMMA DesktopStep == DesktopInv /\ [DesktopNext]_desktopVars => DesktopInv'
<1>. SUFFICES ASSUME DesktopInv, [DesktopNext]_desktopVars
              PROVE  DesktopInv'
  OBVIOUS
<1>1. ASSUME NEW list \in DesktopLists, OnSessionsChanged(list)
      PROVE  DesktopInv'
  BY <1>1 DEF OnSessionsChanged, DesktopInv
<1>2. CASE OnConnectionChanged
  BY <1>2 DEF OnConnectionChanged, DesktopInv
<1>3. CASE MenuEvents \/ \E flag \in Flags : TickItem(flag)
  BY <1>3 DEF MenuEvents, TickItem, Toggled, DesktopInv
<1>4. CASE Shortcut
  BY <1>4, FlagsAssumption DEF Shortcut, Toggled, Sent, FlagsAssumption, DesktopInv
<1>5. CASE ClickRow
  <2>1. PICK i \in 1..Len(Rows), works \in BOOLEAN :
          /\ copy' = IF works THEN copy
                     ELSE [copy EXCEPT !.errors = copy.errors \cup {Rows[i].id}]
          /\ failed' = IF works THEN failed ELSE failed \cup {Rows[i].id}
    BY <1>5 DEF ClickRow
  <2>2. UNCHANGED <<snapshot, flags, checked, ticks, told>> /\ phase' = "write"
    BY <1>5 DEF ClickRow
  <2>. QED
    BY <2>1, <2>2 DEF DesktopInv
<1>6. CASE CopySnapshot \/ WriteBack
  BY <1>6 DEF CopySnapshot, WriteBack, DesktopInv
<1>7. CASE /\ UNCHANGED <<snapshot, copy, flags, checked, ticks, told, failed>>
           /\ phase' \in {"keys", "copy"} => phase' = phase \/ phase = "keys"
  BY <1>7 DEF DesktopInv
<1>. QED
  BY <1>1, <1>2, <1>3, <1>4, <1>5, <1>6, <1>7
  DEF DesktopNext, FrameNext, ShowDialog, NoShortcut, ClickDelete, NoClick, desktopVars

(***************************************************************************)
(* A frame takes back nothing that a callback said of the sessions or the  *)
(* connection meanwhile, the window system is told of every change of a    *)
(* flag and the menu shows it, and every error is that of an activation    *)
(* that failed, though it may come back after a callback has cleared it.   *)
(***************************************************************************)
THEOREM DesktopKeepsWhatItIsTold == DesktopSpec => FramesTakeNothingBack
<1>1. DesktopInit => DesktopInv
  BY DEF DesktopInit, DesktopInv
<1>2. DesktopInv /\ DesktopInv' /\ DesktopNext =>
        /\ FrameNext => /\ snapshot'.sessions = snapshot.sessions
                        /\ snapshot'.connected = snapshot.connected
        /\ told' = flags' \cap Sent /\ checked' \ ticks' = flags' \ ticks'
        /\ snapshot'.errors \subseteq failed'
  <2>. SUFFICES ASSUME DesktopInv, FrameNext
                PROVE  /\ snapshot'.sessions = snapshot.sessions
                       /\ snapshot'.connected = snapshot.connected
    BY DEF DesktopInv
  <2>. QED
    BY DEF DesktopInv, FrameNext, ShowDialog, MenuEvents, Shortcut, NoShortcut, CopySnapshot,
           ClickRow, ClickDelete, NoClick, WriteBack
<1>. QED
  BY <1>1, <1>2, DesktopStep, PTL DEF DesktopSpec, FramesTakeNothingBack

-----------------------------------------------------------------------------
(***************************************************************************)
(* Activation.                                                             *)
(***************************************************************************)

\* What each step of a request knows of those before it.
ActivationInv ==
  /\ at = [c \in Clients |-> at[c]]
  /\ step = "none" => request = NoTarget
  /\ step \in {"none", "list", "open"} => chosen = NoOne
  /\ step = "list" =>
       \/ request.route = "local"
       \/ request.route = "remote" /\ request.caller = "terminal"
  /\ step = "open" => request.route = "remote" /\ request.caller = "desktop"
  /\ step = "detach" => request.route = "remote" /\ request.caller = "terminal"
  /\ step \in {"pane", "session"} => request.route = "local"
  /\ step \in {"pane", "session", "detach"} => chosen \in latest
  /\ step \in {"none", "list", "open", "pane", "detach"} => refused = {}
  /\ step = "session" => refused = {"pane"}

\* Where a request begins, by the session it is for and by who asks.
LEMMA FirstSteps ==
  ASSUME NEW session, NEW knownAs, NEW caller \in Callers
  PROVE  LET route == Route(session, knownAs)
             first == FirstStep(caller, route)
         IN  /\ first = "list" =>
                  route = "local" \/ (route = "remote" /\ caller = "terminal")
             /\ first = "open" => route = "remote" /\ caller = "desktop"
             /\ first \notin {"ok", "none", "pane", "session", "detach"}
<1>1. Route(session, knownAs) \in {"NoTmuxTarget", "InvalidTarget", "local", "TmuxFailed", "remote"}
  BY DEF Route
<1>. QED
  BY <1>1 DEF FirstStep, Callers

LEMMA ActivationStep ==
  ActivationInv /\ [ActivationNext]_activationVars => ActivationInv'
<1>. SUFFICES ASSUME ActivationInv, [ActivationNext]_activationVars
              PROVE  ActivationInv'
  OBVIOUS
<1>1. CASE UNCHANGED activationVars
  BY <1>1 DEF activationVars, tmuxVars, requestVars, ActivationInv
<1>2. CASE TmuxNext
  <2>1. UNCHANGED requestVars
    BY <1>2 DEF TmuxNext, ClientUsed, ClientLeaves, PaneOpens, PaneCloses
  <2>2. at' = [c \in Clients |-> at'[c]]
    BY <1>2 DEF TmuxNext, ClientUsed, ClientLeaves, PaneOpens, PaneCloses, ActivationInv
  <2>. QED
    BY <2>1, <2>2 DEF requestVars, ActivationInv
<1>3. CASE Activate
  <2>1. PICK session \in Views, caller \in Callers, knownAs \in KnownAs :
          LET route == Route(session, knownAs)
              first == FirstStep(caller, route)
          IN  /\ request' = [view |-> session, caller |-> caller, route |-> route]
              /\ step' = IF first \in {"list", "open"} THEN first ELSE "over"
    BY <1>3 DEF Activate, Ends
  <2>. QED
    BY <1>3, <2>1, FirstSteps DEF Activate, tmuxVars, ActivationInv
<1>4. CASE ResolveMostRecentClient
  <2>1. chosen' \in MostRecent => chosen' \in latest'
    BY <1>4 DEF ResolveMostRecentClient, MostRecent
  <2>. QED
    BY <1>4, <2>1 DEF ResolveMostRecentClient, Ends, tmuxVars, ActivationInv
<1>5. CASE SwitchToPane \/ SwitchToSession \/ DetachIntoSsh
  <2>1. at' = [c \in Clients |-> at'[c]]
    BY <1>5 DEF SwitchToPane, SwitchToSession, DetachIntoSsh, Moves, Refuses, ActivationInv
  <2>2. \/ step' = "over"
        \/ step' = "session" /\ step = "pane" /\ refused' = refused \cup {"pane"}
    BY <1>5 DEF SwitchToPane, SwitchToSession, DetachIntoSsh, Moves, Refuses, Ends
  <2>3. UNCHANGED <<request, chosen, latest>>
    BY <1>5 DEF SwitchToPane, SwitchToSession, DetachIntoSsh
  <2>. QED
    BY <2>1, <2>2, <2>3 DEF ActivationInv
<1>6. CASE OpenTerminal \/ AnswerTaken
  BY <1>6 DEF OpenTerminal, AnswerTaken, Ends, tmuxVars, ActivationInv
<1>. QED
  BY <1>1, <1>2, <1>3, <1>4, <1>5, <1>6 DEF ActivationNext, RequestNext

\* Where a command moves the client, if it does.
LEMMA MovesThere ==
  ASSUME ActivationInv, NEW places, Moves(places)
  PROVE  /\ at'[chosen] \in places /\ chosen \in Clients
         /\ \A c \in Clients : at'[c] # at[c] => c = chosen
         /\ outcome' = "ok"
  BY DEF Moves, Ends, Attached, ActivationInv

\* A name stands for its own session, or for one with a longer name.
LEMMA NamedIsLonger ==
  ASSUME NEW name, NEW session \in Named(name)
  PROVE  IF name \in SessionsAlive THEN session = name ELSE <<session, name>> \in BeginsWith
  BY DEF Named

(***************************************************************************)
(* Whatever tmux does between the commands of an activation and whichever  *)
(* of them it refuses, it moves the client used last and no other, to the  *)
(* pane or, that being refused, to its session, and reports a failure only *)
(* when both were refused.                                                 *)
(***************************************************************************)
THEOREM ActivationsLand == ActivationSpec => ActivationLands
<1>1. ActivationInit => ActivationInv
  BY DEF ActivationInit, ActivationInv
<1>2. ASSUME ActivationInv, RequestNext
      PROVE  /\ \A c \in Clients : at'[c] # at[c] => c \in latest /\ c = chosen /\ outcome' = "ok"
             /\ request # NoTarget /\ outcome' = "ok" /\ outcome = "none" =>
                  LET target == request.view.target IN
                  CASE request.route = "local" ->
                         /\ IF target.session \in SessionsAlive
                              THEN at'[chosen].session = target.session
                              ELSE <<at'[chosen].session, target.session>> \in BeginsWith
                         /\ "pane" \notin refused => at'[chosen].pane = target.pane
                    [] request.route = "remote" /\ request.caller = "terminal" ->
                         at'[chosen] = Ssh(request.view)
                    [] OTHER -> at' = at
             /\ outcome' = "TmuxFailed" /\ outcome = "none" /\ chosen # NoOne =>
                  refused' = IF request.route = "local" THEN {"pane", "session"} ELSE {"detach"}
  <2>1. CASE Activate
    BY <1>2, <2>1 DEF Activate, tmuxVars, ActivationInv
  <2>2. CASE ResolveMostRecentClient
    BY <1>2, <2>2 DEF ResolveMostRecentClient, Ends, tmuxVars, ActivationInv
  <2>3. CASE SwitchToPane
    <3>1. step = "pane" /\ request.route = "local" /\ chosen \in latest
      BY <1>2, <2>3 DEF SwitchToPane, ActivationInv
    <3>2. CASE Moves(Targeted(request.view.target))
      <4>1. /\ at'[chosen].session \in Named(request.view.target.session)
            /\ at'[chosen].pane = request.view.target.pane
        BY <1>2, <3>2, MovesThere DEF Targeted
      <4>. QED
        BY <1>2, <3>1, <3>2, <4>1, MovesThere, NamedIsLonger
    <3>3. CASE Refuses("pane") /\ step' = "session" /\ UNCHANGED outcome
      BY <3>3 DEF Refuses
    <3>. QED
      BY <2>3, <3>2, <3>3 DEF SwitchToPane
  <2>4. CASE SwitchToSession
    <3>1. /\ step = "session" /\ request.route = "local" /\ chosen \in latest
          /\ refused = {"pane"}
      BY <1>2, <2>4 DEF SwitchToSession, ActivationInv
    <3>2. CASE Moves({p \in panes : p.session \in Named(request.view.target.session)})
      <4>1. at'[chosen].session \in Named(request.view.target.session)
        BY <1>2, <3>2, MovesThere
      <4>. QED
        BY <1>2, <3>1, <3>2, <4>1, MovesThere, NamedIsLonger
    <3>3. CASE Refuses("session") /\ Ends("TmuxFailed")
      BY <3>1, <3>3 DEF Refuses, Ends
    <3>. QED
      BY <2>4, <3>2, <3>3 DEF SwitchToSession
  <2>5. CASE DetachIntoSsh
    <3>1. /\ request.route = "remote" /\ request.caller = "terminal" /\ chosen \in latest
          /\ refused = {}
      BY <1>2, <2>5 DEF DetachIntoSsh, ActivationInv
    <3>2. CASE Moves({Ssh(request.view)})
      BY <1>2, <3>1, <3>2, MovesThere
    <3>3. CASE Refuses("detach") /\ Ends("TmuxFailed")
      BY <3>1, <3>3 DEF Refuses, Ends
    <3>. QED
      BY <2>5, <3>2, <3>3 DEF DetachIntoSsh
  <2>6. CASE OpenTerminal \/ AnswerTaken
    BY <1>2, <2>6 DEF OpenTerminal, AnswerTaken, Ends, tmuxVars, ActivationInv
  <2>. QED
    BY <1>2, <2>1, <2>2, <2>3, <2>4, <2>5, <2>6 DEF RequestNext
<1>. QED
  BY <1>1, <1>2, ActivationStep, PTL DEF ActivationSpec, ActivationLands

-----------------------------------------------------------------------------
(***************************************************************************)
(* The widths of what is drawn.                                            *)
(***************************************************************************)

\* A text cut to a width is no longer than it, and takes all of it.
LEMMA CutTexts ==
  ASSUME NEW length \in Nat, NEW room \in Nat
  PROVE  /\ ElidePath(length, room) = Smaller(length, room)
         /\ TruncateText(length, room) = Smaller(length, room)
BY DEF ElidePath, TruncateText, SaturatingSub, Smaller

\* The parts of a session have lengths.
LEMMA PartsType ==
  ASSUME NEW s \in Fields
  PROVE  /\ NamePart(s) \in Nat /\ HostPart(s) \in Nat /\ BranchPart(s) \in Nat
         /\ NoTmux(s) \in Nat /\ RightWidth(s) \in Nat
         /\ s.cwd \in Nat /\ s.time \in Nat /\ s.status \in Nat /\ s.error \in Nat
         /\ s.name \in Nat /\ s.host \in Nat /\ s.branch \in Nat
<1>1. /\ s.cwd \in Nat /\ s.time \in Nat /\ s.status \in Nat /\ s.error \in Nat
      /\ s.name \in Nat /\ s.host \in Nat /\ s.branch \in Nat
  <2>1. /\ s.cwd \in Texts /\ s.status \in Texts /\ s.error \in Texts
        /\ s.name \in Texts /\ s.host \in Texts /\ s.branch \in Texts
        /\ s.time \in Ages
    BY DEF Fields
  <2>. QED
    BY <2>1, LayoutAssumption
<1>2. \A length, by \in Nat : Widened(length, by) \in Nat
  BY DEF Widened
<1>3. /\ NamePart(s) \in Nat /\ HostPart(s) \in Nat /\ BranchPart(s) \in Nat
      /\ NoTmux(s) \in Nat
  BY <1>1, <1>2 DEF NamePart, HostPart, BranchPart, NoTmux, If
<1>4. Widened(s.error, 4) \in Nat
  BY <1>1, <1>2
<1>. QED
  BY <1>1, <1>3, <1>4 DEF RightWidth

LEMMA SubType ==
  ASSUME NEW a \in Nat, NEW b \in Nat
  PROVE  SaturatingSub(a, b) \in Nat /\ (b <= a => SaturatingSub(a, b) = a - b)
BY DEF SaturatingSub

\* Name and host are in a row only where they leave room for the directory.
LEMMA OptionalFits ==
  ASSUME NEW s \in Fields, NEW w \in Nat
  PROVE  /\ OptionalUsed(s, w) \in Nat
         /\ OptionalUsed(s, w) = If(IncludeName(s, w), NamePart(s))
                                   + If(IncludeHost(s, w), HostPart(s))
         /\ OptionalUsed(s, w) = 0 \/ OptionalUsed(s, w) + MIN_CWD <= LeftBudget(s, w)
         /\ LeftBudget(s, w) \in Nat
<1>1. LeftBudget(s, w) \in Nat
  BY PartsType, SubType DEF LeftBudget
<1>. QED
  BY <1>1, PartsType, LayoutAssumption DEF OptionalUsed, IncludeName, IncludeHost, If

LEMMA WideRowFits ==
  ASSUME NEW s \in Fields, NEW w \in Nat, RightWidth(s) + 2 <= w
  PROVE  /\ WideRowWidth(s, w) <= w
         /\ WideRow(s, w).cwd >= Smaller(s.cwd,
              IF OptionalUsed(s, w) + WideRow(s, w).branch > 0 THEN MIN_CWD ELSE 0)
<1>. DEFINE left == LeftBudget(s, w)
            used == OptionalUsed(s, w)
            budget == SaturatingSub(left, used)
            branch == If(IncludeBranch(s, budget), BranchPart(s))
            room == SaturatingSub(budget, branch)
<1>1. left = w - RightWidth(s) - 2 /\ left \in Nat
  BY PartsType DEF LeftBudget, SaturatingSub
<1>2. used \in Nat /\ (used = 0 \/ used + MIN_CWD <= left)
  BY OptionalFits
<1>3. budget \in Nat /\ used + budget = left /\ (used > 0 => budget >= MIN_CWD)
  BY <1>1, <1>2, LayoutAssumption DEF SaturatingSub
<1>4. branch \in Nat /\ (branch = 0 \/ branch + MIN_CWD <= budget)
  BY <1>3, PartsType, LayoutAssumption DEF IncludeBranch, If
<1>5. room \in Nat /\ branch + room = budget /\ (used + branch > 0 => room >= MIN_CWD)
  BY <1>2, <1>3, <1>4, LayoutAssumption DEF SaturatingSub
<1>6. /\ WideRow(s, w).name + WideRow(s, w).host = used
      /\ WideRow(s, w).cwd = Smaller(s.cwd, room)
      /\ WideRow(s, w).branch = branch /\ WideRow(s, w).right = RightWidth(s)
      /\ WideRow(s, w).name \in Nat /\ WideRow(s, w).host \in Nat
  <2>1. ElidePath(s.cwd, room) = Smaller(s.cwd, room)
    BY <1>5, PartsType, CutTexts
  <2>. QED
    BY <2>1, OptionalFits, PartsType DEF WideRow, If
<1>. HIDE DEF left, used, budget, branch, room
<1>7. WideRow(s, w).cwd \in Nat /\ WideRow(s, w).cwd <= room
  BY <1>5, <1>6, PartsType DEF Smaller
<1>8. WideRowWidth(s, w) <= w
  BY <1>1, <1>2, <1>3, <1>4, <1>5, <1>6, <1>7, PartsType DEF WideRowWidth
<1>9. used = OptionalUsed(s, w)
  BY DEF used
<1>10. WideRow(s, w).cwd >= Smaller(s.cwd, IF used + branch > 0 THEN MIN_CWD ELSE 0)
  BY <1>2, <1>4, <1>5, <1>6, PartsType, LayoutAssumption DEF Smaller
<1>. QED
  BY <1>6, <1>8, <1>9, <1>10

LEMMA CardFits ==
  ASSUME NEW s \in Fields, NEW w \in Nat
  PROVE  /\ 6 + s.time <= w => CardWidths(s, w)[1] <= w
         /\ 4 <= w => CardWidths(s, w)[2] <= w
         /\ 6 + s.status + NoTmux(s) <= w => CardWidths(s, w)[3] <= w
<1>1. 6 + s.time <= w => CardWidths(s, w)[1] <= w
  BY PartsType DEF CardWidths, CardName, CardHost, CardRemaining, SaturatingSub, If
<1>2. 4 <= w => CardWidths(s, w)[2] <= w
  <2>. DEFINE budget == SaturatingSub(w, 4)
              branch == If(IncludeBranch(s, budget), BranchPart(s))
  <2>. SUFFICES ASSUME 4 <= w PROVE CardWidths(s, w)[2] <= w
    OBVIOUS
  <2>1. budget = w - 4 /\ budget \in Nat
    BY SubType
  <2>2. branch \in Nat /\ branch <= budget
    BY <2>1, PartsType, LayoutAssumption DEF IncludeBranch, If
  <2>3. ElidePath(s.cwd, SaturatingSub(budget, branch)) = Smaller(s.cwd, budget - branch)
    <3>. HIDE DEF budget, branch
    <3>. QED
      BY <2>1, <2>2, PartsType, CutTexts, SubType
  <2>4. CardWidths(s, w)[2] = 4 + Smaller(s.cwd, budget - branch) + branch
    BY <2>3 DEF CardWidths
  <2>. QED
    BY <2>1, <2>2, <2>4, PartsType DEF Smaller
<1>3. 6 + s.status + NoTmux(s) <= w => CardWidths(s, w)[3] <= w
  <2>. SUFFICES ASSUME 6 + s.status + NoTmux(s) <= w PROVE CardWidths(s, w)[3] <= w
    OBVIOUS
  <2>. DEFINE room == SaturatingSub(SaturatingSub(w, 4 + s.status + NoTmux(s)), 2)
  <2>1. room = w - 6 - s.status - NoTmux(s) /\ room \in Nat
    BY PartsType DEF SaturatingSub
  <2>2. TruncateText(s.error, room) \in Nat /\ TruncateText(s.error, room) <= room
    BY <2>1, PartsType, CutTexts DEF Smaller
  <2>3. CardError(s, w) <= 2 + room /\ CardError(s, w) \in Nat
    BY <2>1, <2>2 DEF CardError, If
  <2>4. CardWidths(s, w)[3] = 4 + s.status + CardError(s, w) + NoTmux(s)
    BY DEF CardWidths
  <2>. QED
    BY <2>1, <2>3, <2>4, PartsType
<1>. QED
  BY <1>1, <1>2, <1>3

LEMMA HeaderFits ==
  ASSUME NEW hostname \in Nat, NEW connection \in Nat, NEW waiting \in Nat, NEW busy \in Nat,
         NEW w \in Nat, HeaderFixed(connection, waiting, busy) <= w
  PROVE  HeaderWidth(hostname, connection, waiting, busy, w) <= w
<1>. DEFINE fixed == HeaderFixed(connection, waiting, busy)
<1>1. fixed \in Nat /\ SaturatingSub(w, fixed) = w - fixed /\ w - fixed \in Nat
  BY SubType DEF HeaderFixed
<1>2. HeaderWidth(hostname, connection, waiting, busy, w) = fixed + Smaller(hostname, w - fixed)
  BY <1>1, CutTexts DEF HeaderWidth
<1>. HIDE DEF fixed
<1>. QED
  BY <1>1, <1>2 DEF Smaller

LEMMA ModalFits ==
  ASSUME NEW label \in Nat, NEW w \in Nat, ModalInner(w) >= 10
  PROVE  ModalLine(label, w) <= ModalInner(w)
<1>1. ModalInner(w) \in Nat
  BY LayoutAssumption DEF ModalInner, SaturatingSub, Smaller
<1>2. ModalLine(label, w) = 10 + Smaller(label, ModalInner(w) - 10)
  BY <1>1, CutTexts, SubType DEF ModalLine
<1>. QED
  BY <1>1, <1>2 DEF Smaller

(***************************************************************************)
(* At every width, whatever its name, host, branch, directory and error, a *)
(* session's row and card stay within the window and keep the directory's  *)
(* columns; so do the header and the dialog.                               *)
(***************************************************************************)
THEOREM RowsAlwaysFit == LayoutSpec => []RowsFit
<1>. DEFINE Drawn == width = 0 \/ (width \in Nat /\ drawn \in Fields)
<1>1. LayoutInit => Drawn
  BY DEF LayoutInit
<1>2. Drawn /\ [LayoutNext]_layoutVars => Drawn'
  BY LayoutAssumption DEF LayoutNext, layoutVars
<1>3. Drawn => RowsFit
  <2>. SUFFICES ASSUME width \in Nat, drawn \in Fields, width > 0
                PROVE  RowsFit
    BY DEF RowsFit
  <2>1. HeaderFixed(drawn.status, drawn.branch, drawn.time) <= width =>
          HeaderWidth(drawn.host, drawn.status, drawn.branch, drawn.time, width) <= width
    BY PartsType, HeaderFits
  <2>2. ModalInner(width) >= 10 => ModalLine(drawn.name, width) <= ModalInner(width)
    BY PartsType, ModalFits
  <2>. QED
    BY <2>1, <2>2, WideRowFits, CardFits DEF RowsFit
<1>. QED
  BY <1>1, <1>2, <1>3, PTL DEF LayoutSpec

-----------------------------------------------------------------------------
(***************************************************************************)
(* Telling a watcher with nothing to report from one that is silent.       *)
(***************************************************************************)

HeartbeatTypeOK ==
  /\ seen \in [Kinds -> Nat] /\ hosts \in [Kinds -> Nat]
  /\ shown \in BOOLEAN /\ lapsed \in BOOLEAN /\ alive \in BOOLEAN
  /\ turn \in 1..(KindCount + 1)
  /\ rest \in Nat /\ spent \in 0..CycleWork /\ backoff \in Nat /\ pollRest \in Nat
  /\ slips \in 0..MaxSlips
  /\ answer # Nothing => answer \in [Kinds -> Nat]

\* Between two beats of a kind: what is left of a cycle, the wait, and what the
\* next one takes.
LongestGap == Interval + 2 * CycleWork

\* The margins that the threshold leaves: for a poll that fails or is slow, for
\* a beat that is dropped, and for a hiccup.
Margins ==
  /\ LongestGap + 2 * PollInterval + PollTimeout < HOST_STALE_THRESHOLD
  /\ 2 * LongestGap + PublishTimeout + PollInterval < HOST_STALE_THRESHOLD
  /\ LongestGap + Hiccup + PollInterval < HOST_STALE_THRESHOLD

\* Seconds until a kind is published next at the latest, if nothing slips any more.
Wait == IF lapsed THEN backoff ELSE Interval
UntilBeat(kind) ==
  rest + (CycleWork - spent) + IF kind < turn THEN Wait + CycleWork ELSE 0

\* Of a watcher that works: how old a kind can get before its next beat, and
\* the client's copy of it before the next poll.
KindIsFresh(kind) ==
  /\ seen[kind] + UntilBeat(kind) + PollInterval < HOST_STALE_THRESHOLD
  /\ hosts[kind] + pollRest < HOST_STALE_THRESHOLD
  /\ answer # Nothing => answer[kind] + pollRest + PollInterval < HOST_STALE_THRESHOLD
  /\ slips = 0 => /\ seen[kind] + UntilBeat(kind) <= LongestGap
                  /\ hosts[kind] + pollRest <= LongestGap + PollInterval

BeatsAreFresh ==
  alive => /\ ~shown
           /\ Wait <= Interval
           /\ lapsed => slips # 0
           /\ slips = 0 => answer = Nothing /\ backoff = FirstBackoff
           /\ \A kind \in Kinds : KindIsFresh(kind)

\* Of any watcher: while none is called silent, some kind was fresh at the last
\* poll, or was when the answer to a slow one was made.
Lookout == IF slips = 0 THEN PollInterval ELSE 2 * PollInterval + PollTimeout

SilenceIsSeen ==
  /\ answer # Nothing => \A kind \in Kinds : seen[kind] <= answer[kind]
  /\ ~shown => \E kind \in Kinds :
                 seen[kind] + pollRest < HOST_STALE_THRESHOLD + Lookout

HeartbeatInv == BeatsAreFresh /\ SilenceIsSeen

-----------------------------------------------------------------------------
LEMMA HeartbeatNumbers ==
  /\ KindCount \in Nat \ {0} /\ 1 \in Kinds
  /\ HOST_STALE_THRESHOLD \in Nat
  /\ Interval \in Nat /\ PublishTimeout \in Nat /\ MAX_BACKOFF \in Nat
  /\ PollInterval \in Nat /\ PollTimeout \in Nat
  /\ CycleWork \in Nat /\ Hiccup \in Nat /\ MaxSlips \in Nat
  /\ LongestGap \in Nat /\ LongestGap = Interval + 2 * CycleWork
  /\ FirstBackoff \in Nat /\ FirstBackoff <= Interval
  /\ Caught = HOST_STALE_THRESHOLD + PollInterval
  /\ CaughtAfterSlip = HOST_STALE_THRESHOLD + 2 * PollInterval + PollTimeout
BY HeartbeatAssumption DEF Kinds, FirstBackoff, Caught, CaughtAfterSlip, LongestGap

LEMMA SilentMeans ==
  ASSUME NEW ages
  PROVE  Silent(ages) <=> \A kind \in Kinds : ages[kind] >= HOST_STALE_THRESHOLD
BY DEF Silent, WatcherAppearsSilent, HostIsStale

LEMMA OlderType ==
  ASSUME NEW ages \in [Kinds -> Nat]
  PROVE  /\ Older(ages) \in [Kinds -> Nat]
         /\ \A kind \in Kinds : ages[kind] <= Older(ages)[kind]
                                /\ Older(ages)[kind] <= ages[kind] + 1
BY HeartbeatNumbers DEF Older

LEMMA OlderKeepsOrder ==
  ASSUME NEW less \in [Kinds -> Nat], NEW more \in [Kinds -> Nat],
         \A kind \in Kinds : less[kind] <= more[kind]
  PROVE  \A kind \in Kinds : Older(less)[kind] <= Older(more)[kind]
BY HeartbeatNumbers DEF Older

LEMMA RecordsType ==
  ASSUME HeartbeatTypeOK, NEW ages \in Records
  PROVE  /\ ages \in [Kinds -> Nat]
         /\ \A kind \in Kinds : ages[kind] = IF kind = turn THEN 0 ELSE seen[kind]
BY DEF HeartbeatTypeOK, Records

LEMMA HeartbeatTypeStep ==
  HeartbeatTypeOK /\ [HeartbeatNext]_heartbeatVars => HeartbeatTypeOK'
<1>. SUFFICES ASSUME HeartbeatTypeOK, [HeartbeatNext]_heartbeatVars
              PROVE  HeartbeatTypeOK'
  OBVIOUS
<1>. USE HeartbeatNumbers
<1>0. /\ 1 \in 1..(KindCount + 1)
      /\ turn \in Kinds => turn + 1 \in 1..(KindCount + 1)
  BY DEF Kinds
<1>1. CASE Second
  <2>1. /\ Older(seen) \in [Kinds -> Nat] /\ Older(hosts) \in [Kinds -> Nat]
        /\ answer # Nothing => Older(answer) \in [Kinds -> Nat]
    BY OlderType DEF HeartbeatTypeOK
  <2>. QED
    BY <1>1, <2>1 DEF Second, HeartbeatTypeOK
<1>2. CASE Beat
  <2>1. seen' \in [Kinds -> Nat]
    BY <1>2, RecordsType DEF Beat, HeartbeatTypeOK
  <2>. QED
    BY <1>2, <1>0, <2>1 DEF Beat, Resumes, clientSide, HeartbeatTypeOK
<1>3. CASE BeatDropped
  <2>1. seen' \in [Kinds -> Nat]
    BY <1>3, RecordsType DEF BeatDropped, HeartbeatTypeOK
  <2>. QED
    BY <1>3, <1>0, <2>1 DEF BeatDropped, Resumes, Slip, clientSide, HeartbeatTypeOK
<1>4. CASE WatcherHiccup
  BY <1>4 DEF WatcherHiccup, Slip, clientSide, HeartbeatTypeOK
<1>5. CASE CycleEnds
  <2>1. rest' \in Nat /\ spent' \in 0..CycleWork /\ backoff' \in Nat
    BY <1>5 DEF CycleEnds, Resumes, HeartbeatTypeOK
  <2>2. turn' = 1 /\ lapsed' = FALSE /\ UNCHANGED <<seen, alive, clientSide, slips>>
    BY <1>5 DEF CycleEnds
  <2>. QED
    BY <1>0, <2>1, <2>2 DEF clientSide, HeartbeatTypeOK
<1>6. CASE WatcherDies
  BY <1>6 DEF WatcherDies, clientSide, HeartbeatTypeOK
<1>7. CASE Poll
  BY <1>7, SilentMeans DEF Poll, Answered, watcherSide, HeartbeatTypeOK
<1>8. CASE PollSlow
  BY <1>8 DEF PollSlow, Slip, watcherSide, HeartbeatTypeOK
<1>9. CASE SlowAnswer
  BY <1>9, SilentMeans DEF SlowAnswer, Answered, watcherSide, HeartbeatTypeOK
<1>10. CASE PollFailed
  BY <1>10 DEF PollFailed, Slip, watcherSide, HeartbeatTypeOK
<1>11. CASE UNCHANGED heartbeatVars
  BY <1>11 DEF heartbeatVars, watcherSide, clientSide, HeartbeatTypeOK
<1>. QED
  BY <1>1, <1>2, <1>3, <1>4, <1>5, <1>6, <1>7, <1>8, <1>9, <1>10, <1>11 DEF HeartbeatNext

LEMMA BeatsStep ==
  ASSUME HeartbeatTypeOK, HeartbeatTypeOK', BeatsAreFresh, MaxSlips \in 0..1, Margins,
         [HeartbeatNext]_heartbeatVars
  PROVE  BeatsAreFresh'
<1>. SUFFICES ASSUME alive, alive' PROVE BeatsAreFresh'
  <2>1. alive' => alive
    BY DEF HeartbeatNext, Second, Beat, BeatDropped, WatcherHiccup, CycleEnds, WatcherDies,
           Poll, PollSlow, SlowAnswer, PollFailed, heartbeatVars, watcherSide, HeartbeatTypeOK
  <2>. QED
    BY <2>1 DEF BeatsAreFresh
<1>. USE HeartbeatNumbers
<1>1. CASE Second
  <2>1. /\ \A kind \in Kinds : seen'[kind] <= seen[kind] + 1 /\ hosts'[kind] <= hosts[kind] + 1
        /\ answer # Nothing => \A kind \in Kinds : answer'[kind] <= answer[kind] + 1
    BY <1>1, OlderType DEF Second, HeartbeatTypeOK
  <2>2. \A kind \in Kinds : UntilBeat(kind)' = UntilBeat(kind) - 1
    BY <1>1 DEF Second, UntilBeat, Wait, HeartbeatTypeOK
  <2>3. \A kind \in Kinds : KindIsFresh(kind)'
    <3>. TAKE kind \in Kinds
    <3>1. /\ UntilBeat(kind) \in Nat /\ seen'[kind] \in Nat /\ hosts'[kind] \in Nat
          /\ seen[kind] \in Nat /\ hosts[kind] \in Nat
          /\ answer # Nothing => answer[kind] \in Nat
          /\ answer' # Nothing => answer # Nothing /\ answer'[kind] \in Nat
      BY <1>1 DEF Second, UntilBeat, Wait, HeartbeatTypeOK
    <3>2. KindIsFresh(kind)
      BY DEF BeatsAreFresh
    <3>. QED
      BY <1>1, <2>1, <2>2, <3>1, <3>2 DEF Second, KindIsFresh, HeartbeatTypeOK
  <2>. QED
    BY <1>1, <2>3 DEF Second, BeatsAreFresh, Wait
<1>2. CASE Beat
  <2>1. \A kind \in Kinds : seen'[kind] = IF kind = turn THEN 0 ELSE seen[kind]
    BY <1>2, RecordsType DEF Beat
  <2>2. \A kind \in Kinds : KindIsFresh(kind)'
    <3>. TAKE kind \in Kinds
    <3>1. KindIsFresh(kind) /\ Wait <= Interval
      BY DEF BeatsAreFresh
    <3>2. /\ seen[kind] \in Nat /\ Wait \in Nat /\ UntilBeat(kind) \in Nat
          /\ kind \in Int /\ turn \in Int
      BY DEF HeartbeatTypeOK, Wait, UntilBeat, Kinds
    <3>3. /\ kind # turn => UntilBeat(kind)' = UntilBeat(kind) /\ seen'[kind] = seen[kind]
          /\ kind = turn => UntilBeat(kind)' <= Wait + 2 * CycleWork /\ seen'[kind] = 0
          /\ UntilBeat(kind)' \in Nat
      <4>1. /\ rest = 0 /\ rest' + (CycleWork - spent') = CycleWork - spent
            /\ turn' = turn + 1 /\ Wait' = Wait
        BY <1>2 DEF Beat, Resumes, Wait, HeartbeatTypeOK
      <4>2. spent \in 0..CycleWork
        BY DEF HeartbeatTypeOK
      <4>. QED
        BY <2>1, <3>2, <4>1, <4>2 DEF UntilBeat
    <3>. QED
      BY <1>2, <3>1, <3>2, <3>3 DEF Beat, clientSide, KindIsFresh, Margins
  <2>. QED
    BY <1>2, <2>2 DEF Beat, clientSide, BeatsAreFresh, Wait
<1>3. CASE BeatDropped
  <2>1. \A kind \in Kinds : seen'[kind] = seen[kind] \/ seen'[kind] = 0
    BY <1>3, RecordsType DEF BeatDropped
  <2>2. /\ slips = 0 /\ slips' = 1 /\ answer = Nothing /\ answer' = Nothing
        /\ Wait' = FirstBackoff
    BY <1>3 DEF BeatDropped, Slip, clientSide, BeatsAreFresh, HeartbeatTypeOK, Wait
  <2>3. \A kind \in Kinds : KindIsFresh(kind)'
    <3>. TAKE kind \in Kinds
    <3>1. KindIsFresh(kind)
      BY DEF BeatsAreFresh
    <3>2. seen[kind] \in Nat /\ UntilBeat(kind) \in Nat /\ hosts[kind] \in Nat /\ pollRest \in Nat
      BY DEF HeartbeatTypeOK, Wait, UntilBeat
    <3>3. UntilBeat(kind)' \in Nat /\ UntilBeat(kind)' <= PublishTimeout + LongestGap
      <4>1. /\ rest' + (CycleWork - spent') \in Nat
            /\ rest' + (CycleWork - spent') <= PublishTimeout + CycleWork
            /\ Wait' \in Nat /\ Wait' <= Interval
        BY <1>3, <2>2 DEF BeatDropped, Resumes, HeartbeatTypeOK
      <4>2. \/ UntilBeat(kind)' = rest' + (CycleWork - spent') + (Wait' + CycleWork)
            \/ UntilBeat(kind)' = rest' + (CycleWork - spent') + 0
        BY DEF UntilBeat
      <4>. QED
        BY <4>1, <4>2
    <3>4. seen'[kind] \in Nat /\ seen'[kind] <= LongestGap
      BY <2>1, <2>2, <3>1, <3>2 DEF KindIsFresh
    <3>. QED
      BY <1>3, <2>2, <3>1, <3>2, <3>3, <3>4 DEF BeatDropped, clientSide, KindIsFresh, Margins
  <2>. QED
    BY <1>3, <2>2, <2>3 DEF BeatDropped, clientSide, BeatsAreFresh, Wait
<1>4. CASE WatcherHiccup
  <2>1. slips = 0 /\ slips' = 1 /\ answer = Nothing /\ answer' = Nothing
    BY <1>4 DEF WatcherHiccup, Slip, clientSide, BeatsAreFresh, HeartbeatTypeOK
  <2>2. \A kind \in Kinds : KindIsFresh(kind)'
    <3>. TAKE kind \in Kinds
    <3>1. KindIsFresh(kind)
      BY DEF BeatsAreFresh
    <3>2. seen[kind] \in Nat /\ UntilBeat(kind) \in Nat /\ hosts[kind] \in Nat /\ pollRest \in Nat
      BY DEF HeartbeatTypeOK, Wait, UntilBeat
    <3>3. UntilBeat(kind)' \in Nat /\ UntilBeat(kind)' <= UntilBeat(kind) + Hiccup
      <4>1. /\ rest' \in Nat /\ rest' <= Hiccup /\ rest = 0 /\ Wait \in Nat
            /\ spent \in 0..CycleWork /\ UNCHANGED <<spent, turn, Wait>>
        BY <1>4 DEF WatcherHiccup, Wait, HeartbeatTypeOK
      <4>2. \/ /\ UntilBeat(kind) = rest + (CycleWork - spent) + (Wait + CycleWork)
               /\ UntilBeat(kind)' = rest' + (CycleWork - spent) + (Wait + CycleWork)
            \/ /\ UntilBeat(kind) = rest + (CycleWork - spent) + 0
               /\ UntilBeat(kind)' = rest' + (CycleWork - spent) + 0
        BY <4>1 DEF UntilBeat
      <4>. QED
        BY <4>1, <4>2
    <3>. QED
      BY <1>4, <2>1, <3>1, <3>2, <3>3 DEF WatcherHiccup, clientSide, KindIsFresh, Margins
  <2>. QED
    BY <1>4, <2>1, <2>2 DEF WatcherHiccup, clientSide, BeatsAreFresh, Wait
<1>5. CASE CycleEnds
  <2>1. \A kind \in Kinds : KindIsFresh(kind)'
    <3>. TAKE kind \in Kinds
    <3>1. KindIsFresh(kind)
      BY DEF BeatsAreFresh
    <3>2. /\ rest = 0 /\ rest' + (CycleWork - spent') = Wait + CycleWork
          /\ kind < turn /\ ~(kind < turn') /\ Wait \in Nat /\ spent \in 0..CycleWork
      BY <1>5 DEF CycleEnds, Resumes, Wait, HeartbeatTypeOK, Kinds
    <3>3. UntilBeat(kind)' <= UntilBeat(kind) /\ UntilBeat(kind)' \in Nat /\ UntilBeat(kind) \in Nat
      BY <3>2 DEF UntilBeat
    <3>4. UNCHANGED <<seen, hosts, answer, pollRest, slips>>
      BY <1>5 DEF CycleEnds, clientSide
    <3>5. seen[kind] \in Nat
      BY DEF HeartbeatTypeOK
    <3>. QED
      BY <3>1, <3>3, <3>4, <3>5 DEF KindIsFresh
  <2>. QED
    BY <1>5, <2>1 DEF CycleEnds, clientSide, BeatsAreFresh, Wait
<1>6. CASE Poll
  <2>1. \A kind \in Kinds : KindIsFresh(kind)'
    BY <1>6
    DEF Poll, Answered, watcherSide, BeatsAreFresh, KindIsFresh, UntilBeat, Wait,
        HeartbeatTypeOK
  <2>2. ~shown'
    BY <1>6, SilentMeans
    DEF Poll, Answered, BeatsAreFresh, KindIsFresh, UntilBeat, Wait, HeartbeatTypeOK
  <2>. QED
    BY <1>6, <2>1, <2>2 DEF Poll, Answered, watcherSide, BeatsAreFresh, Wait
<1>7. CASE PollSlow
  <2>1. slips = 0 /\ slips' = 1
    BY <1>7 DEF PollSlow, Slip, BeatsAreFresh, HeartbeatTypeOK
  <2>2. \A kind \in Kinds : KindIsFresh(kind)'
    BY <1>7, <2>1
    DEF PollSlow, watcherSide, BeatsAreFresh, KindIsFresh, UntilBeat, Wait,
        HeartbeatTypeOK, Margins
  <2>. QED
    BY <1>7, <2>1, <2>2 DEF PollSlow, watcherSide, BeatsAreFresh, Wait
<1>8. CASE SlowAnswer
  <2>1. slips # 0
    BY <1>8 DEF SlowAnswer, BeatsAreFresh
  <2>2. \A kind \in Kinds : KindIsFresh(kind)'
    BY <1>8, <2>1
    DEF SlowAnswer, Answered, watcherSide, BeatsAreFresh, KindIsFresh, UntilBeat, Wait,
        HeartbeatTypeOK
  <2>3. ~shown'
    BY <1>8, SilentMeans
    DEF SlowAnswer, Answered, BeatsAreFresh, KindIsFresh, HeartbeatTypeOK
  <2>. QED
    BY <1>8, <2>1, <2>2, <2>3 DEF SlowAnswer, Answered, watcherSide, BeatsAreFresh, Wait
<1>9. CASE PollFailed
  <2>1. slips = 0 /\ slips' = 1 /\ answer' = Nothing
    BY <1>9 DEF PollFailed, Slip, BeatsAreFresh, HeartbeatTypeOK
  <2>2. \A kind \in Kinds : KindIsFresh(kind)'
    BY <1>9, <2>1
    DEF PollFailed, watcherSide, BeatsAreFresh, KindIsFresh, UntilBeat, Wait,
        HeartbeatTypeOK, Margins
  <2>. QED
    BY <1>9, <2>1, <2>2 DEF PollFailed, watcherSide, BeatsAreFresh, Wait
<1>10. CASE UNCHANGED heartbeatVars
  BY <1>10
  DEF heartbeatVars, watcherSide, clientSide, BeatsAreFresh, KindIsFresh, UntilBeat, Wait
<1>. QED
  BY <1>1, <1>2, <1>3, <1>4, <1>5, <1>6, <1>7, <1>8, <1>9, <1>10 DEF HeartbeatNext, WatcherDies

LEMMA SilenceStep ==
  ASSUME HeartbeatTypeOK, HeartbeatTypeOK', SilenceIsSeen, MaxSlips \in 0..1,
         [HeartbeatNext]_heartbeatVars
  PROVE  SilenceIsSeen'
<1>. USE HeartbeatNumbers
<1>1. CASE Second
  <2>1. \A kind \in Kinds : seen'[kind] <= seen[kind] + 1
    BY <1>1, OlderType DEF Second, HeartbeatTypeOK
  <2>2. pollRest' = pollRest - 1 /\ UNCHANGED <<shown, slips>>
    BY <1>1 DEF Second
  <2>3. answer' # Nothing => \A kind \in Kinds : seen'[kind] <= answer'[kind]
    BY <1>1, OlderKeepsOrder DEF Second, SilenceIsSeen, HeartbeatTypeOK
  <2>. QED
    BY <2>1, <2>2, <2>3 DEF SilenceIsSeen, Lookout, HeartbeatTypeOK
<1>2. CASE Beat \/ BeatDropped
  <2>1. \A kind \in Kinds : seen'[kind] <= seen[kind]
    BY <1>2, RecordsType DEF Beat, BeatDropped, HeartbeatTypeOK
  <2>2. UNCHANGED <<shown, answer, pollRest>> /\ slips <= slips'
    BY <1>2 DEF Beat, BeatDropped, Slip, clientSide, HeartbeatTypeOK
  <2>. QED
    BY <2>1, <2>2 DEF SilenceIsSeen, Lookout, HeartbeatTypeOK
<1>3. CASE WatcherHiccup \/ CycleEnds \/ WatcherDies
  <2>1. UNCHANGED <<seen, shown, answer, pollRest>> /\ slips <= slips'
    BY <1>3 DEF WatcherHiccup, CycleEnds, WatcherDies, Slip, clientSide, HeartbeatTypeOK
  <2>. QED
    BY <2>1 DEF SilenceIsSeen, Lookout, HeartbeatTypeOK
<1>4. CASE Poll
  BY <1>4, SilentMeans DEF Poll, Answered, watcherSide, SilenceIsSeen, Lookout, HeartbeatTypeOK
<1>5. CASE PollSlow \/ PollFailed
  <2>1. slips = 0 /\ slips' = 1 /\ pollRest = 0 /\ pollRest' <= PollInterval + PollTimeout
    BY <1>5 DEF PollSlow, PollFailed, Slip, HeartbeatTypeOK
  <2>2. UNCHANGED <<seen, shown>>
    BY <1>5 DEF PollSlow, PollFailed, watcherSide
  <2>3. answer' # Nothing => answer' = seen
    BY <1>5 DEF PollSlow, PollFailed
  <2>. QED
    BY <2>1, <2>2, <2>3 DEF SilenceIsSeen, Lookout, HeartbeatTypeOK
<1>6. CASE SlowAnswer
  BY <1>6, SilentMeans
  DEF SlowAnswer, Answered, watcherSide, SilenceIsSeen, Lookout, HeartbeatTypeOK
<1>7. CASE UNCHANGED heartbeatVars
  BY <1>7 DEF heartbeatVars, watcherSide, clientSide, SilenceIsSeen, Lookout
<1>. QED
  BY <1>1, <1>2, <1>3, <1>4, <1>5, <1>6, <1>7 DEF HeartbeatNext

(***************************************************************************)
(* As long as the threshold leaves the margins for it, no single slip, of  *)
(* a poll, a beat or the scheduler, makes a working watcher of any number  *)
(* of kinds look silent; and a dead one is called so in time, always.      *)
(***************************************************************************)
THEOREM OneSlipIsNotSilence ==
  ASSUME MaxSlips \in 0..1, Margins
  PROVE  HeartbeatSpec => []StalenessIsTrue
<1>1. HeartbeatInit => HeartbeatTypeOK /\ HeartbeatInv
  <2>. SUFFICES ASSUME HeartbeatInit PROVE HeartbeatTypeOK /\ HeartbeatInv
    OBVIOUS
  <2>1. HeartbeatTypeOK
    <3>1. seen \in [Kinds -> Nat] /\ hosts \in [Kinds -> Nat]
      BY DEF HeartbeatInit
    <3>2. /\ 1 \in 1..(KindCount + 1) /\ 0 \in 0..MaxSlips /\ 0 \in 0..CycleWork
          /\ pollRest \in Nat
      BY HeartbeatNumbers DEF HeartbeatInit
    <3>. QED
      BY HeartbeatNumbers, <3>1, <3>2 DEF HeartbeatInit, HeartbeatTypeOK
  <2>2. \A kind \in Kinds : KindIsFresh(kind)
    BY HeartbeatNumbers DEF HeartbeatInit, KindIsFresh, UntilBeat, Wait, Kinds, Margins
  <2>3. SilenceIsSeen
    BY HeartbeatNumbers DEF HeartbeatInit, SilenceIsSeen, Lookout, Margins
  <2>. QED
    BY <2>1, <2>2, <2>3, HeartbeatNumbers
    DEF HeartbeatInit, HeartbeatInv, BeatsAreFresh, Wait
<1>2. HeartbeatTypeOK /\ HeartbeatInv /\ [HeartbeatNext]_heartbeatVars
        => (HeartbeatTypeOK /\ HeartbeatInv)'
  BY HeartbeatTypeStep, BeatsStep, SilenceStep DEF HeartbeatInv
<1>3. HeartbeatTypeOK /\ HeartbeatInv => StalenessIsTrue
  <2>. SUFFICES ASSUME HeartbeatTypeOK, HeartbeatInv PROVE StalenessIsTrue
    OBVIOUS
  <2>1. alive => ~shown /\ \A kind \in Kinds : ~HostIsStale(hosts[kind])
    BY HeartbeatNumbers DEF HeartbeatInv, BeatsAreFresh, KindIsFresh, HostIsStale, HeartbeatTypeOK
  <2>2. (\A kind \in Kinds : seen[kind] > IF slips = 0 THEN Caught ELSE CaughtAfterSlip) => shown
    BY HeartbeatNumbers DEF HeartbeatInv, SilenceIsSeen, Lookout, HeartbeatTypeOK
  <2>. QED
    BY <2>1, <2>2 DEF StalenessIsTrue
<1>. QED
  BY <1>1, <1>2, <1>3, PTL DEF HeartbeatSpec
=============================================================================
