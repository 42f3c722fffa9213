------------------------ MODULE ExpectedScore_proofs ------------------------
(***************************************************************************)
(* What follows the search: the answers are the choices of the first hand, *)
(* the evaluation leaves the search alone, its threads never touch what    *)
(* another one writes, and they compute the recursion over the turns.      *)
(***************************************************************************)
EXTENDS ExpectedScore, ScoreGraph_proofs

-----------------------------------------------------------------------------
(* The distance from the first hand.                                       *)

\* What one hand has that another one has not.
Excess(h, org) == [t \in Tiles |-> IF h[t] > org[t] THEN h[t] - org[t] ELSE 0]

LEMMA TilesFinite == IsFiniteSet(Tiles) /\ IsFiniteSet(Kinds) /\ Kinds \subseteq Tiles
<1>1. PICK a \in Int, b \in Int : a = 0 /\ b = 36  OBVIOUS
<1>2. IsFiniteSet(a..b)  BY FS_Interval
<1>3. Tiles \subseteq a..b  BY <1>1, RedFives
<1>. QED  BY <1>2, <1>3, FS_Subset, KindsFinite DEF Tiles

LEMMA TilesMore ==
  ASSUME NEW h \in [Tiles -> Nat], NEW t \in Tiles
  PROVE  /\ SumFunctionOnSet(h, Tiles) \in Nat
         /\ SumFunctionOnSet(More(h, t), Tiles) = SumFunctionOnSet(h, Tiles) + 1
<1>1. IsFiniteSet(Tiles)  BY TilesFinite
<1>2. PICK g, w : g = More(h, t) /\ w = [x \in Tiles |-> IF x = t THEN 1 ELSE 0]  OBVIOUS
<1>3. \A x \in Tiles : h[x] \in Int /\ w[x] \in Int /\ g[x] = h[x] + w[x]
  BY <1>2 DEF More
<1>4. SumFunctionOnSet(g, Tiles) = SumFunctionOnSet(h, Tiles) + SumFunctionOnSet(w, Tiles)
  BY <1>1, <1>3, SumPlus
<1>5. SumFunctionOnSet(w, Tiles) = 1
  <2>1. w[t] \in Int /\ w[t] = 1  BY <1>2
  <2>2. \A x \in Tiles : x # t => w[x] = 0  BY <1>2
  <2>3. SumFunctionOnSet(w, Tiles) = w[t]  BY <1>1, <2>1, <2>2, SumOne
  <2>. QED  BY <2>1, <2>3
<1>6. SumFunctionOnSet(h, Tiles) \in Nat
  <2>1. \A x \in Tiles : h[x] \in Nat  OBVIOUS
  <2>. QED  BY <1>1, <2>1, SumNat
<1>. QED  BY <1>2, <1>4, <1>5, <1>6

\* Counting red fives as fives loses no tile.
LEMMA MergedSize ==
  \A h \in [Tiles -> Nat] : Size(to_merged_count(h)) = SumFunctionOnSet(h, Tiles)
<1>. DEFINE Bad(h) == h \in [Tiles -> Nat] /\ Size(to_merged_count(h)) # SumFunctionOnSet(h, Tiles)
            F == {n \in Nat : \E h : Bad(h) /\ SumFunctionOnSet(h, Tiles) = n}
<1>1. SUFFICES ASSUME F # {} PROVE FALSE
  <2>1. ASSUME NEW h, Bad(h)  PROVE SumFunctionOnSet(h, Tiles) \in Nat
    <3>1. IsFiniteSet(Tiles)  BY TilesFinite
    <3>2. \A x \in Tiles : h[x] \in Nat  BY <2>1
    <3>. QED  BY <3>1, <3>2, SumNat
  <2>. QED  BY <2>1
<1>2. F \in SUBSET Nat  OBVIOUS
<1>3. PICK n \in F : \A j \in F : n <= j
  <2>. HIDE DEF F
  <2>. QED  BY <1>1, <1>2, MinOf
<1>4. PICK h : Bad(h) /\ SumFunctionOnSet(h, Tiles) = n  BY <1>3
<1>5. n \in Nat /\ h \in [Tiles -> Nat]  BY <1>3, <1>4
<1>6. CASE \A t \in Tiles : h[t] = 0
  <2>1. \A k \in Kinds : to_merged_count(h)[k] = 0
    <3>1. ASSUME NEW k \in Kinds  PROVE to_merged_count(h)[k] = 0
      <4>1. k \in Tiles  BY DEF Tiles
      <4>2. CASE \E r \in Reds : k = Five(r)
        <5>1. PICK r \in Reds : k = Five(r)  BY <4>2
        <5>2. r \in Tiles  BY RedFives
        <5>3. to_merged_count(h)[k] = h[k] + h[r]  BY <5>1, Merged
        <5>. QED  BY <1>6, <4>1, <5>2, <5>3
      <4>3. CASE \A r \in Reds : k # Five(r)
        <5>1. to_merged_count(h)[k] = h[k]  BY <4>1, <4>3, Merged
        <5>. QED  BY <1>6, <4>1, <5>1
      <4>. QED  BY <4>2, <4>3
    <3>. QED  BY <3>1
  <2>2. Size(to_merged_count(h)) = 0
    <3>1. IsFiniteSet(Kinds)  BY TilesFinite
    <3>2. SumFunctionOnSet(to_merged_count(h), Kinds) = 0  BY <2>1, <3>1, SumZero
    <3>. QED  BY <3>2 DEF Size
  <2>3. SumFunctionOnSet(h, Tiles) = 0
    <3>1. IsFiniteSet(Tiles)  BY TilesFinite
    <3>. QED  BY <1>6, <3>1, SumZero
  <2>. QED  BY <1>4, <2>2, <2>3
<1>7. CASE \E t \in Tiles : h[t] # 0
  <2>1. PICK t \in Tiles : h[t] # 0  BY <1>7
  <2>2. h[t] > 0  BY <1>5, <2>1
  <2>3. PICK g : g = Less(h, t)  OBVIOUS
  <2>4. g \in [Tiles -> Nat] /\ More(g, t) = h  BY <1>5, <2>2, <2>3, MoreLess
  <2>5. SumFunctionOnSet(g, Tiles) \in Nat /\ SumFunctionOnSet(h, Tiles) = SumFunctionOnSet(g, Tiles) + 1
    BY <2>4, TilesMore
  <2>6. Size(to_merged_count(g)) \in Nat /\ Size(to_merged_count(h)) = Size(to_merged_count(g)) + 1
    BY <2>4, MoreSize
  <2>7. Bad(g)  BY <1>4, <2>4, <2>5, <2>6
  <2>8. n - 1 \in F  BY <1>4, <1>5, <2>5, <2>7
  <2>9. n <= n - 1  BY <1>3, <2>8
  <2>. QED  BY <1>5, <2>9
<1>. QED  BY <1>6, <1>7

\* A hand is closer than another one by no more tiles than it has beyond it.
LEMMA ExcessBound ==
  ASSUME NEW h \in [Tiles -> Nat], NEW org \in [Tiles -> Nat]
  PROVE  /\ distance(h, org) \in Nat
         /\ Shanten(to_merged_count(org)) <= distance(h, org) + Shanten(to_merged_count(h))
<1>1. PICK m, o, d, x : /\ m = to_merged_count(h) /\ o = to_merged_count(org)
                        /\ d = Excess(h, org) /\ x = to_merged_count(d)
  OBVIOUS
<1>2. d \in [Tiles -> Nat] /\ \A t \in Tiles : h[t] <= org[t] + d[t]
  <2>1. d = [t \in Tiles |-> IF h[t] > org[t] THEN h[t] - org[t] ELSE 0]  BY <1>1 DEF Excess
  <2>2. \A t \in Tiles : d[t] \in Nat /\ h[t] <= org[t] + d[t]  BY <2>1
  <2>. QED  BY <2>1, <2>2
<1>3. distance(h, org) = SumFunctionOnSet(d, Tiles)
  <2>1. DOMAIN d = Tiles  BY <1>2
  <2>2. SumFunction(d) = SumFunctionOnSet(d, Tiles)  BY <2>1, SumWhole
  <2>. QED  BY <1>1, <2>2 DEF distance, Excess
<1>4. distance(h, org) = Size(x)  BY <1>1, <1>2, <1>3, MergedSize
<1>5. \A k \in Kinds : m[k] \in Nat /\ o[k] \in Nat /\ x[k] \in Nat /\ m[k] <= o[k] + x[k]
  <2>1. ASSUME NEW k \in Kinds
        PROVE  m[k] \in Nat /\ o[k] \in Nat /\ x[k] \in Nat /\ m[k] <= o[k] + x[k]
    <3>1. k \in Tiles  BY DEF Tiles
    <3>2. m[k] \in Nat /\ o[k] \in Nat /\ x[k] \in Nat  BY <1>1, <1>2, <3>1, MergedNat
    <3>3. CASE \E r \in Reds : k = Five(r)
      <4>1. PICK r \in Reds : k = Five(r)  BY <3>3
      <4>2. r \in Tiles  BY RedFives
      <4>3. m[k] = h[k] + h[r] /\ o[k] = org[k] + org[r] /\ x[k] = d[k] + d[r]
        BY <1>1, <4>1, Merged
      <4>. QED  BY <1>2, <3>1, <3>2, <4>2, <4>3
    <3>4. CASE \A r \in Reds : k # Five(r)
      <4>1. m[k] = h[k] /\ o[k] = org[k] /\ x[k] = d[k]  BY <1>1, <3>1, <3>4, Merged
      <4>. QED  BY <1>2, <3>1, <3>2, <4>1
    <3>. QED  BY <3>3, <3>4
  <2>. QED  BY <2>1
<1>6. PICK w \in CompleteHands : Missing(m, w) = Distance(m)  BY <1>5, DistanceOf
<1>7. w \in Counts  BY CompleteHandSize
<1>8. PICK a, b, c : a = Gap(m, w) /\ b = Gap(o, w) /\ c = [k \in Kinds |-> a[k] + x[k]]  OBVIOUS
<1>9. /\ Missing(m, w) = SumFunctionOnSet(a, Kinds) /\ Missing(o, w) = SumFunctionOnSet(b, Kinds)
      /\ \A k \in Kinds : a[k] \in Nat /\ b[k] \in Nat
  BY <1>5, <1>7, <1>8, MissingGap
<1>10. \A k \in Kinds : c[k] = a[k] + x[k] /\ b[k] <= c[k]
  <2>1. ASSUME NEW k \in Kinds  PROVE c[k] = a[k] + x[k] /\ b[k] <= c[k]
    <3>1. w[k] \in Nat  BY <1>7 DEF Counts
    <3>2. a[k] = IF w[k] > m[k] THEN w[k] - m[k] ELSE 0  BY <1>8 DEF Gap
    <3>3. b[k] = IF w[k] > o[k] THEN w[k] - o[k] ELSE 0  BY <1>8 DEF Gap
    <3>4. c[k] = a[k] + x[k]  BY <1>8
    <3>. QED  BY <1>5, <3>1, <3>2, <3>3, <3>4
  <2>. QED  BY <2>1
<1>11. IsFiniteSet(Kinds)  BY TilesFinite
<1>12. SumFunctionOnSet(c, Kinds) = SumFunctionOnSet(a, Kinds) + SumFunctionOnSet(x, Kinds)
  <2>1. \A k \in Kinds : a[k] \in Int /\ x[k] \in Int /\ c[k] = a[k] + x[k]  BY <1>5, <1>9, <1>10
  <2>. QED  BY <1>11, <2>1, SumPlus
<1>13. SumFunctionOnSet(b, Kinds) <= SumFunctionOnSet(c, Kinds)
  <2>1. \A k \in Kinds : b[k] \in Int /\ c[k] \in Int /\ b[k] <= c[k]  BY <1>5, <1>9, <1>10
  <2>. QED  BY <1>11, <2>1, SumMono
<1>14. Size(x) \in Nat
  <2>1. \A k \in Kinds : x[k] \in Nat  BY <1>5
  <2>2. SumFunctionOnSet(x, Kinds) \in Nat  BY <1>11, <2>1, SumNat
  <2>. QED  BY <2>2 DEF Size
<1>15. Missing(o, w) <= Missing(m, w) + Size(x)  BY <1>9, <1>12, <1>13 DEF Size
<1>16. /\ Distance(m) \in Nat /\ Distance(o) \in Nat /\ Distance(o) <= Missing(o, w)
       /\ Missing(o, w) \in Nat
  BY <1>5, <1>7, DistanceOf, MissingNothing
<1>17. Distance(o) <= Distance(m) + Size(x)  BY <1>6, <1>14, <1>15, <1>16
<1>. QED  BY <1>1, <1>4, <1>14, <1>16, <1>17 DEF Shanten

-----------------------------------------------------------------------------
(* The invariant: the first hand, and how far the search goes from it.     *)

\* The node of the first call.
First == IF num_tiles(to_merged_count(hand_org)) = 13 THEN "draw_node" ELSE "discard_node"

RootInv ==
  phase = "search" =>
    /\ shanten_org = Shanten(to_merged_count(hand_org))
    /\ frames # <<>> => frames[1].node = First
    /\ vertices # <<>> => vertices[1].node = First /\ vertices[1].hand = hand_org /\ ~vertices[1].riichi

\* Discards may take the hand farther away.
Free == input.shanten_down /\ input.extra > 0

\* A hand as close as the first one.
Low(h) == Shanten(to_merged_count(h)) <= shanten_org

LowInv ==
  phase = "search" /\ ~Free =>
    /\ \A v \in DOMAIN vertices : Low(vertices[v].hand)
    /\ frames # <<>> /\ Top.pc = "enter" => Low(hand_counts)

LEMMA MoreLow ==
  ASSUME NEW h \in [Tiles -> Nat], NEW t \in Tiles
  PROVE  /\ Shanten(to_merged_count(h)) \in Int /\ Shanten(to_merged_count(More(h, t))) \in Int
         /\ Shanten(to_merged_count(More(h, t))) <= Shanten(to_merged_count(h))
         /\ Kind(t) \in Unnecessary(to_merged_count(More(h, t)))
              <=> Shanten(to_merged_count(h)) <= Shanten(to_merged_count(More(h, t)))
<1>1. PICK m, n, k : m = to_merged_count(h) /\ n = to_merged_count(More(h, t)) /\ k = Kind(t)
  OBVIOUS
<1>2. /\ \A x \in Kinds : m[x] \in Nat /\ n[x] \in Nat
      /\ k \in Kinds
      /\ n[k] = m[k] + 1
      /\ \A x \in Kinds : x # k => n[x] = m[x]
  BY <1>1, MergedMore
<1>3. /\ Shanten(m) \in Int /\ Shanten(n) \in Int
      /\ Shanten(n) <= Shanten(m)
      /\ k \in Unnecessary(n) <=> Shanten(m) <= Shanten(n)
  BY <1>2, TileMore
<1>. QED  BY <1>1, <1>3

\* A discard keeps the distance exactly if the hand can do without the tile.
LEMMA LessLow ==
  ASSUME NEW h \in [Tiles -> Nat], NEW t \in Tiles, h[t] > 0
  PROVE  /\ Shanten(to_merged_count(h)) \in Int /\ Shanten(to_merged_count(Less(h, t))) \in Int
         /\ Shanten(to_merged_count(h)) <= Shanten(to_merged_count(Less(h, t)))
         /\ Kind(t) \in Unnecessary(to_merged_count(h))
              <=> Shanten(to_merged_count(Less(h, t))) <= Shanten(to_merged_count(h))
<1>1. PICK g : g = Less(h, t)  OBVIOUS
<1>2. g \in [Tiles -> Nat] /\ More(g, t) = h  BY <1>1, MoreLess
<1>3. /\ Shanten(to_merged_count(g)) \in Int /\ Shanten(to_merged_count(More(g, t))) \in Int
      /\ Shanten(to_merged_count(More(g, t))) <= Shanten(to_merged_count(g))
      /\ Kind(t) \in Unnecessary(to_merged_count(More(g, t)))
           <=> Shanten(to_merged_count(g)) <= Shanten(to_merged_count(More(g, t)))
  BY <1>2, MoreLow
<1>. QED  BY <1>1, <1>2, <1>3

LEMMA NoExcess ==
  ASSUME NEW h \in [Tiles -> Nat]
  PROVE  distance(h, h) = 0
<1>1. PICK d : d = Excess(h, h)  OBVIOUS
<1>2. DOMAIN d = Tiles /\ \A x \in Tiles : d[x] = 0  BY <1>1 DEF Excess
<1>3. SumFunctionOnSet(d, Tiles) = 0  BY <1>2, TilesFinite, SumZero
<1>4. SumFunction(d) = SumFunctionOnSet(d, Tiles)  BY <1>2, SumWhole
<1>. QED  BY <1>1, <1>3, <1>4 DEF distance, Excess

\* Unless the configuration says so, no discard is tried that the hand needs.
LEMMA WantsLittle ==
  ASSUME StartInv, RootInv, phase = "search", hand_org \in [Tiles -> Nat], ~Free,
         NEW v, v.hand \in [Tiles -> Nat], NEW U, NEW t \in Wants(v, input.shanten_down, U)
  PROVE  Kind(t) \in U
<1>1. SUFFICES ASSUME input.shanten_down PROVE Kind(t) \in U  BY DEF Wants
<1>2. input.extra \in Int /\ ~(input.extra > 0)
  <2>1. Validated(input)  BY InputAssumption DEF StartInv
  <2>. QED  BY <1>1, <2>1 DEF Validated, Free
<1>3. PICK d, s : d = distance(v.hand, hand_org) /\ s = Shanten(to_merged_count(v.hand))  OBVIOUS
<1>4. d \in Nat /\ shanten_org <= d + s  BY <1>3, ExcessBound DEF RootInv
<1>5. s \in Int /\ shanten_org \in Int
  <2>1. ASSUME NEW h \in [Tiles -> Nat]  PROVE Shanten(to_merged_count(h)) \in Int
    <3>1. \A k \in Kinds : to_merged_count(h)[k] \in Nat  BY MergedNat, TilesFinite
    <3>2. Distance(to_merged_count(h)) \in Nat  BY <3>1, DistanceOf
    <3>. QED  BY <3>2 DEF Shanten
  <2>. QED  BY <1>3, <2>1 DEF RootInv
<1>6. ~(d + s < shanten_org + input.extra)  BY <1>2, <1>4, <1>5
<1>. QED  BY <1>3, <1>6 DEF Wants

\* If it says so, any tile of the first hand is.
LEMMA WantsAll ==
  ASSUME StartInv, RootInv, phase = "search", hand_org \in [Tiles -> Nat], Free,
         NEW v, v.hand = hand_org, ~v.riichi, NEW U
  PROVE  Wants(v, input.shanten_down, U) = Tiles
<1>1. input.extra \in Int /\ input.extra > 0 /\ input.shanten_down
  <2>1. Validated(input)  BY InputAssumption DEF StartInv
  <2>. QED  BY <2>1 DEF Validated, Free
<1>2. PICK d, s : d = distance(v.hand, hand_org) /\ s = Shanten(to_merged_count(v.hand))  OBVIOUS
<1>3. d = 0 /\ s = shanten_org  BY <1>2, NoExcess DEF RootInv
<1>4. s \in Int
  <2>1. \A k \in Kinds : to_merged_count(hand_org)[k] \in Nat  BY MergedNat, TilesFinite
  <2>2. Distance(to_merged_count(hand_org)) \in Nat  BY <2>1, DistanceOf
  <2>. QED  BY <1>2, <2>2 DEF Shanten
<1>5. d + s < shanten_org + input.extra  BY <1>1, <1>3, <1>4
<1>. QED  BY <1>1, <1>2, <1>5 DEF Wants

-----------------------------------------------------------------------------
(* The steps of the search.                                                *)

LEMMA CallsKeep ==
  ASSUME RootInv, LowInv, phase = "search", frames # <<>>, given' = given, vertices' = vertices,
         frames' # <<>> => frames'[1].node = frames[1].node,
         ~Free /\ frames' # <<>> /\ Top'.pc = "enter" => Low(hand_counts')
  PROVE  RootInv' /\ LowInv'
<1>1. input' = input /\ hand_org' = hand_org /\ shanten_org' = shanten_org  BY DEF given
<1>2. First' = First /\ (Free' <=> Free)  BY <1>1 DEF First, Free
<1>3. PICK x : x = hand_counts'  OBVIOUS
<1>4. \A h : Low(h)' <=> Low(h)  BY <1>1 DEF Low
<1>5. RootInv'  BY <1>1, <1>2 DEF RootInv
<1>6. LowInv'
  <2>1. SUFFICES ASSUME ~Free
                 PROVE  /\ \A v \in DOMAIN vertices' : Low(vertices[v].hand)'
                        /\ frames' # <<>> /\ Top'.pc = "enter" => Low(hand_counts)'
    BY <1>2 DEF LowInv
  <2>2. ASSUME NEW v \in DOMAIN vertices'  PROVE Low(vertices[v].hand)'
    <3>1. PICK h : h = vertices[v].hand  OBVIOUS
    <3>2. Low(h)  BY <2>1, <2>2, <3>1 DEF LowInv
    <3>3. Low(h)'  BY <1>4, <3>2
    <3>. QED  BY <3>1, <3>3 DEF Low
  <2>3. ASSUME frames' # <<>>, Top'.pc = "enter"  PROVE Low(hand_counts)'
    <3>1. Low(x)  BY <1>3, <2>1, <2>3
    <3>2. Low(x)'  BY <1>4, <3>1
    <3>. QED  BY <1>3, <3>2 DEF Low
  <2>. QED  BY <2>2, <2>3
<1>. QED  BY <1>5, <1>6

LEMMA ReturnKeeps ==
  ASSUME MoveInv, RootInv, LowInv, DrawHit \/ DiscardHit \/ Done
  PROVE  RootInv' /\ LowInv'
<1>1. /\ phase = "search" /\ frames # <<>> /\ given' = given /\ vertices' = vertices
      /\ frames' = Front(frames)
  BY DEF DrawHit, DiscardHit, Done, Running, Return, graph
<1>2. frames \in Seq(FrameRecords)  BY <1>1 DEF MoveInv
<1>3. PICK n : n = Len(frames)  OBVIOUS
<1>4. /\ n \in Nat \ {0} /\ Len(frames') = n - 1 /\ frames' \in Seq(FrameRecords)
      /\ \A i \in 1..n - 1 : frames'[i] = frames[i]
  BY <1>1, <1>2, <1>3, ReturnFrom
<1>5. ASSUME frames' # <<>>  PROVE frames'[1].node = frames[1].node /\ Top'.pc # "enter"
  <2>1. n - 1 # 0  BY <1>4, <1>5, EmptySeq
  <2>2. 1 \in 1..n - 1 /\ n - 1 \in 1..n - 1 /\ n - 1 \in 1..n /\ n - 1 < n  BY <1>4, <2>1
  <2>3. Top' = frames[n - 1]  BY <1>4, <2>2 DEF Top, Last
  <2>4. FrameInv(n - 1)  BY <1>1, <1>3, <2>2 DEF MoveInv
  <2>5. frames[n - 1].pc = "await"  BY <1>3, <2>2, <2>4 DEF FrameInv
  <2>. QED  BY <1>4, <2>2, <2>3, <2>5
<1>. QED  BY <1>1, <1>5, CallsKeep

LEMMA BackKeeps ==
  ASSUME MoveInv, RootInv, LowInv, DrawBack \/ DiscardBack
  PROVE  RootInv' /\ LowInv'
<1>1. /\ phase = "search" /\ frames # <<>> /\ given' = given /\ vertices' = vertices
  BY DEF DrawBack, DiscardBack, Running
<1>2. PICK top \in FrameRecords : top = Top  BY <1>1, TopFrame
<1>3. PICK f : f = [top EXCEPT !.pc = "loop"]  OBVIOUS
<1>4. frames' = Append(Front(frames), f)  BY <1>2, <1>3 DEF DrawBack, DiscardBack, Become
<1>5. f \in FrameRecords /\ f.pc = "loop" /\ f.node = top.node  BY <1>3, LoopFrame
<1>6. frames \in Seq(FrameRecords)  BY <1>1 DEF MoveInv
<1>7. PICK n : n = Len(frames)  OBVIOUS
<1>8. /\ n \in Nat \ {0} /\ Len(frames') = n
      /\ frames'[n] = f /\ \A i \in 1..n - 1 : frames'[i] = frames[i]
  <2>1. n \in Nat \ {0}  BY <1>1, <1>6, <1>7, EmptySeq
  <2>. QED  BY <1>1, <1>4, <1>5, <1>6, <1>7, <2>1, BecomeOf
<1>9. Top' = f  BY <1>8 DEF Top, Last
<1>10. frames[n].node = f.node  BY <1>1, <1>2, <1>5, <1>7, TopFrame
<1>11. frames'[1].node = frames[1].node
  <2>1. CASE n = 1  BY <1>8, <1>10, <2>1
  <2>2. CASE n # 1
    <3>1. 1 \in 1..n - 1  BY <1>8, <2>2
    <3>. QED  BY <1>8, <3>1
  <2>. QED  BY <2>1, <2>2
<1>. QED  BY <1>1, <1>5, <1>9, <1>11, CallsKeep

\* A call for a hand that is as close as the one it was made from.
LEMMA TryKeeps ==
  ASSUME MoveInv, RootInv, LowInv, phase = "search", frames # <<>>,
         NEW f \in FrameRecords, NEW g \in FrameRecords, frames' = Front(frames) \o <<f, g>>,
         f.node = Top.node, given' = given, vertices' = vertices,
         ~Free => Low(hand_counts')
  PROVE  RootInv' /\ LowInv'
<1>1. frames \in Seq(FrameRecords)  BY DEF MoveInv
<1>2. PICK n : n = Len(frames)  OBVIOUS
<1>3. /\ n \in Nat \ {0} /\ Len(frames') = n + 1
      /\ frames'[n] = f /\ \A i \in 1..n - 1 : frames'[i] = frames[i]
  <2>1. n \in Nat \ {0}  BY <1>1, <1>2, EmptySeq
  <2>2. /\ Front(frames) \o <<f, g>> \in Seq(FrameRecords)
        /\ Len(Front(frames) \o <<f, g>>) = Len(frames) + 1
        /\ (Front(frames) \o <<f, g>>)[Len(frames)] = f
        /\ (Front(frames) \o <<f, g>>)[Len(frames) + 1] = g
        /\ \A i \in 1..Len(frames) - 1 : (Front(frames) \o <<f, g>>)[i] = frames[i]
    BY ONLY <1>1, PushOn, frames # <<>>, f \in FrameRecords, g \in FrameRecords
  <2>. QED  BY <1>2, <2>1, <2>2
<1>4. frames[n].node = f.node  BY <1>2, TopFrame
<1>5. frames'[1].node = frames[1].node
  <2>1. CASE n = 1  BY <1>3, <1>4, <2>1
  <2>2. CASE n # 1
    <3>1. 1 \in 1..n - 1  BY <1>3, <2>2
    <3>. QED  BY <1>3, <3>1
  <2>. QED  BY <2>1, <2>2
<1>. QED  BY <1>5, CallsKeep

LEMMA DrawTileKeeps ==
  ASSUME FivesInWall, MoveInv, LooksInv, RootInv, LowInv, DrawTile
  PROVE  RootInv' /\ LowInv'
<1>1. /\ phase = "search" /\ frames # <<>> /\ Top.node = "draw_node" /\ Top.pc = "loop"
      /\ given' = given /\ vertices' = vertices
  BY DEF DrawTile, Running, graph
<1>2. PICK v, counts : v = vertices[Top.vertex] /\ counts = wall_counts  OBVIOUS
<1>3. counts = IF Top.node = "draw_node" THEN wall_counts ELSE hand_counts  BY <1>1, <1>2
<1>4. v.hand = hand_counts /\ v.hand \in [Tiles -> Nat] /\ Top.vertex \in DOMAIN vertices
  BY <1>1, <1>2, <1>3, TopRemaining
<1>5. PICK top \in FrameRecords : top = Top  BY <1>1, TopFrame
<1>6. PICK t \in Tiles : t = Min(Remaining(wall_counts))  BY RemainingTile DEF DrawTile
<1>7. PICK f, g, w : /\ f = Waiting(top, t, w) /\ g = Call("discard_node", top.riichi)
                     /\ w = wall_counts[t]
  OBVIOUS
<1>8. frames' = Front(frames) \o <<f, g>> /\ hand_counts' = [hand_counts EXCEPT ![t] = @ + 1]
  BY <1>5, <1>6, <1>7 DEF DrawTile, Push, Waiting, draw
<1>9. w \in Int  BY <1>1, <1>7 DEF MoveInv, Tallied, Dealt, Fits
<1>10. f \in FrameRecords /\ f.node = Top.node
  <2>1. f = Waiting(top, t, w)  BY <1>7
  <2>. QED  BY <1>5, <1>9, <2>1, AwaitFrame
<1>11. g \in FrameRecords
  <2>1. top.riichi \in BOOLEAN /\ "discard_node" \in NodeKinds  BY DEF FrameRecords, NodeKinds
  <2>. QED  BY <1>7, <2>1, CallFrame
<1>12. ASSUME ~Free  PROVE Low(hand_counts')
  <2>1. hand_counts' = More(v.hand, t)  BY <1>4, <1>8 DEF More
  <2>2. PICK a, b : /\ a = Shanten(to_merged_count(v.hand))
                    /\ b = Shanten(to_merged_count(More(v.hand, t)))
    OBVIOUS
  <2>3. a \in Int /\ b \in Int /\ b <= a  BY <1>4, <2>2, MoreLow
  <2>4. a <= shanten_org  BY <1>1, <1>2, <1>4, <1>12, <2>2 DEF LowInv, Low
  <2>5. shanten_org \in Int
    <3>1. hand_org \in [Tiles -> Nat]  BY <1>1 DEF MoveInv, Dealt
    <3>. QED  BY <1>1, <1>6, <3>1, MoreLow DEF RootInv
  <2>6. b <= shanten_org  BY <2>3, <2>4, <2>5
  <2>. QED  BY <2>1, <2>2, <2>6 DEF Low
<1>. QED  BY <1>1, <1>8, <1>10, <1>11, <1>12, TryKeeps

LEMMA DiscardTileKeeps ==
  ASSUME FivesInWall, StartInv, MoveInv, LooksInv, RootInv, LowInv, DiscardTile
  PROVE  RootInv' /\ LowInv'
<1>1. /\ phase = "search" /\ frames # <<>> /\ Top.node = "discard_node" /\ Top.pc = "loop"
      /\ given' = given /\ vertices' = vertices /\ Remaining(hand_counts) # {}
  BY DEF DiscardTile, Running, graph
<1>2. PICK v, counts : v = vertices[Top.vertex] /\ counts = hand_counts  OBVIOUS
<1>3. counts = IF Top.node = "draw_node" THEN wall_counts ELSE hand_counts  BY <1>1, <1>2
<1>4. /\ v.node = Top.node /\ v.hand = hand_counts /\ v.hand \in [Tiles -> Nat]
      /\ Top.vertex \in DOMAIN vertices
      /\ Remaining(counts) = {t \in Trials(v) : t > Top.at}
  BY <1>1, <1>2, <1>3, TopRemaining
<1>5. PICK top \in FrameRecords : top = Top  BY <1>1, TopFrame
<1>6. PICK t : t = Min(Remaining(counts))  OBVIOUS
<1>7. t \in Tiles /\ t \in Trials(v)  BY <1>1, <1>2, <1>4, <1>6, FirstRemaining
<1>8. PICK w, r : w = wall_counts'[t] /\ r = call_riichi(t)  OBVIOUS
<1>9. PICK f, g : f = Waiting(top, t, w) /\ g = Call("draw_node", r)  OBVIOUS
<1>10. frames' = Front(frames) \o <<f, g>> /\ discard(t)
  BY <1>2, <1>5, <1>6, <1>8, <1>9 DEF DiscardTile, Push, Waiting
<1>11. w \in Int
  <2>1. wall_counts \in [Tiles -> Int]  BY <1>1 DEF MoveInv, Tallied, Dealt, Fits
  <2>2. wall_counts[t] \in Int /\ wall_counts'[t] = wall_counts[t] + 1
    BY <1>7, <1>10, <2>1 DEF discard
  <2>. QED  BY <1>8, <2>2
<1>12. f \in FrameRecords /\ f.node = Top.node
  <2>1. f = Waiting(top, t, w)  BY <1>9
  <2>. QED  BY <1>5, <1>7, <1>11, <2>1, AwaitFrame
<1>13. g \in FrameRecords
  <2>1. top.riichi \in BOOLEAN  BY DEF FrameRecords
  <2>2. r \in BOOLEAN /\ "draw_node" \in NodeKinds  BY <1>5, <1>8, <2>1 DEF call_riichi, NodeKinds
  <2>. QED  BY <1>9, <2>2, CallFrame
<1>14. ASSUME ~Free  PROVE Low(hand_counts')
  <2>1. hand_counts' = Less(v.hand, t)  BY <1>4, <1>10 DEF Less, discard
  <2>2. v.hand[t] > 0  BY <1>1, <1>4, <1>7 DEF Trials, InStock
  <2>3. PICK a, b : /\ a = Shanten(to_merged_count(v.hand))
                    /\ b = Shanten(to_merged_count(Less(v.hand, t)))
    OBVIOUS
  <2>4. hand_org \in [Tiles -> Nat]  BY <1>1 DEF MoveInv, Dealt
  <2>5. Kind(t) \in Unnecessary(to_merged_count(v.hand))
    <3>1. t \in Wants(v, input.shanten_down, Unnecessary(to_merged_count(v.hand)))
      BY <1>1, <1>4, <1>7 DEF Trials, Allowed, Useful
    <3>. QED  BY <1>1, <1>4, <1>14, <2>4, <3>1, WantsLittle
  <2>6. a \in Int /\ b \in Int /\ b <= a  BY <1>4, <1>7, <2>2, <2>3, <2>5, LessLow
  <2>7. a <= shanten_org  BY <1>1, <1>2, <1>4, <1>14, <2>3 DEF LowInv, Low
  <2>8. shanten_org \in Int  BY <1>1, <1>7, <2>4, MoreLow DEF RootInv
  <2>9. b <= shanten_org  BY <2>6, <2>7, <2>8
  <2>. QED  BY <2>1, <2>3, <2>9 DEF Low
<1>. QED  BY <1>1, <1>10, <1>12, <1>13, <1>14, TryKeeps

\* A call looks at its hand: its frame goes on, with a new vertex.
LEMMA Expanded ==
  ASSUME MoveInv, DrawNew \/ DiscardNew
  PROVE  \E f \in FrameRecords, v \in VertexRecords :
           /\ frames' = Append(Front(frames), f) /\ vertices' = Append(vertices, v)
           /\ f.pc = "loop" /\ f.node = Top.node
           /\ v.node = Top.node /\ v.riichi = Top.riichi /\ v.hand = hand_counts
<1>1. phase = "search" /\ frames # <<>>  BY DEF DrawNew, DiscardNew, Running
<1>2. \E useful, allowed : useful \in SUBSET Kinds /\ Expand(Shanten(hand), useful, allowed)
  <2>1. CASE DrawNew
    <3>1. Necessary(hand) \in SUBSET Kinds  BY DEF Necessary
    <3>2. Expand(Shanten(hand), Necessary(hand), input.tegawari)  BY <2>1 DEF DrawNew
    <3>. QED  BY <3>1, <3>2
  <2>2. CASE DiscardNew
    <3>1. Unnecessary(hand) \in SUBSET Kinds  BY DEF Unnecessary
    <3>2. Expand(Shanten(hand), Unnecessary(hand), input.shanten_down)  BY <2>2 DEF DiscardNew
    <3>. QED  BY <3>1, <3>2
  <2>. QED  BY <2>1, <2>2
<1>3. ASSUME NEW useful \in SUBSET Kinds, NEW allowed, Expand(Shanten(hand), useful, allowed)
      PROVE  \E f \in FrameRecords, v \in VertexRecords :
               /\ frames' = Append(Front(frames), f) /\ vertices' = Append(vertices, v)
               /\ f.pc = "loop" /\ f.node = Top.node
               /\ v.node = Top.node /\ v.riichi = Top.riichi /\ v.hand = hand_counts
  <2>1. \E f \in FrameRecords, v \in VertexRecords :
           /\ frames' = Append(Front(frames), f) /\ vertices' = Append(vertices, v)
           /\ f.pc = "loop" /\ f.vertex = Len(vertices) + 1 /\ f.node = Top.node
           /\ f.riichi = Top.riichi /\ f.shanten = Shanten(hand)
           /\ f.useful = add_red5_flags(useful) /\ f.at = Top.at
           /\ f.any <=> allowed /\ ~Top.riichi /\ can_extend_search(Shanten(hand))
           /\ v.node = Top.node /\ v.riichi = Top.riichi /\ v.hand = hand_counts
    BY ONLY MoveInv, <1>1, useful \in SUBSET Kinds, Expand(Shanten(hand), useful, allowed), NewFrame
  <2>. QED  BY <2>1
<1>. QED  BY <1>2, <1>3

LEMMA NewKeeps ==
  ASSUME MoveInv, NodeInv, RootInv, LowInv, DrawNew \/ DiscardNew
  PROVE  RootInv' /\ LowInv'
<1>1. /\ phase = "search" /\ phase' = "search" /\ frames # <<>> /\ Top.pc = "enter"
      /\ given' = given
  BY DEF DrawNew, DiscardNew, Running, Expand
<1>2. frames \in Seq(FrameRecords) /\ vertices \in Seq(VertexRecords)  BY <1>1 DEF MoveInv
<1>4. PICK top \in FrameRecords : top = Top  BY <1>1, TopFrame
<1>5. PICK f \in FrameRecords, v \in VertexRecords :
        /\ frames' = Append(Front(frames), f) /\ vertices' = Append(vertices, v)
        /\ f.pc = "loop" /\ f.node = top.node
        /\ v.node = top.node /\ v.riichi = top.riichi /\ v.hand = hand_counts
  BY <1>4, Expanded
<1>6. PICK n : n = Len(frames)  OBVIOUS
<1>7. /\ n \in Nat \ {0} /\ Len(frames') = n
      /\ frames'[n] = f /\ \A i \in 1..n - 1 : frames'[i] = frames[i]
  <2>1. n \in Nat \ {0}  BY <1>1, <1>2, <1>6, EmptySeq
  <2>2. frames # <<>> /\ frames' = Append(Front(frames), f) /\ n = Len(frames)  BY <1>1, <1>5, <1>6
  <2>3. /\ Append(Front(frames), f) \in Seq(FrameRecords)
        /\ Len(Append(Front(frames), f)) = Len(frames)
        /\ Append(Front(frames), f)[Len(frames)] = f
        /\ \A i \in 1..Len(frames) - 1 : Append(Front(frames), f)[i] = frames[i]
    BY ONLY <1>2, <2>2, BecomeOf, f \in FrameRecords
  <2>. QED  BY <2>1, <2>2, <2>3
<1>8. Top' = f /\ frames[n] = top  BY <1>1, <1>4, <1>6, <1>7, TopFrame DEF Top, Last
<1>9. frames'[1].node = frames[1].node
  <2>1. CASE n = 1  BY <1>5, <1>7, <1>8, <2>1
  <2>2. CASE n # 1
    <3>1. 1 \in 1..n - 1  BY <1>7, <2>2
    <3>. QED  BY <1>7, <3>1
  <2>. QED  BY <2>1, <2>2
<1>10. /\ vertices' # <<>>
       /\ vertices'[Len(vertices) + 1] = v
       /\ \A u \in DOMAIN vertices : vertices'[u] = vertices[u]
       /\ \A u \in DOMAIN vertices' : u \in DOMAIN vertices \/ u = Len(vertices) + 1
       /\ vertices # <<>> => vertices'[1] = vertices[1]
       /\ vertices = <<>> => vertices'[1] = v
  BY <1>2, <1>5, Appended
<1>11. input' = input /\ hand_org' = hand_org /\ shanten_org' = shanten_org  BY <1>1 DEF given
<1>12. First' = First /\ (Free' <=> Free)  BY <1>11 DEF First, Free
<1>13. vertices'[1].node = First /\ vertices'[1].hand = hand_org /\ ~vertices'[1].riichi
  <2>1. CASE vertices = <<>>
    <3>1. n = 1  BY <1>1, <1>6, <2>1, SomeVertex
    <3>2. top.node = First  BY <1>1, <1>8, <3>1 DEF RootInv
    <3>3. ~top.riichi
      <4>1. 1 \in 1..Len(frames)  BY <1>6, <3>1
      <4>2. CallInv(1)  BY <1>1, <4>1 DEF NodeInv
      <4>. QED  BY <1>8, <3>1, <4>2 DEF CallInv
    <3>4. hand_counts = hand_org
      <4>1. Current = Entry(1)  BY <1>1, <1>6, <3>1 DEF Current
      <4>2. Tallied(Current)  BY <1>1 DEF MoveInv
      <4>. QED  BY <4>1, <4>2 DEF Tallied, Entry
    <3>. QED  BY <1>5, <1>10, <2>1, <3>2, <3>3, <3>4
  <2>2. CASE vertices # <<>>  BY <1>1, <1>10, <2>2 DEF RootInv
  <2>. QED  BY <2>1, <2>2
<1>14. RootInv'
  <2>1. frames[1].node = First  BY <1>1 DEF RootInv
  <2>2. shanten_org' = Shanten(to_merged_count(hand_org'))  BY <1>1, <1>11 DEF RootInv
  <2>. QED  BY <1>9, <1>11, <1>12, <1>13, <2>1, <2>2 DEF RootInv
<1>15. LowInv'
  <2>1. SUFFICES ASSUME ~Free PROVE \A u \in DOMAIN vertices' : Low(vertices[u].hand)'
    BY <1>5, <1>8, <1>12 DEF LowInv
  <2>2. ASSUME NEW u \in DOMAIN vertices'  PROVE Low(vertices[u].hand)'
    <3>1. PICK h : h = vertices'[u].hand  OBVIOUS
    <3>2. Low(h)
      <4>1. CASE u \in DOMAIN vertices  BY <1>1, <1>10, <2>1, <3>1, <4>1 DEF LowInv
      <4>2. CASE u = Len(vertices) + 1  BY <1>1, <1>5, <1>10, <2>1, <3>1, <4>2 DEF LowInv
      <4>. QED  BY <1>10, <4>1, <4>2
    <3>3. Shanten(to_merged_count(h)) <= shanten_org'  BY <1>11, <3>2 DEF Low
    <3>. QED  BY <3>1, <3>3 DEF Low
  <2>. QED  BY <2>2
<1>. QED  BY <1>14, <1>15

LEMMA PrepareKeeps ==
  ASSUME NEW h, NEW w, Playable(h), Prepare(w, h), phase' = "search", vertices' = <<>>
  PROVE  RootInv' /\ LowInv'
<1>1. PICK s : s = to_separated_count(h)  OBVIOUS
<1>2. s \in [Tiles -> Nat] /\ to_merged_count(s) = h  BY <1>1, Separated
<1>3. hand_org' = s /\ hand_counts' = s /\ shanten_org' = Shanten(h)  BY <1>1 DEF Prepare
<1>4. DOMAIN vertices' = {}  OBVIOUS
<1>5. PICK node : node = IF num_tiles(h) = 13 THEN "draw_node" ELSE "discard_node"  OBVIOUS
<1>6. First' = node  BY <1>2, <1>3, <1>5 DEF First
<1>7. frames' = <<Call(node, FALSE)>> /\ Call(node, FALSE).node = node
  BY <1>5 DEF Prepare, Call
<1>8. frames'[1].node = node  BY <1>7
<1>9. RootInv'  BY <1>2, <1>3, <1>6, <1>8 DEF RootInv
<1>10. Low(hand_counts)'
  <2>1. PICK x \in Int : Shanten(to_merged_count(s)) = x
    <3>1. \A k \in Kinds : to_merged_count(s)[k] \in Nat  BY <1>2, MergedNat, TilesFinite
    <3>2. Distance(to_merged_count(s)) \in Nat  BY <3>1, DistanceOf
    <3>. QED  BY <3>2 DEF Shanten
  <2>2. shanten_org' = x  BY <1>2, <1>3, <2>1
  <2>3. x <= x  OBVIOUS
  <2>. QED  BY <1>3, <2>1, <2>2, <2>3 DEF Low
<1>11. LowInv'  BY <1>4, <1>10 DEF LowInv, Low
<1>. QED  BY <1>9, <1>11

LEMMA StartKeeps ==
  ASSUME StartInv, Start
  PROVE  RootInv' /\ LowInv'
<1>1. input \in Inputs /\ vertices' = <<>> /\ phase' = "search"
  BY DEF StartInv, Start, graph
<1>2. PICK h, g : h = input.hand /\ g = normalize_red_fives(h)  OBVIOUS
<1>3. h \in [Tiles -> Nat] /\ Playable(h)  BY <1>1, <1>2, InputsPlayable
<1>4. Playable(g)  BY <1>2, <1>3, NormalizedPlayable
<1>5. PICK w : Prepare(w, h) \/ Prepare(w, g)  BY <1>2, Zenon DEF Start
<1>. QED  BY <1>1, <1>3, <1>4, <1>5, PrepareKeeps

-----------------------------------------------------------------------------
(* The answers.                                                            *)

\* The choices of the first hand, as AnswersAreChoices has them.
IsChoice(v, t) ==
  /\ t \in Wants(vertices[1], input.shanten_down, Unnecessary(to_merged_count(hand_org)))
  /\ hand_org[t] > 0
  /\ Is(v, "draw_node", [hand_org EXCEPT ![t] = @ - 1], Declares(vertices[1], t))
FirstChoices == {p \in Tiles \X DOMAIN vertices : IsChoice(p[2], p[1])}

\* The tiles that are answered, each with what the cache has for it.
Answers == {<<t, cache1[KeyAfter(t)]>> : t \in {u \in Tiles : hand_counts[u] > 0 /\ KeyAfter(u) \in DOMAIN cache1}}

LEMMA LessFits ==
  ASSUME NEW h, Fits(h), Dealt, NEW t \in Tiles, h[t] > 0
  PROVE  Fits(Less(h, t))
<1>1. PICK g : g = Less(h, t)  OBVIOUS
<1>2. h \in [Tiles -> Nat] /\ (FivesInWall => \A x \in Tiles : h[x] <= Total[x])  BY DEF Fits
<1>3. g \in [Tiles -> Nat]  BY <1>1, <1>2, MoreLess
<1>4. \A x \in Tiles : g[x] <= h[x]  BY <1>1, <1>2 DEF Less
<1>5. FivesInWall => \A x \in Tiles : g[x] <= Total[x]
  <2>1. ASSUME FivesInWall, NEW x \in Tiles  PROVE g[x] <= Total[x]
    <3>1. g[x] \in Int /\ h[x] \in Int /\ Total[x] \in Int  BY <1>2, <1>3 DEF Dealt
    <3>. QED  BY <1>2, <1>4, <2>1, <3>1
  <2>. QED  BY <2>1
<1>. QED  BY <1>1, <1>3, <1>5 DEF Fits

LEMMA AnswersChosen ==
  ASSUME FivesInWall, StartInv, MoveInv, NodeInv, RootInv, LowInv,
         phase = "search", frames = <<>>, vertices[1].node = "discard_node"
  PROVE  Answers = FirstChoices
<1>1. PICK r : r = vertices[1]  OBVIOUS
<1>2. r.hand = hand_org /\ ~r.riichi  BY <1>1 DEF NodeInv, ReturnInv, RootInv
<1>3. Fits(hand_org) /\ Tallied(hand_org) /\ Dealt  BY DEF MoveInv, Current
<1>4. hand_org \in [Tiles -> Nat] /\ hand_counts = hand_org /\ hand = to_merged_count(hand_org)
  BY <1>3 DEF Fits, Tallied
<1>5. PICK U : U = Unnecessary(to_merged_count(hand_org))  OBVIOUS
<1>6. U \in SUBSET Kinds  BY <1>5 DEF Unnecessary
<1>7. ASSUME NEW t \in Tiles
      PROVE  \E d \in BOOLEAN : d = Declares(r, t) /\ KeyAfter(t) = CacheKey(Less(hand_org, t), d)
  <2>1. t \in add_red5_flags(U) <=> Kind(t) \in U  BY <1>6, FlagsAre
  <2>2. PICK d \in BOOLEAN : d = (input.closed /\ Shanten(hand) = 0 /\ Kind(t) \in U)  OBVIOUS
  <2>3. Declares(r, t) = d
    <3>1. Declares(r, t) = (r.riichi \/ (input.closed /\ Shanten(hand) = 0 /\ Kind(t) \in U))
      BY <1>2, <1>4, <1>5 DEF Declares
    <3>. QED  BY <1>2, <2>2, <3>1
  <2>4. PICK q : q = (input.closed /\ Shanten(hand) = 0 /\ t \in add_red5_flags(U))  OBVIOUS
  <2>5. q = d  BY <2>1, <2>2, <2>4
  <2>6. KeyAfter(t) = CacheKey(Less(hand_org, t), q)  BY <1>4, <1>5, <2>4 DEF KeyAfter, Less
  <2>. QED  BY <2>3, <2>5, <2>6
<1>8. ASSUME NEW t \in Tiles, hand_org[t] > 0, KeyAfter(t) \in DOMAIN cache1
      PROVE  cache1[KeyAfter(t)] \in DOMAIN vertices /\ IsChoice(cache1[KeyAfter(t)], t)
  <2>1. PICK d \in BOOLEAN : d = Declares(r, t) /\ KeyAfter(t) = CacheKey(Less(hand_org, t), d)
    BY <1>7
  <2>2. PICK v, h : v = cache1[KeyAfter(t)] /\ h = Less(hand_org, t)  OBVIOUS
  <2>3. Fits(h)  BY <1>3, <1>8, <2>2, LessFits
  <2>4. Is(v, "draw_node", h, d)
    <3>1. CacheInv(cache1, "draw_node")  BY DEF NodeInv
    <3>2. CacheKey(h, d) \in DOMAIN cache1 /\ v = cache1[CacheKey(h, d)]  BY <1>8, <2>1, <2>2
    <3>. QED  BY <2>3, <3>1, <3>2, Cached
  <2>5. v \in DOMAIN vertices /\ vertices[v].hand = h  BY <2>4 DEF Is
  <2>6. t \in Wants(r, input.shanten_down, U)
    <3>1. CASE Free  BY <1>2, <1>4, <3>1, WantsAll
    <3>2. CASE ~Free
      <4>1. Low(h)  BY <2>5, <3>2 DEF LowInv
      <4>2. Shanten(to_merged_count(h)) <= Shanten(to_merged_count(hand_org))
        BY <4>1 DEF Low, RootInv
      <4>3. Kind(t) \in U  BY <1>4, <1>5, <1>8, <2>2, <4>2, LessLow
      <4>. QED  BY <4>3 DEF Wants
    <3>. QED  BY <3>1, <3>2
  <2>. QED  BY <1>1, <1>5, <1>8, <2>1, <2>2, <2>4, <2>5, <2>6 DEF IsChoice, Less
<1>9. ASSUME NEW t \in Tiles, NEW v \in DOMAIN vertices, IsChoice(v, t)
      PROVE  hand_org[t] > 0 /\ KeyAfter(t) \in DOMAIN cache1 /\ cache1[KeyAfter(t)] = v
  <2>1. PICK d \in BOOLEAN : d = Declares(r, t) /\ KeyAfter(t) = CacheKey(Less(hand_org, t), d)
    BY <1>7
  <2>2. hand_org[t] > 0 /\ Is(v, "draw_node", Less(hand_org, t), d)
    BY <1>1, <1>9, <2>1 DEF IsChoice, Less
  <2>3. KeyOf(v) = KeyAfter(t) /\ vertices[v].node = "draw_node"  BY <2>1, <2>2 DEF KeyOf, Is
  <2>4. KeyOf(v) \in DOMAIN cache1 /\ cache1[KeyOf(v)] = v  BY <2>3 DEF NodeInv, CacheInv
  <2>. QED  BY <2>2, <2>3, <2>4
<1>10. Answers \subseteq FirstChoices
  <2>1. ASSUME NEW a \in Answers  PROVE a \in FirstChoices
    <3>1. PICK t \in Tiles : /\ hand_counts[t] > 0 /\ KeyAfter(t) \in DOMAIN cache1
                             /\ a = <<t, cache1[KeyAfter(t)]>>
      BY <2>1 DEF Answers
    <3>2. PICK v : v = cache1[KeyAfter(t)]  OBVIOUS
    <3>3. v \in DOMAIN vertices /\ IsChoice(v, t)  BY <1>4, <1>8, <3>1, <3>2
    <3>4. a = <<t, v>> /\ a[1] = t /\ a[2] = v  BY <3>1, <3>2
    <3>. QED  BY <3>3, <3>4 DEF FirstChoices
  <2>. QED  BY <2>1
<1>11. FirstChoices \subseteq Answers
  <2>1. ASSUME NEW p \in FirstChoices  PROVE p \in Answers
    <3>1. PICK t \in Tiles, v \in DOMAIN vertices : p = <<t, v>> /\ IsChoice(v, t)
      BY <2>1 DEF FirstChoices
    <3>2. hand_counts[t] > 0 /\ KeyAfter(t) \in DOMAIN cache1 /\ cache1[KeyAfter(t)] = v
      BY <1>4, <1>9, <3>1
    <3>. QED  BY <3>1, <3>2 DEF Answers
  <2>. QED  BY <2>1
<1>. QED  BY <1>10, <1>11

LEMMA ChoiceStep ==
  ASSUME FivesInWall, StartInv, MoveInv, NodeInv, LooksInv, RootInv, LowInv, AnswersAreChoices,
         [Next]_vars
  PROVE  RootInv' /\ LowInv' /\ AnswersAreChoices'
<1>1. ASSUME phase' # "done"  PROVE AnswersAreChoices'  BY <1>1 DEF AnswersAreChoices
<1>2. ASSUME phase' # "search"  PROVE RootInv' /\ LowInv'  BY <1>2 DEF RootInv, LowInv
<1>3. CASE UNCHANGED vars
  <2>1. PICK u : u = vertices /\ vertices' = u  BY <1>3 DEF vars
  <2>2. /\ input' = input /\ phase' = phase /\ hand_org' = hand_org /\ shanten_org' = shanten_org
        /\ frames' = frames /\ vertices' = vertices /\ hand_counts' = hand_counts /\ stats' = stats
    BY <1>3 DEF vars
  <2>3. RootInv'  BY <2>2 DEF RootInv, First
  <2>4. LowInv'  BY <2>2 DEF LowInv, Low, Free, Top
  <2>5. AnswersAreChoices'  BY <2>2 DEF AnswersAreChoices, Wants, Is, Declares
  <2>. QED  BY <2>3, <2>4, <2>5
<1>4. CASE Start
  <2>1. phase' # "done"  BY <1>4 DEF Start
  <2>. QED  BY <1>1, <1>4, <2>1, StartKeeps
<1>5. CASE Shallow
  <2>1. phase' # "search" /\ ~input.calc_stats /\ input' = input  BY <1>5 DEF Shallow
  <2>. QED  BY <1>2, <2>1 DEF AnswersAreChoices
<1>6. CASE DrawHit \/ DiscardHit \/ Done
  <2>1. phase' # "done"  BY <1>6 DEF DrawHit, DiscardHit, Done, Running
  <2>. QED  BY <1>1, <1>6, <2>1, ReturnKeeps
<1>7. CASE DrawNew \/ DiscardNew
  <2>1. phase' # "done"  BY <1>7 DEF DrawNew, DiscardNew, Running, Expand
  <2>. QED  BY <1>1, <1>7, <2>1, NewKeeps
<1>8. CASE DrawTile
  <2>1. phase' # "done"  BY <1>8 DEF DrawTile, Running
  <2>. QED  BY <1>1, <1>8, <2>1, DrawTileKeeps
<1>9. CASE DiscardTile
  <2>1. phase' # "done"  BY <1>9 DEF DiscardTile, Running
  <2>. QED  BY <1>1, <1>9, <2>1, DiscardTileKeeps
<1>10. CASE DrawBack \/ DiscardBack
  <2>1. phase' # "done"  BY <1>10 DEF DrawBack, DiscardBack, Running
  <2>. QED  BY <1>1, <1>10, <2>1, BackKeeps
<1>11. CASE ReportDraw
  <2>1. /\ phase = "search" /\ frames = <<>> /\ num_tiles(hand) = 13 /\ phase' # "search"
        /\ vertices' = vertices
    BY <1>11 DEF ReportDraw, graph
  <2>2. hand = to_merged_count(hand_org)  BY <2>1 DEF MoveInv, Tallied, Current
  <2>3. vertices' # <<>> /\ vertices'[1].node = "draw_node"
    BY <2>1, <2>2 DEF NodeInv, ReturnInv, RootInv, First
  <2>. QED  BY <1>2, <2>1, <2>3 DEF AnswersAreChoices
<1>12. CASE ReportDiscards
  <2>1. /\ phase = "search" /\ frames = <<>> /\ phase' # "search"
        /\ vertices' = vertices /\ given' = given
    BY <1>12 DEF ReportDiscards, graph
  <2>2. SUFFICES ASSUME vertices'[1].node = "discard_node"  PROVE AnswersAreChoices'
    BY <1>2, <2>1 DEF AnswersAreChoices
  <2>3. PICK S : S = {u \in Tiles : hand_counts[u] > 0 /\ KeyAfter(u) \in DOMAIN cache1}  OBVIOUS
  <2>4. stats' = {Stat(t, cache1[KeyAfter(t)], Change(hand, t, -1)) : t \in S}
    BY <1>12, <2>3 DEF ReportDiscards
  <2>5. \A t, v, h : Stat(t, v, h).tile = t /\ Stat(t, v, h).vertex = v  BY DEF Stat, StatWith
  <2>6. {<<s.tile, s.vertex>> : s \in stats'} = {<<t, cache1[KeyAfter(t)]>> : t \in S}
    BY <2>4, <2>5
  <2>7. {<<s.tile, s.vertex>> : s \in stats'} = FirstChoices
    BY <2>1, <2>2, <2>3, <2>6, AnswersChosen DEF Answers
  <2>8. FirstChoices' = FirstChoices
    BY <2>1 DEF FirstChoices, IsChoice, Wants, Is, Declares, given
  <2>. QED  BY <2>7, <2>8 DEF AnswersAreChoices, FirstChoices, IsChoice
<1>13. CASE Finished  BY <1>3, <1>13 DEF Finished
<1>. QED  BY <1>3, <1>4, <1>5, <1>6, <1>7, <1>8, <1>9, <1>10, <1>11, <1>12, <1>13 DEF Next

LEMMA ChoicesKept ==
  ASSUME FivesInWall
  PROVE  Spec => [](RootInv /\ LowInv /\ AnswersAreChoices)
<1>1. Init => RootInv /\ LowInv /\ AnswersAreChoices
  BY DEF Init, RootInv, LowInv, AnswersAreChoices
<1>2. /\ StartInv /\ MoveInv /\ NodeInv /\ LooksInv /\ RootInv /\ LowInv /\ AnswersAreChoices
      /\ [Next]_vars
      => (RootInv /\ LowInv /\ AnswersAreChoices)'
  BY ChoiceStep
<1>. QED  BY <1>1, <1>2, MovesCancel, CachesAnswerRight, EdgesKeepUp, PTL DEF Spec

\* The answers for 14 tiles are the discards that the search was meant to consider, each
\* with the node of the hand it leads to: AnswersAreChoices.
THEOREM AnswersAreChoicesCorrect ==
  ASSUME FivesInWall
  PROVE  Spec => []AnswersAreChoices
BY ChoicesKept, PTL

-----------------------------------------------------------------------------
(* The evaluation leaves the search alone.                                 *)

LEMMA StatsStep == [StatsNext]_<<vars, evaluation>> => [Next]_vars
<1>1. SUFFICES ASSUME [StatsNext]_<<vars, evaluation>>  PROVE [Next]_vars  OBVIOUS
<1>2. CASE UNCHANGED <<vars, evaluation>>  BY <1>2
<1>3. CASE Searching  BY <1>3 DEF Searching, Next
<1>4. CASE Reporting  BY <1>4 DEF Reporting, Next
<1>5. CASE BeginStats  BY <1>5 DEF BeginStats
<1>6. CASE \E p \in Threads : DrawIteration(p) \/ DiscardIteration(p)
  BY <1>6 DEF DrawIteration, DiscardIteration
<1>7. CASE DrawLoopEnds \/ DiscardLoopEnds  BY <1>7 DEF DrawLoopEnds, DiscardLoopEnds
<1>8. CASE Finished  BY <1>8 DEF Finished
<1>. QED  BY <1>1, <1>2, <1>3, <1>4, <1>5, <1>6, <1>7, <1>8 DEF StatsNext

\* Whatever the loops compute, the graph is the one of the search and the answers are
\* read off that one.
THEOREM StatsRefineTheSearch == StatsSpec => Spec
<1>1. StatsInit => Init  BY DEF StatsInit
<1>. QED  BY <1>1, StatsStep, PTL DEF StatsSpec, Spec

-----------------------------------------------------------------------------
(* The loops are over different nodes.                                     *)

\* A list of the nodes of one kind, none of them twice.
Lists(list, node) ==
  /\ list \in Seq(Nat)
  /\ \A i \in 1..Len(list) : list[i] \in DOMAIN vertices /\ vertices[list[i]].node = node
  /\ \A i, j \in 1..Len(list) : list[i] = list[j] => i = j

ListInv == Lists(draw_vertices, "draw_node") /\ Lists(discard_vertices, "discard_node")

LEMMA ListStays ==
  ASSUME vertices \in Seq(VertexRecords), Grows, NEW list, NEW node, Lists(list, node)
  PROVE  Lists(list, node)'
<1>1. \A v \in DOMAIN vertices : v \in DOMAIN vertices' /\ vertices'[v] = vertices[v]
  BY GrowsKeeps
<1>. QED  BY <1>1 DEF Lists

\* A new vertex at the end.
LEMMA ListGrows ==
  ASSUME NEW v \in VertexRecords, vertices \in Seq(VertexRecords), vertices' = Append(vertices, v),
         NEW list, Lists(list, v.node), NEW longer, longer = Append(list, Len(vertices) + 1)
  PROVE  Lists(longer, v.node)'
<1>1. PICK k, n : k = Len(vertices) + 1 /\ n = Len(list)  OBVIOUS
<1>2. /\ vertices'[k] = v /\ k \in DOMAIN vertices' /\ k \notin DOMAIN vertices
      /\ \A u \in DOMAIN vertices : u \in DOMAIN vertices' /\ vertices'[u] = vertices[u]
  BY <1>1, Appended
<1>3. k \in Nat /\ list \in Seq(Nat)  BY <1>1, LenProperties DEF Lists
<1>4. /\ longer \in Seq(Nat) /\ n \in Nat /\ Len(longer) = n + 1
      /\ \A i \in 1..n : longer[i] = list[i]
      /\ longer[n + 1] = k
  BY <1>1, <1>3, AppendProperties, LenProperties
<1>5. \A i \in 1..n : list[i] \in DOMAIN vertices /\ vertices[list[i]].node = v.node
  BY <1>1 DEF Lists
<1>6. ASSUME NEW i \in 1..Len(longer)
      PROVE  longer[i] \in DOMAIN vertices' /\ vertices'[longer[i]].node = v.node
  <2>1. i \in 1..n \/ i = n + 1  BY <1>4
  <2>. QED  BY <1>2, <1>4, <1>5, <2>1
<1>7. ASSUME NEW i \in 1..Len(longer), NEW j \in 1..Len(longer), longer[i] = longer[j]
      PROVE  i = j
  <2>1. (i \in 1..n \/ i = n + 1) /\ (j \in 1..n \/ j = n + 1)  BY <1>4
  <2>2. CASE i \in 1..n /\ j \in 1..n  BY <1>1, <1>4, <1>7, <2>2 DEF Lists
  <2>3. CASE i = n + 1 /\ j \in 1..n  BY <1>2, <1>4, <1>5, <1>7, <2>3
  <2>4. CASE i \in 1..n /\ j = n + 1  BY <1>2, <1>4, <1>5, <1>7, <2>4
  <2>. QED  BY <2>1, <2>2, <2>3, <2>4
<1>. QED  BY <1>4, <1>6, <1>7 DEF Lists

LEMMA ListStep ==
  ASSUME StartInv, MoveInv, NodeInv, ListInv, [Next]_vars
  PROVE  ListInv'
<1>1. vertices \in Seq(VertexRecords)  BY DEF NodeInv
<1>2. ASSUME vertices' = vertices, draw_vertices' = draw_vertices, discard_vertices' = discard_vertices
      PROVE  ListInv'
  BY <1>2 DEF ListInv, Lists
<1>3. CASE DrawNew \/ DiscardNew
  <2>4. PICK v \in VertexRecords : vertices' = Append(vertices, v) /\ v.node = Top.node
    BY <1>3, Expanded
  <2>5. Grows  BY <2>4 DEF Grows
  <2>6. PICK a, b, c, d : /\ a = draw_vertices /\ b = discard_vertices
                          /\ c = draw_vertices' /\ d = discard_vertices'
    OBVIOUS
  <2>7. CASE DrawNew
    <3>1. v.node = "draw_node" /\ c = Append(a, Len(vertices) + 1) /\ d = b
      BY <2>4, <2>6, <2>7 DEF DrawNew, Running
    <3>2. Lists(a, v.node) /\ Lists(b, "discard_node")  BY <2>6, <3>1 DEF ListInv
    <3>3. Lists(c, v.node)'  BY <1>1, <2>4, <3>1, <3>2, ListGrows
    <3>4. Lists(b, "discard_node")'  BY <1>1, <2>5, <3>2, ListStays
    <3>. QED  BY <2>6, <3>1, <3>3, <3>4 DEF ListInv, Lists
  <2>8. CASE DiscardNew
    <3>1. v.node = "discard_node" /\ d = Append(b, Len(vertices) + 1) /\ c = a
      BY <2>4, <2>6, <2>8 DEF DiscardNew, Running
    <3>2. Lists(b, v.node) /\ Lists(a, "draw_node")  BY <2>6, <3>1 DEF ListInv
    <3>3. Lists(d, v.node)'  BY <1>1, <2>4, <3>1, <3>2, ListGrows
    <3>4. Lists(a, "draw_node")'  BY <1>1, <2>5, <3>2, ListStays
    <3>. QED  BY <2>6, <3>1, <3>3, <3>4 DEF ListInv, Lists
  <2>. QED  BY <1>3, <2>7, <2>8
<1>4. CASE UNCHANGED vars  BY <1>2, <1>4 DEF vars
<1>5. CASE Start \/ Shallow \/ DrawHit \/ DiscardHit \/ DrawTile \/ DiscardTile \/ Done
             \/ ReportDraw \/ ReportDiscards
  BY <1>2, <1>5
  DEF Start, Shallow, DrawHit, DiscardHit, DrawTile, DiscardTile, Done, ReportDraw, ReportDiscards,
      graph, nodes
<1>6. CASE DrawBack \/ DiscardBack  BY <1>2, <1>6 DEF DrawBack, DiscardBack, nodes
<1>7. CASE Finished  BY <1>4, <1>7 DEF Finished
<1>. QED  BY <1>3, <1>4, <1>5, <1>6, <1>7 DEF Next

LEMMA Listed ==
  ASSUME FivesInWall
  PROVE  Spec => []ListInv
<1>1. Init => ListInv
  <2>1. SUFFICES ASSUME Init PROVE ListInv  OBVIOUS
  <2>2. draw_vertices = <<>> /\ discard_vertices = <<>>  BY <2>1 DEF Init
  <2>3. <<>> \in Seq(Nat) /\ Len(<<>>) = 0 /\ 1..0 = {}  OBVIOUS
  <2>. QED  BY <2>2, <2>3 DEF ListInv, Lists
<1>2. StartInv /\ MoveInv /\ NodeInv /\ ListInv /\ [Next]_vars => ListInv'  BY ListStep
<1>. QED  BY <1>1, <1>2, MovesCancel, CachesAnswerRight, PTL DEF Spec

-----------------------------------------------------------------------------
(* The iterations of a loop are divided without overlap.                   *)

\* ChunkEnd and ChunkStart for k threads.
EndOf(k, p, n) == p * (n \div k) + (IF p < n % k THEN p ELSE n % k)
StartOf(k, p, n) == 1 + (IF p = 1 THEN 0 ELSE EndOf(k, p - 1, n))

LEMMA DivMod ==
  ASSUME NEW k \in Nat \ {0}, NEW n \in Nat
  PROVE  /\ n \div k \in Nat /\ n % k \in 0..(k - 1)
         /\ n = k * (n \div k) + (n % k)
OBVIOUS

LEMMA TimesMono ==
  ASSUME NEW d \in Nat, NEW a \in Nat, NEW b \in Nat, a <= b
  PROVE  a * d \in Nat /\ b * d \in Nat /\ a * d <= b * d
<1>1. PICK c \in Nat : b = a + c
  <2>1. b - a \in Nat /\ b = a + (b - a)  OBVIOUS
  <2>. QED  BY <2>1
<1>2. a * d \in Nat /\ c * d \in Nat  OBVIOUS
<1>3. b * d = a * d + c * d  BY <1>1
<1>. QED  BY <1>2, <1>3

LEMMA EndsGrow ==
  ASSUME NEW k \in Nat \ {0}, NEW n \in Nat, NEW a \in 0..k, NEW b \in 0..k, a <= b
  PROVE  /\ EndOf(k, a, n) \in Nat /\ EndOf(k, b, n) \in Nat
         /\ EndOf(k, a, n) <= EndOf(k, b, n) /\ EndOf(k, b, n) <= n
<1>1. PICK d \in Nat, m \in 0..(k - 1) : d = n \div k /\ m = n % k /\ n = k * d + m  BY DivMod
<1>2. /\ a * d \in Nat /\ b * d \in Nat /\ k * d \in Nat
      /\ a * d <= b * d /\ b * d <= k * d
  BY TimesMono
<1>3. PICK x, y : x = (IF a < m THEN a ELSE m) /\ y = (IF b < m THEN b ELSE m)  OBVIOUS
<1>4. x \in Nat /\ y \in Nat /\ x <= y /\ y <= m  BY <1>3
<1>5. EndOf(k, a, n) = a * d + x /\ EndOf(k, b, n) = b * d + y  BY <1>1, <1>3 DEF EndOf
<1>. QED  BY <1>1, <1>2, <1>4, <1>5

LEMMA ChunksApart ==
  ASSUME NEW k \in Nat \ {0}, NEW n \in Nat, NEW p \in 1..k
  PROVE  /\ StartOf(k, p, n) \in Int /\ 1 <= StartOf(k, p, n)
         /\ EndOf(k, p, n) \in Int /\ EndOf(k, p, n) <= n
         /\ \A q \in 1..k : p < q => EndOf(k, p, n) < StartOf(k, q, n)
<1>1. p \in 0..k /\ p - 1 \in 0..k /\ p - 1 <= p  OBVIOUS
<1>2. /\ EndOf(k, p - 1, n) \in Nat /\ EndOf(k, p, n) \in Nat
      /\ EndOf(k, p, n) <= n
  BY <1>1, EndsGrow
<1>3. ASSUME NEW q \in 1..k, p < q  PROVE EndOf(k, p, n) < StartOf(k, q, n)
  <2>1. q - 1 \in 0..k /\ p <= q - 1 /\ q # 1  BY <1>3
  <2>2. EndOf(k, q - 1, n) \in Nat /\ EndOf(k, p, n) <= EndOf(k, q - 1, n)  BY <1>1, <2>1, EndsGrow
  <2>3. StartOf(k, q, n) = 1 + EndOf(k, q - 1, n)  BY <2>1 DEF StartOf
  <2>. QED  BY <1>2, <2>2, <2>3
<1>. QED  BY <1>2, <1>3 DEF StartOf

LEMMA ChunksOf ==
  ASSUME input \in Inputs
  PROVE  /\ input.threads \in Nat \ {0} /\ Cardinality(Threads) = input.threads
         /\ \A p, n : /\ ChunkEnd(p, n) = EndOf(input.threads, p, n)
                      /\ ChunkStart(p, n) = StartOf(input.threads, p, n)
<1>1. input.threads \in Nat \ {0}  BY TurnsAssumption
<1>2. Cardinality(Threads) = input.threads  BY <1>1, FS_Interval DEF Threads
<1>3. \A p, n : ChunkEnd(p, n) = EndOf(input.threads, p, n)  BY <1>2 DEF ChunkEnd, EndOf
<1>. QED  BY <1>1, <1>2, <1>3 DEF ChunkStart, StartOf

-----------------------------------------------------------------------------
(* The evaluation runs on a finished graph, every thread in its chunk.     *)

LoopInv ==
  loop \in {"draw", "discard"} =>
    /\ phase = "search" /\ frames = <<>> /\ turn \in Int
    /\ at \in [Threads -> Int]
    /\ \A p \in Threads : ChunkStart(p, Len(Loop)) <= at[p]

LEMMA LoopStarts ==
  ASSUME input \in Inputs, input' = input, NEW n \in Nat, NEW starts,
         starts = [p \in Threads |-> ChunkStart(p, n)], at' = starts
  PROVE  /\ at' \in [Threads' -> Int]
         /\ \A p \in Threads' : ChunkStart(p, n)' <= at'[p]
<1>1. PICK k : k = input.threads  OBVIOUS
<1>2. k \in Nat \ {0} /\ \A p, m : ChunkStart(p, m) = StartOf(k, p, m)  BY <1>1, ChunksOf
<1>3. Threads = 1..k /\ Threads' = 1..k  BY <1>1 DEF Threads
<1>4. \A p \in 1..k : StartOf(k, p, n) \in Int  BY <1>2, ChunksApart
<1>5. ChunkStart(1, n)' = ChunkStart(1, n) /\ \A p : ChunkStart(p, n)' = ChunkStart(p, n)
  BY <1>3 DEF ChunkStart, ChunkEnd
<1>. QED  BY <1>2, <1>3, <1>4, <1>5

LEMMA LoopStep ==
  ASSUME StartInv, ListInv, LoopInv, [StatsNext]_<<vars, evaluation>>
  PROVE  LoopInv'
<1>1. SUFFICES ASSUME loop' \in {"draw", "discard"}  PROVE LoopInv'  BY DEF LoopInv
<1>2. [Next]_vars  BY StatsStep
<1>3. input' = input /\ input \in Inputs
  BY <1>2
  DEF StartInv, Next, Start, Shallow, DrawHit, DrawNew, DiscardHit, DiscardNew, DrawTile, DiscardTile,
      DrawBack, DiscardBack, Done, ReportDraw, ReportDiscards, Finished, Expand, given, vars
<1>4. \A l, m : Lists(l, m) => Len(l) \in Nat  BY LenProperties DEF Lists
<1>5. Len(draw_vertices) \in Nat /\ Len(discard_vertices) \in Nat  BY <1>4 DEF ListInv
<1>6. ASSUME phase' = "search", frames' = <<>>, turn' \in Int, NEW n \in Nat, n = Len(Loop)',
             at' = [p \in Threads |-> ChunkStart(p, n)]
      PROVE  LoopInv'
  BY <1>3, <1>6, LoopStarts DEF LoopInv
<1>7. ASSUME UNCHANGED <<vars, loop, turn>>, loop \in {"draw", "discard"},
             at' \in [Threads -> Int], \A p \in Threads : at[p] <= at'[p]
      PROVE  LoopInv'
  <2>1. /\ phase' = "search" /\ frames' = <<>> /\ turn' \in Int /\ at \in [Threads -> Int]
        /\ Threads' = Threads /\ Len(Loop)' = Len(Loop)
        /\ \A p \in Threads : ChunkStart(p, Len(Loop)) <= at[p]
    BY <1>7 DEF LoopInv, vars, nodes, Threads, Loop
  <2>2. PICK n : n = Len(Loop)  OBVIOUS
  <2>3. n \in Nat  BY <1>5, <2>2 DEF Loop
  <2>4. \A p : ChunkStart(p, n)' = ChunkStart(p, n)  BY <2>1 DEF ChunkStart, ChunkEnd
  <2>5. ASSUME NEW p \in Threads  PROVE ChunkStart(p, n) <= at'[p]
    <3>1. PICK k : k = input.threads  OBVIOUS
    <3>2. k \in Nat \ {0} /\ ChunkStart(p, n) = StartOf(k, p, n) /\ p \in 1..k
      BY <1>3, <3>1, ChunksOf DEF Threads
    <3>3. ChunkStart(p, n) \in Int  BY <2>3, <3>2, ChunksApart
    <3>4. /\ at[p] \in Int /\ at'[p] \in Int /\ at[p] <= at'[p] /\ ChunkStart(p, n) <= at[p]
      BY <1>7, <2>1, <2>2
    <3>. QED  BY <3>3, <3>4
  <2>6. Len(Loop)' = n  BY <2>1, <2>2
  <2>. QED  BY <1>7, <2>1, <2>4, <2>5, <2>6 DEF LoopInv
<1>8. CASE UNCHANGED <<vars, evaluation>>
  <2>1. UNCHANGED <<vars, loop, turn>> /\ at' = at  BY <1>8 DEF evaluation
  <2>2. \A p \in Threads : at[p] \in Int /\ at[p] <= at'[p]  BY <1>1, <2>1 DEF LoopInv
  <2>. QED  BY <1>1, <1>7, <2>1, <2>2 DEF LoopInv
<1>9. CASE Searching
  <2>1. loop \in {"draw", "discard"}  BY <1>1, <1>9 DEF Searching, evaluation
  <2>2. phase = "search" /\ frames = <<>>  BY <2>1 DEF LoopInv
  <2>. QED
    BY <1>9, <2>2
    DEF Searching, Start, Shallow, DrawHit, DrawNew, DiscardHit, DiscardNew, DrawTile, DiscardTile,
        DrawBack, DiscardBack, Done, Running
<1>10. CASE Reporting  BY <1>1, <1>10 DEF Reporting, evaluation
<1>11. CASE BeginStats
  <2>1. phase' = "search" /\ frames' = <<>> /\ loop' = "draw" /\ turn' = input.t_max
        /\ Len(Loop)' = Len(draw_vertices)
        /\ at' = [p \in Threads |-> ChunkStart(p, Len(draw_vertices))]
    BY <1>11 DEF BeginStats, StartLoop, vars, nodes, Loop
  <2>2. turn' \in Int  BY <1>3, <2>1, TurnsAssumption
  <2>. QED  BY <1>5, <1>6, <2>1, <2>2
<1>12. ASSUME NEW q \in Threads, DrawIteration(q) \/ DiscardIteration(q)  PROVE LoopInv'
  <2>1. /\ UNCHANGED <<vars, loop, turn>> /\ loop \in {"draw", "discard"}
        /\ at' = [at EXCEPT ![q] = @ + 1]
    BY <1>12 DEF DrawIteration, DiscardIteration
  <2>2. at \in [Threads -> Int]  BY <2>1 DEF LoopInv
  <2>3. at' \in [Threads -> Int] /\ \A p \in Threads : at[p] <= at'[p]  BY <2>1, <2>2
  <2>. QED  BY <1>7, <2>1, <2>3
<1>13. CASE DrawLoopEnds
  <2>1. loop = "draw" /\ loop' = "discard" /\ turn' = turn /\ UNCHANGED vars
        /\ Len(Loop)' = Len(discard_vertices)
        /\ at' = [p \in Threads |-> ChunkStart(p, Len(discard_vertices))]
    BY <1>13 DEF DrawLoopEnds, StartLoop, vars, nodes, Loop
  <2>2. phase' = "search" /\ frames' = <<>> /\ turn' \in Int  BY <2>1 DEF LoopInv, vars
  <2>. QED  BY <1>5, <1>6, <2>1, <2>2
<1>14. CASE DiscardLoopEnds
  <2>1. loop = "discard" /\ loop' = "draw" /\ turn' = turn - 1 /\ UNCHANGED vars
        /\ Len(Loop)' = Len(draw_vertices)
        /\ at' = [p \in Threads |-> ChunkStart(p, Len(draw_vertices))]
    BY <1>1, <1>14 DEF DiscardLoopEnds, StartLoop, vars, nodes, Loop
  <2>2. phase' = "search" /\ frames' = <<>> /\ turn' \in Int  BY <2>1 DEF LoopInv, vars
  <2>. QED  BY <1>5, <1>6, <2>1, <2>2
<1>15. CASE Finished /\ UNCHANGED evaluation  BY <1>8, <1>15 DEF Finished
<1>. QED  BY <1>8, <1>9, <1>10, <1>11, <1>12, <1>13, <1>14, <1>15 DEF StatsNext

\* Two iterations that may run at once are over different nodes of one list.
LEMMA LoopsApart ==
  ASSUME StartInv, ListInv, EdgeInv, LoopInv
  PROVE  NoDataRace
<1>1. SUFFICES ASSUME loop \in {"draw", "discard"},
                      NEW p \in Threads, NEW q \in Threads, p # q, Active(p), Active(q)
               PROVE  Vertex(p) # Vertex(q) /\ <<Vertex(q), turn>> \notin Reads(Vertex(p))
  BY DEF NoDataRace
<1>2. PICK k, n, node : /\ k = input.threads /\ n = Len(Loop)
                        /\ node = IF loop = "draw" THEN "draw_node" ELSE "discard_node"
  OBVIOUS
<1>3. Lists(Loop, node)  BY <1>1, <1>2 DEF ListInv, Loop
<1>4. n \in Nat  BY <1>2, <1>3, LenProperties DEF Lists
<1>5. /\ k \in Nat \ {0} /\ Threads = 1..k
      /\ \A r, m : ChunkEnd(r, m) = EndOf(k, r, m) /\ ChunkStart(r, m) = StartOf(k, r, m)
  BY <1>2, ChunksOf DEF StartInv, Threads
<1>6. turn \in Int /\ \A r \in 1..k : at[r] \in Int /\ StartOf(k, r, n) <= at[r]
  BY <1>1, <1>2, <1>5 DEF LoopInv
<1>7. at[p] <= EndOf(k, p, n) /\ at[q] <= EndOf(k, q, n)  BY <1>1, <1>2, <1>5 DEF Active
<1>8. ASSUME NEW r \in 1..k, at[r] <= EndOf(k, r, n)  PROVE at[r] \in 1..n
  <2>1. /\ StartOf(k, r, n) \in Int /\ 1 <= StartOf(k, r, n)
        /\ EndOf(k, r, n) \in Int /\ EndOf(k, r, n) <= n
    BY <1>4, <1>5, ChunksApart
  <2>. QED  BY <1>4, <1>6, <1>8, <2>1
<1>9. at[p] \in 1..n /\ at[q] \in 1..n  BY <1>1, <1>5, <1>7, <1>8
<1>10. ASSUME NEW r \in 1..k, NEW s \in 1..k, r < s, at[r] <= EndOf(k, r, n)
       PROVE  at[r] # at[s]
  <2>1. EndOf(k, r, n) < StartOf(k, s, n)  BY <1>4, <1>5, <1>10, ChunksApart
  <2>2. EndOf(k, r, n) \in Int /\ StartOf(k, s, n) \in Int  BY <1>4, <1>5, ChunksApart
  <2>3. at[r] \in Int /\ at[s] \in Int /\ StartOf(k, s, n) <= at[s]  BY <1>6
  <2>. QED  BY <1>10, <2>1, <2>2, <2>3
<1>11. at[p] # at[q]
  <2>1. p \in 1..k /\ q \in 1..k /\ (p < q \/ q < p)  BY <1>1, <1>5
  <2>. QED  BY <1>7, <1>10, <2>1
<1>12. /\ Vertex(p) # Vertex(q)
       /\ vertices[Vertex(p)].node = node /\ vertices[Vertex(q)].node = node
  BY <1>2, <1>3, <1>9, <1>11 DEF Lists, Vertex
<1>13. <<Vertex(q), turn>> \notin Reads(Vertex(p))
  <2>1. CASE loop = "draw"
    <3>1. Reads(Vertex(p)) = {<<Vertex(p), turn + 1>>}
                               \cup {<<e.target, turn + 1>> : e \in draw_edges(Vertex(p))}
      BY <2>1 DEF Reads
    <3>2. turn # turn + 1  BY <1>6
    <3>. QED  BY <3>1, <3>2
  <2>2. CASE loop = "discard"
    <3>1. Reads(Vertex(p)) = {<<e.source, turn>> : e \in selection_edges(Vertex(p))}
      BY <2>2 DEF Reads
    <3>2. ASSUME NEW e \in edges  PROVE e.source # Vertex(q)
      <4>1. vertices[e.source].node = "draw_node"  BY <3>2 DEF EdgeInv, Drawn
      <4>2. vertices[Vertex(q)].node = "discard_node"  BY <1>2, <1>12, <2>2
      <4>. QED  BY <4>1, <4>2
    <3>. QED  BY <3>1, <3>2 DEF selection_edges
  <2>. QED  BY <1>1, <2>1, <2>2
<1>. QED  BY <1>12, <1>13

\* For any number of threads and nodes: two iterations that may run at the same time
\* write different values, and neither reads what the other writes: NoDataRace.
THEOREM NoDataRaceCorrect ==
  ASSUME FivesInWall
  PROVE  StatsSpec => []NoDataRace
<1>1. StatsInit => LoopInv  BY DEF StatsInit, LoopInv
<1>2. StartInv /\ ListInv /\ LoopInv /\ [StatsNext]_<<vars, evaluation>> => LoopInv'  BY LoopStep
<1>3. StartInv /\ ListInv /\ EdgeInv /\ LoopInv => NoDataRace  BY LoopsApart
<1>. QED  BY <1>1, <1>2, <1>3, StatsRefineTheSearch, MovesCancel, Listed, EdgesKeepUp, PTL DEF StatsSpec

\* With the evaluation in progress or done, the graph and the answers still have all the
\* properties of the search.
THEOREM EvaluationKeepsTheGraph ==
  ASSUME FivesInWall
  PROVE  StatsSpec => [](TilesConserved /\ NodesOwnTheirHands /\ EdgesAreDraws /\ GraphIsComplete
                           /\ AnswersAreChoices)
BY StatsRefineTheSearch, TilesConservedCorrect, NodesOwnTheirHandsCorrect, EdgesAreDrawsCorrect,
   GraphIsCompleteCorrect, AnswersAreChoicesCorrect, PTL

-----------------------------------------------------------------------------
(* Values of turns are numbers.                                            *)

\* What the evaluation needs to know of the finished graph.
Evaluable ==
  /\ input \in Inputs /\ vertices \in Seq(VertexRecords)
  /\ wall \in [Tiles -> Nat] /\ IsFiniteSet(edges)
  /\ \A e \in edges : Drawn(e) /\ e.weight \in Int

LEMMA TurnNumbers ==
  ASSUME Evaluable
  PROVE  input.t_min \in Int /\ input.t_max \in Int /\ WallTotal \in Int
<1>1. input.t_min \in Int /\ input.t_max \in Int /\ input.sum \in Int
  BY TurnsAssumption DEF Evaluable
<1>2. SumFunctionOnSet(wall, Kinds) \in Int
  <2>1. IsFiniteSet(Kinds) /\ \A k \in Kinds : wall[k] \in Int  BY TilesFinite DEF Evaluable
  <2>. QED  BY <2>1, SumInt
<1>. QED  BY <1>1, <1>2 DEF WallTotal

\* The products that Scale selects from.
Multiplies(g) == g = [u \in Turns |-> IF u = input.t_max THEN 1 ELSE g[u + 1] * (WallTotal - u)]

LEMMA ScaleOf == \A t : Scale(t) = (CHOOSE g : Multiplies(g))[t]
BY Zenon DEF Scale, Multiplies

\* The products from the last turn back to n turns before it.
MultipliesTo(g, n) ==
  /\ g \in [Turns -> Int]
  /\ \A u \in Turns : input.t_max - u <= n =>
       g[u] = IF u = input.t_max THEN 1 ELSE g[u + 1] * (WallTotal - u)

LEMMA MultipliesMore ==
  ASSUME Evaluable, NEW n \in Nat
  PROVE  \E g : MultipliesTo(g, n)
<1>. DEFINE F == {i \in Nat : ~ \E g : MultipliesTo(g, i)}
<1>1. SUFFICES ASSUME F # {} PROVE FALSE  OBVIOUS
<1>2. F \in SUBSET Nat  OBVIOUS
<1>3. PICK i \in F : \A j \in F : i <= j
  <2>. HIDE DEF F
  <2>. QED  BY <1>1, <1>2, MinOf
<1>4. i \in Nat /\ ~ \E g : MultipliesTo(g, i)  BY <1>3
<1>5. PICK a \in Int, z \in Int, w \in Int : a = input.t_min /\ z = input.t_max /\ w = WallTotal
  BY TurnNumbers
<1>6. Turns = a..z  BY <1>5 DEF Turns
<1>7. i # 0
  <2>1. SUFFICES ASSUME i = 0 PROVE FALSE  OBVIOUS
  <2>2. PICK g : g = [u \in Turns |-> 1]  OBVIOUS
  <2>3. \A u \in Turns : z - u <= 0 => u = z  BY <1>5, <1>6
  <2>4. MultipliesTo(g, 0)  BY <1>5, <2>2, <2>3 DEF MultipliesTo
  <2>. QED  BY <1>4, <2>1, <2>4
<1>8. i - 1 \in Nat /\ ~(i <= i - 1)  BY <1>4, <1>7
<1>9. PICK g : MultipliesTo(g, i - 1)  BY <1>3, <1>8
<1>10. PICK h : h = [u \in Turns |-> IF u = z - i THEN g[u + 1] * (w - u) ELSE g[u]]  OBVIOUS
<1>11. /\ g \in [Turns -> Int]
       /\ \A u \in Turns : z - u <= i - 1 => g[u] = IF u = z THEN 1 ELSE g[u + 1] * (w - u)
  BY <1>5, <1>9 DEF MultipliesTo
<1>12. \A u \in Turns : u # z => u + 1 \in Turns  BY <1>5, <1>6
<1>13. \A u \in Turns : h[u] = IF u = z - i THEN g[u + 1] * (w - u) ELSE g[u]  BY <1>10
<1>14. \A u \in Turns : h[u] \in Int
  <2>1. ASSUME NEW u \in Turns  PROVE h[u] \in Int
    <3>1. u \in Int /\ (u = z - i => u # z)  BY <1>5, <1>6, <1>4, <1>7
    <3>2. g[u] \in Int /\ (u = z - i => g[u + 1] \in Int)  BY <1>11, <1>12, <3>1
    <3>. QED  BY <1>5, <1>13, <3>1, <3>2
  <2>. QED  BY <2>1
<1>15. ASSUME NEW u \in Turns, z - u <= i
       PROVE  h[u] = IF u = z THEN 1 ELSE h[u + 1] * (w - u)
  <2>1. u \in Int  BY <1>5, <1>6
  <2>2. CASE u = z - i
    <3>1. u # z /\ u + 1 \in Turns /\ u + 1 # z - i  BY <1>4, <1>5, <1>7, <1>12, <2>1, <2>2
    <3>. QED  BY <1>13, <2>2, <3>1
  <2>3. CASE u # z - i
    <3>1. z - u <= i - 1 /\ u + 1 # z - i  BY <1>4, <1>5, <1>15, <2>1, <2>3
    <3>2. g[u] = IF u = z THEN 1 ELSE g[u + 1] * (w - u)  BY <1>11, <3>1
    <3>3. u # z => h[u + 1] = g[u + 1]  BY <1>12, <1>13, <3>1
    <3>4. h[u] = g[u]  BY <1>13, <2>3
    <3>. QED  BY <3>2, <3>3, <3>4
  <2>. QED  BY <2>2, <2>3
<1>16. h \in [Turns -> Int]  BY <1>10, <1>14
<1>17. MultipliesTo(h, i)  BY <1>5, <1>15, <1>16 DEF MultipliesTo
<1>. QED  BY <1>4, <1>17

\* 1.0 is a number at every turn.
LEMMA ScaleInt ==
  ASSUME Evaluable
  PROVE  \A t \in Turns : Scale(t) \in Int
<1>1. SUFFICES ASSUME NEW t \in Turns PROVE Scale(t) \in Int  OBVIOUS
<1>2. PICK a \in Int, z \in Int, w \in Int : a = input.t_min /\ z = input.t_max /\ w = WallTotal
  BY TurnNumbers
<1>3. Turns = a..z  BY <1>2 DEF Turns
<1>4. \E g : Multiplies(g)
  <2>1. z - a \in Nat  BY <1>1, <1>2, <1>3
  <2>2. PICK g : MultipliesTo(g, z - a)  BY <2>1, MultipliesMore
  <2>3. \A u \in Turns : g[u] = IF u = z THEN 1 ELSE g[u + 1] * (w - u)
    <3>1. \A u \in Turns : z - u <= z - a  BY <1>2, <1>3
    <3>. QED  BY <1>2, <2>2, <3>1 DEF MultipliesTo
  <2>4. g = [u \in Turns |-> g[u]]  BY <2>2 DEF MultipliesTo
  <2>5. g = [u \in Turns |-> IF u = z THEN 1 ELSE g[u + 1] * (w - u)]  BY <2>3, <2>4
  <2>. QED  BY <1>2, <2>5 DEF Multiplies
<1>5. PICK g : Multiplies(g) /\ \A u : Scale(u) = g[u]  BY <1>4, ScaleOf, Zenon
<1>6. \A u \in Turns : g[u] = IF u = z THEN 1 ELSE g[u + 1] * (w - u)  BY <1>2, <1>5 DEF Multiplies
<1>. DEFINE F == {n \in Nat : \E u \in Turns : n = z - u /\ g[u] \notin Int}
<1>7. F = {}
  <2>1. SUFFICES ASSUME F # {} PROVE FALSE  OBVIOUS
  <2>2. F \in SUBSET Nat  OBVIOUS
  <2>3. PICK n \in F : \A j \in F : n <= j
    <3>. HIDE DEF F
    <3>. QED  BY <2>1, <2>2, MinOf
  <2>4. PICK u \in Turns : n = z - u /\ g[u] \notin Int  BY <2>3
  <2>5. u \in Int /\ u # z /\ g[u] = g[u + 1] * (w - u)  BY <1>3, <1>6, <2>4
  <2>6. u + 1 \in Turns /\ z - (u + 1) \in Nat /\ ~(n <= z - (u + 1))  BY <1>2, <1>3, <2>4, <2>5
  <2>7. g[u + 1] \in Int  BY <2>3, <2>6
  <2>. QED  BY <1>2, <2>4, <2>5, <2>7
<1>8. g[t] \in Int
  <2>1. z - t \in Nat  BY <1>1, <1>2, <1>3
  <2>. QED  BY <1>1, <1>7, <2>1
<1>. QED  BY <1>5, <1>8

-----------------------------------------------------------------------------
(* The recursion over turns and hands.                                     *)

\* The values, as the solution of the recursion has them.
Index == Fields \X Turns \X DOMAIN vertices
Values == [x \in Index |-> val[x[3]][x[1]][x[2]]]

LEMMA ValuesOf ==
  ASSUME NEW f \in Fields, NEW t \in Turns, NEW v \in DOMAIN vertices
  PROVE  <<f, t, v>> \in Index /\ Values[<<f, t, v>>] = val[v][f][t]
BY DEF Values, Index

Numbers(E) == \A f \in Fields : \A t \in Turns : \A v \in DOMAIN vertices : E[<<f, t, v>>] \in Int

LEMMA EdgeEnds ==
  ASSUME Evaluable, NEW v \in DOMAIN vertices
  PROVE  /\ IsFiniteSet(draw_edges(v)) /\ IsFiniteSet(selection_edges(v))
         /\ \A e \in draw_edges(v) : /\ e \in edges /\ e.weight \in Int
                                     /\ e.target \in DOMAIN vertices
                                     /\ vertices[e.target].node = "discard_node"
         /\ \A e \in selection_edges(v) : /\ e.source \in DOMAIN vertices
                                          /\ vertices[e.source].node = "draw_node"
         /\ vertices[v].node \in NodeKinds
<1>1. draw_edges(v) \subseteq edges /\ selection_edges(v) \subseteq edges
  BY DEF draw_edges, selection_edges
<1>2. IsFiniteSet(draw_edges(v)) /\ IsFiniteSet(selection_edges(v))
  BY <1>1, FS_Subset DEF Evaluable
<1>3. vertices[v].node \in NodeKinds
  <2>1. vertices \in Seq(VertexRecords)  BY DEF Evaluable
  <2>2. vertices[v] \in VertexRecords  BY <2>1, ElementOfSeq, LenProperties
  <2>. QED  BY <2>2 DEF VertexRecords
<1>4. \A e \in edges : /\ e.source \in DOMAIN vertices /\ vertices[e.source].node = "draw_node"
                       /\ e.target \in DOMAIN vertices /\ vertices[e.target].node = "discard_node"
                       /\ e.weight \in Int
  BY DEF Evaluable, Drawn
<1>. QED  BY <1>1, <1>2, <1>3, <1>4

\* The larger of two.
LEMMA MaxTwo ==
  ASSUME NEW a \in Int, NEW b \in Int
  PROVE  Max({a, b}) = IF b > a THEN b ELSE a
<1>1. PICK S : S = {a, b}  OBVIOUS
<1>2. IsFiniteSet(S) /\ S # {} /\ \A x \in S : x \in Int
  <2>1. S = {a} \cup {b}  BY <1>1
  <2>2. IsFiniteSet({a}) /\ IsFiniteSet({b})  BY FS_Singleton
  <2>3. IsFiniteSet(S)  BY <2>1, <2>2, FS_Union
  <2>. QED  BY <1>1, <2>3
<1>3. PICK m : m = Max(S)  OBVIOUS
<1>4. m \in S /\ \A x \in S : m >= x  BY <1>2, <1>3, MaxOf
<1>5. m \in {a, b} /\ m >= a /\ m >= b  BY <1>1, <1>4
<1>. QED  BY <1>1, <1>3, <1>5

\* The gains of a draw are numbers.
LEMMA GainInt ==
  ASSUME Evaluable, NEW E, Numbers(E), NEW f \in Fields, NEW t \in Turns, t # input.t_max,
         NEW v \in DOMAIN vertices, NEW e \in draw_edges(v)
  PROVE  /\ t + 1 \in Turns /\ E[<<f, t + 1, e.target>>] \in Int
         /\ Gain(E, f, t, e) \in Int
         /\ LET next == E[<<f, t + 1, e.target>>]
                points == (IF e.score[3] THEN 2 ELSE 1) * Scale(t + 1)
            IN  Gain(E, f, t, e) = IF e.score = <<>> THEN next
                                   ELSE IF f # "exp_score" THEN Scale(t + 1)
                                   ELSE IF points > next THEN points ELSE next
<1>1. t + 1 \in Turns  BY TurnNumbers DEF Turns
<1>2. e.target \in DOMAIN vertices  BY EdgeEnds
<1>3. E[<<f, t + 1, e.target>>] \in Int  BY <1>1, <1>2 DEF Numbers
<1>4. Scale(t + 1) \in Int  BY <1>1, ScaleInt
<1>5. PICK n \in Int, s \in Int, p \in Int :
        /\ n = E[<<f, t + 1, e.target>>] /\ s = Scale(t + 1)
        /\ p = (IF e.score[3] THEN 2 ELSE 1) * Scale(t + 1)
  <2>1. (IF e.score[3] THEN 2 ELSE 1) * Scale(t + 1) \in Int  BY <1>4
  <2>. QED  BY <1>3, <1>4, <2>1
<1>6. Gain(E, f, t, e) = IF e.score = <<>> THEN n ELSE IF f # "exp_score" THEN s ELSE Max({n, p})
  BY <1>5 DEF Gain
<1>7. Max({n, p}) = IF p > n THEN p ELSE n  BY MaxTwo
<1>. QED  BY <1>1, <1>3, <1>5, <1>6, <1>7

\* The weights w of draws, their gains r, both multiplied, and what they add to a.
Draws(S, a, w, r, m, d) ==
  \A e \in S : w[e] \in Int /\ r[e] \in Int /\ m[e] = w[e] * r[e] /\ d[e] = w[e] * (r[e] - a)

\* Waiting and drawing: what each draw adds to waiting, or the average of all tiles.
LEMMA WaitOrDraw ==
  ASSUME NEW S, IsFiniteSet(S), NEW a \in Int, NEW n \in Int, NEW w, NEW r, NEW m, NEW d,
         Draws(S, a, w, r, m, d)
  PROVE  /\ SumFunctionOnSet(m, S) \in Int /\ SumFunctionOnSet(w, S) \in Int
         /\ a * n + SumFunctionOnSet(d, S)
              = (n - SumFunctionOnSet(w, S)) * a + SumFunctionOnSet(m, S)
<1>1. PICK c : c = [e \in S |-> w[e] * a]  OBVIOUS
<1>2. \A e \in S : w[e] \in Int /\ c[e] = w[e] * a  BY <1>1 DEF Draws
<1>3. \A e \in S : c[e] \in Int /\ d[e] \in Int /\ m[e] = c[e] + d[e]
  <2>1. ASSUME NEW e \in S  PROVE c[e] \in Int /\ d[e] \in Int /\ m[e] = c[e] + d[e]
    <3>1. PICK x \in Int, y \in Int : x = w[e] /\ y = r[e]  BY DEF Draws
    <3>2. x * a \in Int /\ x * y \in Int /\ x * (y - a) \in Int  OBVIOUS
    <3>3. x * y = x * a + x * (y - a)  OBVIOUS
    <3>4. c[e] = x * a /\ d[e] = x * (y - a) /\ m[e] = x * y  BY <1>1, <3>1 DEF Draws
    <3>. QED  BY <3>2, <3>3, <3>4
  <2>. QED  BY <2>1
<1>4. SumFunctionOnSet(m, S) = SumFunctionOnSet(c, S) + SumFunctionOnSet(d, S)
  BY <1>3, SumPlus
<1>5. SumFunctionOnSet(c, S) = SumFunctionOnSet(w, S) * a  BY <1>2, SumTimes
<1>6. \A e \in S : w[e] \in Int  BY DEF Draws
<1>7. SumFunctionOnSet(w, S) \in Int  BY <1>6, SumInt
<1>8. \A e \in S : d[e] \in Int  BY <1>3
<1>9. SumFunctionOnSet(d, S) \in Int  BY <1>8, SumInt
<1>10. PICK x \in Int, y \in Int : x = SumFunctionOnSet(w, S) /\ y = SumFunctionOnSet(d, S)
  BY <1>7, <1>9
<1>11. x * a \in Int /\ a * n \in Int /\ (n - x) * a = a * n - x * a  OBVIOUS
<1>12. SumFunctionOnSet(m, S) = x * a + y  BY <1>4, <1>5, <1>10
<1>. QED  BY <1>10, <1>11, <1>12

\* The value of a node is determined by what its edges lead to.
LEMMA SequentialReads ==
  ASSUME Evaluable, NEW E, NEW D, NEW f, NEW t, NEW v \in DOMAIN vertices,
         vertices[v].node = "discard_node" =>
           \A e \in selection_edges(v) : E[<<f, t, e.source>>] = D[<<f, t, e.source>>],
         vertices[v].node = "draw_node" /\ t # input.t_max =>
           /\ E[<<f, t + 1, v>>] = D[<<f, t + 1, v>>]
           /\ \A e \in draw_edges(v) : E[<<f, t + 1, e.target>>] = D[<<f, t + 1, e.target>>]
  PROVE  Sequential(E, f, t, v) = Sequential(D, f, t, v)
<1>1. vertices[v].node \in {"draw_node", "discard_node"}  BY EdgeEnds DEF NodeKinds
<1>2. CASE vertices[v].node = "discard_node"
  <2>1. {E[<<f, t, e.source>>] : e \in selection_edges(v)} = {D[<<f, t, e.source>>] : e \in selection_edges(v)}
    BY <1>2
  <2>. QED  BY <1>2, <2>1 DEF Sequential
<1>3. CASE vertices[v].node = "draw_node" /\ t # input.t_max
  <2>1. \A e \in draw_edges(v) : Gain(E, f, t, e) = Gain(D, f, t, e)  BY <1>3 DEF Gain
  <2>2. [e \in draw_edges(v) |-> e.weight * Gain(E, f, t, e)]
          = [e \in draw_edges(v) |-> e.weight * Gain(D, f, t, e)]
    BY <2>1
  <2>. QED  BY <1>3, <2>2 DEF Sequential
<1>4. CASE vertices[v].node = "draw_node" /\ t = input.t_max  BY <1>4 DEF Sequential
<1>. QED  BY <1>1, <1>2, <1>3, <1>4

\* The sums of a draw node.
LEMMA DrawSums ==
  ASSUME Evaluable, NEW E, Numbers(E), NEW f \in Fields, NEW t \in Turns, t # input.t_max,
         NEW v \in DOMAIN vertices
  PROVE  LET S == draw_edges(v)
             a == E[<<f, t + 1, v>>]
             m == SumFunction([e \in S |-> e.weight * Gain(E, f, t, e)])
             w == SumFunction([e \in S |-> e.weight])
             d == SumFunction([e \in S |-> e.weight * (Gain(E, f, t, e) - a)])
         IN  /\ a \in Int /\ m \in Int /\ w \in Int
             /\ a * (WallTotal - t) + d = (WallTotal - t - w) * a + m
<1>1. PICK S, w, r, m, d, a :
        /\ S = draw_edges(v) /\ a = E[<<f, t + 1, v>>]
        /\ r = [e \in S |-> Gain(E, f, t, e)]
        /\ m = [e \in S |-> e.weight * Gain(E, f, t, e)]
        /\ w = [e \in S |-> e.weight]
        /\ d = [e \in S |-> e.weight * (Gain(E, f, t, e) - a)]
  OBVIOUS
<1>2. t \in Int /\ t + 1 \in Turns /\ WallTotal \in Int
  BY TurnNumbers DEF Turns
<1>3. a \in Int /\ IsFiniteSet(S)  BY <1>1, <1>2, EdgeEnds DEF Numbers
<1>4. Draws(S, a, w, r, m, d)  BY <1>1, EdgeEnds, GainInt DEF Draws
<1>5. PICK n \in Int : n = WallTotal - t  BY <1>2
<1>6. /\ SumFunctionOnSet(m, S) \in Int /\ SumFunctionOnSet(w, S) \in Int
      /\ a * n + SumFunctionOnSet(d, S)
           = (n - SumFunctionOnSet(w, S)) * a + SumFunctionOnSet(m, S)
  <2>1. a \in Int /\ n \in Int /\ IsFiniteSet(S)  BY <1>3
  <2>. QED  BY ONLY <1>4, <2>1, WaitOrDraw
<1>7. /\ SumFunction(m) = SumFunctionOnSet(m, S) /\ SumFunction(w) = SumFunctionOnSet(w, S)
      /\ SumFunction(d) = SumFunctionOnSet(d, S)
  BY <1>1, SumWhole
<1>. QED  BY <1>1, <1>3, <1>5, <1>6, <1>7

\* The recursion yields numbers.
LEMMA SequentialInt ==
  ASSUME Evaluable, NEW E, Numbers(E), NEW f \in Fields, NEW t \in Turns, NEW v \in DOMAIN vertices
  PROVE  Sequential(E, f, t, v) \in Int
<1>1. CASE vertices[v].node = "discard_node"
  <2>1. PICK S : S = {E[<<f, t, e.source>>] : e \in selection_edges(v)}  OBVIOUS
  <2>2. \A x \in S : x \in Int  BY <2>1, EdgeEnds DEF Numbers
  <2>3. IsFiniteSet(S)
    <3>1. IsFiniteSet(selection_edges(v))  BY EdgeEnds
    <3>2. PICK g : g = [e \in selection_edges(v) |-> E[<<f, t, e.source>>]]  OBVIOUS
    <3>3. g \in Surjection(selection_edges(v), S)  BY <2>1, <3>2 DEF Surjection
    <3>. QED  BY <3>1, <3>3, FS_Surjection
  <2>4. PICK T : T = {0} \cup S  OBVIOUS
  <2>5. IsFiniteSet(T) /\ T # {} /\ \A x \in T : x \in Int
    <3>1. IsFiniteSet({0})  BY FS_Singleton
    <3>2. IsFiniteSet(T)  BY <2>3, <2>4, <3>1, FS_Union
    <3>. QED  BY <2>2, <2>4, <3>2
  <2>6. Max(T) \in Int  BY <2>5, MaxOf
  <2>. QED  BY <1>1, <2>1, <2>4, <2>6 DEF Sequential
<1>2. CASE vertices[v].node # "discard_node" /\ t # input.t_max
  <2>1. PICK a, m, w : /\ a = E[<<f, t + 1, v>>]
                       /\ m = SumFunction([e \in draw_edges(v) |-> e.weight * Gain(E, f, t, e)])
                       /\ w = SumFunction([e \in draw_edges(v) |-> e.weight])
    OBVIOUS
  <2>2. a \in Int /\ m \in Int /\ w \in Int  BY <1>2, <2>1, DrawSums
  <2>3. WallTotal \in Int /\ t \in Int  BY TurnNumbers DEF Turns
  <2>4. (WallTotal - t - w) * a + m \in Int  BY <2>2, <2>3
  <2>5. Scale(t) \in Int  BY ScaleInt
  <2>. QED  BY <1>2, <2>1, <2>4, <2>5 DEF Sequential
<1>3. CASE vertices[v].node # "discard_node" /\ t = input.t_max
  <2>1. Scale(t) \in Int  BY ScaleInt
  <2>. QED  BY <1>3, <2>1 DEF Sequential
<1>. QED  BY <1>1, <1>2, <1>3

\* Values for every vertex, field and turn.
ValTyped == val \in [DOMAIN vertices -> [Fields -> [Turns -> Int]]]

LEMMA ValuesNumbers ==
  ASSUME ValTyped
  PROVE  Numbers(Values)
<1>1. \A v \in DOMAIN vertices : \A f \in Fields : \A t \in Turns : val[v][f][t] \in Int
  BY DEF ValTyped
<1>. QED  BY <1>1, ValuesOf DEF Numbers

\* What an iteration computes follows the recursion.
LEMMA DrawFollows ==
  ASSUME Evaluable, ValTyped, NEW f \in Fields, NEW t \in Turns,
         NEW v \in DOMAIN vertices, vertices[v].node = "draw_node"
  PROVE  DrawValue(f, v, t) = Sequential(Values, f, t, v)
<1>1. PICK E : E = Values  OBVIOUS
<1>2. Numbers(E)  BY <1>1, ValuesNumbers
<1>3. CASE t = input.t_max  BY <1>3 DEF DrawValue, Sequential
<1>4. CASE t # input.t_max
  <2>1. t + 1 \in Turns  BY <1>4, TurnNumbers DEF Turns
  <2>2. PICK a : a = E[<<f, t + 1, v>>]  OBVIOUS
  <2>3. val[v][f][t + 1] = a  BY <1>1, <2>1, <2>2, ValuesOf
  <2>4. ASSUME NEW e \in draw_edges(v)  PROVE Reward(f, e, t) = Gain(E, f, t, e)
    <3>1. val[e.target][f][t + 1] = E[<<f, t + 1, e.target>>]
      <4>1. e.target \in DOMAIN vertices  BY EdgeEnds
      <4>. QED  BY <1>1, <2>1, <4>1, ValuesOf
    <3>2. LET next == E[<<f, t + 1, e.target>>]
              points == (IF e.score[3] THEN 2 ELSE 1) * Scale(t + 1)
          IN  Gain(E, f, t, e) = IF e.score = <<>> THEN next
                                 ELSE IF f # "exp_score" THEN Scale(t + 1)
                                 ELSE IF points > next THEN points ELSE next
      BY <1>2, <1>4, GainInt
    <3>. QED  BY <3>1, <3>2 DEF Reward
  <2>5. [e \in draw_edges(v) |-> e.weight * (Reward(f, e, t) - val[v][f][t + 1])]
          = [e \in draw_edges(v) |-> e.weight * (Gain(E, f, t, e) - a)]
    BY <2>3, <2>4
  <2>6. PICK m, w, d : /\ m = SumFunction([e \in draw_edges(v) |-> e.weight * Gain(E, f, t, e)])
                       /\ w = SumFunction([e \in draw_edges(v) |-> e.weight])
                       /\ d = SumFunction([e \in draw_edges(v) |-> e.weight * (Gain(E, f, t, e) - a)])
    OBVIOUS
  <2>7. a * (WallTotal - t) + d = (WallTotal - t - w) * a + m
    BY <1>2, <1>4, <2>2, <2>6, DrawSums
  <2>8. DrawValue(f, v, t) = IF f = "tenpai_prob" /\ vertices[v].tenpai THEN Scale(t)
                             ELSE a * (WallTotal - t) + d
    BY <1>4, <2>3, <2>5, <2>6 DEF DrawValue
  <2>9. Sequential(E, f, t, v) = IF f = "tenpai_prob" /\ vertices[v].tenpai THEN Scale(t)
                                 ELSE (WallTotal - t - w) * a + m
    BY <1>4, <2>2, <2>6 DEF Sequential
  <2>. QED  BY <1>1, <2>7, <2>8, <2>9
<1>. QED  BY <1>3, <1>4

LEMMA DiscardFollows ==
  ASSUME Evaluable, ValTyped, NEW f \in Fields, NEW t \in Turns,
         NEW v \in DOMAIN vertices, vertices[v].node = "discard_node"
  PROVE  DiscardValue(f, v, t) = Sequential(Values, f, t, v)
<1>1. \A e \in selection_edges(v) : val[e.source][f][t] = Values[<<f, t, e.source>>]
  BY EdgeEnds, ValuesOf
<1>2. {val[e.source][f][t] : e \in selection_edges(v)} = {Values[<<f, t, e.source>>] : e \in selection_edges(v)}
  BY <1>1
<1>. QED  BY <1>2 DEF DiscardValue, Sequential

-----------------------------------------------------------------------------
(* The recursion has one solution: it goes from turn to turn, and within a *)
(* turn from discard nodes to draw nodes.                                  *)

Solves(E) == E = [x \in Index |-> Sequential(E, x[1], x[2], x[3])]

LEMMA ExpectedDef == Expected = CHOOSE E : Solves(E)
BY Zenon DEF Expected, Solves, Index

LEMMA SolvesAt ==
  ASSUME NEW E, Solves(E), NEW f \in Fields, NEW t \in Turns, NEW v \in DOMAIN vertices
  PROVE  E[<<f, t, v>>] = Sequential(E, f, t, v)
<1>1. PICK x : x = <<f, t, v>>  OBVIOUS
<1>2. x \in Index /\ x[1] = f /\ x[2] = t /\ x[3] = v  BY <1>1 DEF Index
<1>3. E[x] = Sequential(E, x[1], x[2], x[3])  BY <1>2, Zenon DEF Solves
<1>. QED  BY <1>1, <1>2, <1>3

Follows(E) ==
  \A f \in Fields : \A t \in Turns : \A v \in DOMAIN vertices :
    E[<<f, t, v>>] = Sequential(E, f, t, v)

LEMMA SolutionUnique ==
  ASSUME Evaluable, NEW E, NEW D, Follows(E), Follows(D)
  PROVE  \A f \in Fields : \A t \in Turns : \A v \in DOMAIN vertices : E[<<f, t, v>>] = D[<<f, t, v>>]
<1>1. PICK a \in Int, z \in Int : a = input.t_min /\ z = input.t_max  BY TurnNumbers
<1>2. Turns = a..z  BY <1>1 DEF Turns
<1>. DEFINE Rank(t, v) == 2 * (z - t) + (IF vertices[v].node = "discard_node" THEN 1 ELSE 0)
            Bad(t, v) == \E f \in Fields : E[<<f, t, v>>] # D[<<f, t, v>>]
            F == {n \in Nat : \E t \in Turns : \E v \in DOMAIN vertices : n = Rank(t, v) /\ Bad(t, v)}
<1>3. \A t \in Turns : \A v \in DOMAIN vertices : Rank(t, v) \in Nat  BY <1>1, <1>2
<1>4. F = {}
  <2>1. SUFFICES ASSUME F # {} PROVE FALSE  OBVIOUS
  <2>2. F \in SUBSET Nat  OBVIOUS
  <2>3. PICK n \in F : \A j \in F : n <= j
    <3>. HIDE DEF F
    <3>. QED  BY <2>1, <2>2, MinOf
  <2>4. PICK t \in Turns, v \in DOMAIN vertices : n = Rank(t, v) /\ Bad(t, v)  BY <2>3
  <2>5. PICK f \in Fields : E[<<f, t, v>>] # D[<<f, t, v>>]  BY <2>4
  <2>6. ASSUME NEW u \in Turns, NEW w \in DOMAIN vertices, Rank(u, w) < n
        PROVE  E[<<f, u, w>>] = D[<<f, u, w>>]
    <3>1. Rank(u, w) \in Nat /\ n \in Nat  BY <1>3, <2>2
    <3>2. Rank(u, w) \notin F  BY <2>3, <2>6, <3>1
    <3>. QED  BY <3>1, <3>2
  <2>7. t \in Int /\ (t # z => t + 1 \in Turns)  BY <1>1, <1>2
  <2>8. ASSUME vertices[v].node = "discard_node", NEW e \in selection_edges(v)
        PROVE  E[<<f, t, e.source>>] = D[<<f, t, e.source>>]
    <3>1. e.source \in DOMAIN vertices /\ vertices[e.source].node = "draw_node"  BY EdgeEnds
    <3>2. Rank(t, e.source) < n  BY <1>1, <2>4, <2>7, <2>8, <3>1
    <3>. QED  BY <2>6, <3>1, <3>2
  <2>9. ASSUME t # z, NEW w \in DOMAIN vertices, vertices[v].node = "draw_node"
        PROVE  E[<<f, t + 1, w>>] = D[<<f, t + 1, w>>]
    <3>1. Rank(t + 1, w) < n  BY <1>1, <2>4, <2>7, <2>9
    <3>. QED  BY <2>6, <2>7, <2>9, <3>1
  <2>10. \A e \in draw_edges(v) : e.target \in DOMAIN vertices  BY EdgeEnds
  <2>11. Sequential(E, f, t, v) = Sequential(D, f, t, v)
    <3>. HIDE DEF F, Bad, Rank
    <3>1. vertices[v].node = "discard_node" =>
            \A e \in selection_edges(v) : E[<<f, t, e.source>>] = D[<<f, t, e.source>>]
      BY <2>8
    <3>2. vertices[v].node = "draw_node" /\ t # input.t_max =>
            /\ E[<<f, t + 1, v>>] = D[<<f, t + 1, v>>]
            /\ \A e \in draw_edges(v) : E[<<f, t + 1, e.target>>] = D[<<f, t + 1, e.target>>]
      BY <1>1, <2>9, <2>10
    <3>. QED  BY <3>1, <3>2, SequentialReads
  <2>. QED  BY <2>5, <2>11 DEF Follows
<1>5. ASSUME NEW f \in Fields, NEW t \in Turns, NEW v \in DOMAIN vertices
      PROVE  E[<<f, t, v>>] = D[<<f, t, v>>]
  <2>1. Rank(t, v) \in Nat /\ Rank(t, v) \notin F  BY <1>3, <1>4
  <2>2. ~Bad(t, v)  BY <2>1
  <2>. QED  BY <2>2
<1>. QED  BY <1>5

\* Values that satisfy the equation everywhere are those of the recursion.
LEMMA FollowsIsExpected ==
  ASSUME Evaluable,
         \A f \in Fields : \A t \in Turns : \A v \in DOMAIN vertices :
           val[v][f][t] = Sequential(Values, f, t, v)
  PROVE  \A f \in Fields : \A t \in Turns : \A v \in DOMAIN vertices : val[v][f][t] = Expected[<<f, t, v>>]
<1>1. PICK W : W = Values  OBVIOUS
<1>2. \A f \in Fields : \A t \in Turns : \A v \in DOMAIN vertices :
        /\ W[<<f, t, v>>] = val[v][f][t]
        /\ W[<<f, t, v>>] = Sequential(W, f, t, v)
  BY <1>1, ValuesOf
<1>3. Solves(W)
  <2>1. \A x \in Index : W[x] = Sequential(W, x[1], x[2], x[3])
    <3>1. ASSUME NEW x \in Index  PROVE W[x] = Sequential(W, x[1], x[2], x[3])
      <4>1. x = <<x[1], x[2], x[3]>> /\ x[1] \in Fields /\ x[2] \in Turns /\ x[3] \in DOMAIN vertices
        BY DEF Index
      <4>. QED  BY <1>2, <4>1
    <3>. QED  BY <3>1
  <2>2. W = [x \in Index |-> W[x]]  BY <1>1 DEF Values
  <2>3. W = [x \in Index |-> Sequential(W, x[1], x[2], x[3])]  BY <2>1, <2>2, Zenon
  <2>. QED  BY <2>3 DEF Solves
<1>4. PICK E : Solves(E) /\ E = Expected  BY <1>3, ExpectedDef, Zenon
<1>5. Follows(E) /\ Follows(W)  BY <1>2, <1>4, SolvesAt DEF Follows
<1>6. \A f \in Fields : \A t \in Turns : \A v \in DOMAIN vertices : E[<<f, t, v>>] = W[<<f, t, v>>]
  BY ONLY Evaluable, <1>5, SolutionUnique, Zenon
<1>. QED  BY <1>2, <1>4, <1>6

-----------------------------------------------------------------------------
(* Every node is in its list, and there are finitely many edges.           *)

Everyone(list, node) ==
  \A v \in DOMAIN vertices : vertices[v].node = node => \E i \in 1..Len(list) : list[i] = v

GraphInv ==
  /\ IsFiniteSet(edges) /\ wall \in [Tiles -> Nat] /\ hand_org \in [Tiles -> Int]
  /\ Everyone(draw_vertices, "draw_node") /\ Everyone(discard_vertices, "discard_node")

\* A new vertex at the end of its list.
LEMMA EveryoneGrows ==
  ASSUME NEW v \in VertexRecords, vertices \in Seq(VertexRecords), vertices' = Append(vertices, v),
         NEW list \in Seq(Nat), NEW node, Everyone(list, node), NEW longer,
         longer = IF v.node = node THEN Append(list, Len(vertices) + 1) ELSE list
  PROVE  Everyone(longer, node)'
<1>1. PICK k, n : k = Len(vertices) + 1 /\ n = Len(list)  OBVIOUS
<1>2. /\ vertices'[k] = v /\ DOMAIN vertices' = DOMAIN vertices \cup {k}
      /\ \A u \in DOMAIN vertices : vertices'[u] = vertices[u]
  BY <1>1, Appended, LenProperties, AppendProperties
<1>3. k \in Nat /\ n \in Nat  BY <1>1, LenProperties
<1>4. /\ n <= Len(longer) /\ Len(longer) \in Nat /\ \A i \in 1..n : longer[i] = list[i]
      /\ v.node = node => n + 1 \in 1..Len(longer) /\ longer[n + 1] = k
  BY <1>1, <1>3, AppendProperties, LenProperties
<1>5. ASSUME NEW u \in DOMAIN vertices', vertices'[u].node = node
      PROVE  \E i \in 1..Len(longer) : longer[i] = u
  <2>1. CASE u = k  BY <1>2, <1>4, <1>5, <2>1
  <2>2. CASE u # k
    <3>1. u \in DOMAIN vertices /\ vertices[u].node = node  BY <1>2, <1>5, <2>2
    <3>2. PICK i \in 1..n : list[i] = u  BY <1>1, <3>1 DEF Everyone
    <3>3. i \in 1..Len(longer) /\ longer[i] = u  BY <1>3, <1>4, <3>2
    <3>. QED  BY <3>3
  <2>. QED  BY <2>1, <2>2
<1>. QED  BY <1>5 DEF Everyone

LEMMA GraphStep ==
  ASSUME StartInv, MoveInv, NodeInv, ListInv, GraphInv, [Next]_vars
  PROVE  GraphInv'
<1>1. ASSUME wall' \in [Tiles -> Nat], hand_org' \in [Tiles -> Int], IsFiniteSet(edges'),
             vertices' = vertices, draw_vertices' = draw_vertices, discard_vertices' = discard_vertices
      PROVE  GraphInv'
  BY <1>1 DEF GraphInv, Everyone
<1>2. CASE UNCHANGED vars  BY <1>1, <1>2 DEF vars, GraphInv
<1>3. PICK h, w, h2, w2 : /\ h = input.hand /\ w = input.wall
                          /\ h2 = normalize_red_fives(h) /\ w2 = normalize_red_fives(w)
  OBVIOUS
<1>4. h \in [Tiles -> Nat] /\ w \in [Tiles -> Nat]  BY <1>3, InputsPlayable DEF StartInv
<1>5. h2 \in [Tiles -> Nat] /\ w2 \in [Tiles -> Nat]
  BY <1>3, <1>4, NormalizedPlayable DEF Playable
<1>6. CASE Start
  <2>1. PICK a \in {h, h2}, b \in {w, w2} : wall' = b /\ hand_org' = to_separated_count(a)
    BY <1>3, <1>6 DEF Start, Prepare
  <2>2. a \in [Tiles -> Nat] /\ b \in [Tiles -> Nat]  BY <1>4, <1>5
  <2>3. to_separated_count(a) \in [Tiles -> Int]  BY <2>2, SeparatedLess
  <2>4. /\ vertices' = vertices /\ draw_vertices' = draw_vertices /\ edges' = edges
        /\ discard_vertices' = discard_vertices
    BY <1>6 DEF Start, graph, nodes
  <2>. QED  BY <1>1, <2>1, <2>2, <2>3, <2>4 DEF GraphInv
<1>7. CASE Shallow
  <2>1. PICK b \in {w, w2} : wall' = b  BY <1>3, <1>7 DEF Shallow, Answer
  <2>2. /\ vertices' = vertices /\ draw_vertices' = draw_vertices /\ edges' = edges
        /\ discard_vertices' = discard_vertices /\ hand_org' = hand_org
    BY <1>7 DEF Shallow, graph, nodes
  <2>. QED  BY <1>1, <1>4, <1>5, <2>1, <2>2 DEF GraphInv
<1>8. CASE DrawNew \/ DiscardNew
  <2>1. PICK v \in VertexRecords : vertices' = Append(vertices, v) /\ v.node = Top.node
    BY <1>8, Expanded
  <2>2. edges' = edges /\ wall' = wall /\ hand_org' = hand_org
    BY <1>8 DEF DrawNew, DiscardNew, Expand, given
  <2>3. PICK a, b, c, d : /\ a = draw_vertices /\ b = discard_vertices
                          /\ c = draw_vertices' /\ d = discard_vertices'
    OBVIOUS
  <2>4. /\ c = IF v.node = "draw_node" THEN Append(a, Len(vertices) + 1) ELSE a
        /\ d = IF v.node = "discard_node" THEN Append(b, Len(vertices) + 1) ELSE b
    BY <1>8, <2>1, <2>3 DEF DrawNew, DiscardNew, Running
  <2>5. /\ vertices \in Seq(VertexRecords) /\ a \in Seq(Nat) /\ b \in Seq(Nat)
        /\ Everyone(a, "draw_node") /\ Everyone(b, "discard_node")
    BY <2>3 DEF NodeInv, ListInv, Lists, GraphInv
  <2>6. Everyone(c, "draw_node")'  BY <2>1, <2>4, <2>5, EveryoneGrows
  <2>7. Everyone(d, "discard_node")'  BY <2>1, <2>4, <2>5, EveryoneGrows
  <2>. QED  BY <2>2, <2>3, <2>6, <2>7 DEF GraphInv, Everyone
<1>9. CASE DrawBack \/ DiscardBack
  <2>1. /\ wall' = wall /\ hand_org' = hand_org /\ vertices' = vertices
        /\ draw_vertices' = draw_vertices /\ discard_vertices' = discard_vertices
    BY <1>9 DEF DrawBack, DiscardBack, given, nodes
  <2>2. PICK e : edges' = edges \/ edges' = edges \cup {e}
    BY <1>9 DEF DrawBack, DiscardBack, AddEdge
  <2>3. IsFiniteSet(edges) /\ IsFiniteSet(edges \cup {e})  BY FS_AddElement DEF GraphInv
  <2>. QED  BY <1>1, <2>1, <2>2, <2>3 DEF GraphInv
<1>10. CASE DrawHit \/ DiscardHit \/ DrawTile \/ DiscardTile \/ Done \/ ReportDraw \/ ReportDiscards
  <2>1. /\ wall' = wall /\ hand_org' = hand_org /\ vertices' = vertices /\ edges' = edges
        /\ draw_vertices' = draw_vertices /\ discard_vertices' = discard_vertices
    BY <1>10
    DEF DrawHit, DiscardHit, DrawTile, DiscardTile, Done, ReportDraw, ReportDiscards, graph, nodes, given
  <2>. QED  BY <1>1, <2>1 DEF GraphInv
<1>11. CASE Finished  BY <1>2, <1>11 DEF Finished
<1>. QED  BY <1>2, <1>6, <1>7, <1>8, <1>9, <1>10, <1>11 DEF Next

LEMMA Graphed ==
  ASSUME FivesInWall
  PROVE  Spec => []GraphInv
<1>1. Init => GraphInv
  <2>1. SUFFICES ASSUME Init PROVE GraphInv  OBVIOUS
  <2>2. edges = {} /\ vertices = <<>> /\ wall = input.wall /\ hand_org = input.hand /\ input \in Inputs
    BY <2>1 DEF Init
  <2>3. wall \in [Tiles -> Nat] /\ hand_org \in [Tiles -> Int]  BY <2>2, InputsPlayable
  <2>4. IsFiniteSet(edges) /\ DOMAIN vertices = {}  BY <2>2, FS_EmptySet
  <2>. QED  BY <2>3, <2>4 DEF GraphInv, Everyone
<1>2. StartInv /\ MoveInv /\ NodeInv /\ ListInv /\ GraphInv /\ [Next]_vars => GraphInv'
  BY GraphStep
<1>. QED  BY <1>1, <1>2, MovesCancel, CachesAnswerRight, Listed, PTL DEF Spec

LEMMA GraphEvaluable ==
  ASSUME StartInv, NodeInv, EdgeInv, GraphInv
  PROVE  Evaluable
<1>1. to_separated_count(wall) \in [Tiles -> Int]  BY SeparatedLess DEF GraphInv
<1>2. \A t \in Tiles : Total[t] \in Int  BY <1>1 DEF Total, GraphInv
<1>3. ASSUME NEW e \in edges  PROVE Drawn(e) /\ e.weight \in Int
  <2>1. Drawn(e)  BY DEF EdgeInv
  <2>2. PICK t \in Tiles : e.weight = Total[t] - vertices[e.source].hand[t]  BY <2>1 DEF Drawn
  <2>3. vertices[e.source].hand \in [Tiles -> Nat]
    <3>1. e.source \in DOMAIN vertices  BY <2>1 DEF Drawn
    <3>. QED  BY <3>1, VertexOf DEF VertexRecords
  <2>4. Total[t] \in Int /\ vertices[e.source].hand[t] \in Int  BY <1>2, <2>3
  <2>. QED  BY <2>1, <2>2, <2>4
<1>. QED  BY <1>3 DEF Evaluable, StartInv, NodeInv, GraphInv

-----------------------------------------------------------------------------
(* The evaluation follows the recursion, turn by turn.                     *)

\* A step that leaves the graph alone leaves the recursion alone.
SameGraph == vertices' = vertices /\ edges' = edges /\ input' = input /\ wall' = wall

LEMMA ScaleStays ==
  ASSUME SameGraph
  PROVE  /\ Turns' = Turns /\ WallTotal' = WallTotal
         /\ \A t : Scale(t)' = Scale(t)
<1>1. Turns' = Turns /\ WallTotal' = WallTotal  BY DEF SameGraph, Turns, WallTotal
<1>2. ASSUME NEW t  PROVE Scale(t)' = Scale(t)  BY <1>1 DEF Scale, SameGraph
<1>. QED  BY <1>1, <1>2

LEMMA SequentialStays ==
  ASSUME SameGraph, NEW E, NEW f, NEW t, NEW v
  PROVE  Sequential(E, f, t, v)' = Sequential(E, f, t, v)
<1>1. /\ draw_edges(v)' = draw_edges(v) /\ selection_edges(v)' = selection_edges(v)
  BY DEF draw_edges, selection_edges, SameGraph
<1>2. ASSUME NEW e  PROVE Gain(E, f, t, e)' = Gain(E, f, t, e)  BY ScaleStays DEF Gain
<1>. QED  BY <1>1, <1>2, ScaleStays DEF Sequential, SameGraph

\* Some thread has done the iteration for a vertex.
Written(v) ==
  \E p \in Threads : \E i \in 1..Len(Loop) :
    Loop[i] = v /\ ChunkStart(p, Len(Loop)) <= i /\ i <= ChunkEnd(p, Len(Loop)) /\ i < at[p]

\* The value of a vertex at a turn has been computed.
Settled(v, t) ==
  \/ loop = "over" \/ t > turn
  \/ t = turn /\ loop = "discard" /\ vertices[v].node = "draw_node"
  \/ t = turn /\ Written(v)

\* What has been computed follows the recursion.
Computed ==
  \A v \in DOMAIN vertices : \A t \in Turns :
    Settled(v, t) => \A f \in Fields : val[v][f][t] = Sequential(Values, f, t, v)

EvalInv ==
  /\ loop \in {"none", "draw", "discard", "over"}
  /\ loop = "none" /\ phase = "done" => ~input.calc_stats
  /\ loop # "none" => frames = <<>> /\ phase # "start" /\ ValTyped /\ Computed

\* Every iteration is in somebody's chunk.
LEMMA SomeChunk ==
  ASSUME NEW k \in Nat \ {0}, NEW n \in Nat, NEW i \in 1..n
  PROVE  \E p \in 1..k : StartOf(k, p, n) <= i /\ i <= EndOf(k, p, n)
<1>. DEFINE F == {p \in Nat : p \in 1..k /\ i <= EndOf(k, p, n)}
<1>1. k \in F
  <2>1. PICK d \in Nat, m \in 0..(k - 1) : d = n \div k /\ m = n % k /\ n = k * d + m  BY DivMod
  <2>2. ~(k < m)  BY <2>1
  <2>3. EndOf(k, k, n) = n  BY <2>1, <2>2 DEF EndOf
  <2>. QED  BY <2>3
<1>2. F \in SUBSET Nat /\ F # {}  BY <1>1
<1>3. PICK p \in F : \A q \in F : p <= q
  <2>. HIDE DEF F
  <2>. QED  BY <1>2, MinOf
<1>4. p \in 1..k /\ i <= EndOf(k, p, n)  BY <1>3
<1>5. StartOf(k, p, n) <= i
  <2>1. CASE p = 1  BY <2>1 DEF StartOf
  <2>2. CASE p # 1
    <3>1. p - 1 \in 1..k /\ p - 1 \in 0..k /\ p \in 0..k /\ ~(p <= p - 1)  BY <1>4, <2>2
    <3>2. EndOf(k, p - 1, n) \in Nat /\ EndOf(k, p, n) \in Nat /\ EndOf(k, p - 1, n) <= EndOf(k, p, n)
      <4>1. p - 1 <= p  BY <1>4
      <4>. HIDE DEF F
      <4>. QED  BY <3>1, <4>1, EndsGrow
    <3>3. p - 1 \notin F  BY <1>3, <3>1
    <3>4. ~(i <= EndOf(k, p - 1, n))  BY <3>1, <3>3
    <3>. QED  BY <2>2, <3>2, <3>4 DEF StartOf
  <2>. QED  BY <2>1, <2>2
<1>. QED  BY <1>4, <1>5

\* When no thread is left in a loop, all its nodes are done.
LEMMA AllWritten ==
  ASSUME StartInv, ListInv, GraphInv, LoopInv, loop \in {"draw", "discard"},
         \A p \in Threads : ~Active(p),
         NEW v \in DOMAIN vertices,
         vertices[v].node = IF loop = "draw" THEN "draw_node" ELSE "discard_node"
  PROVE  Written(v)
<1>1. PICK k, n : k = input.threads /\ n = Len(Loop)  OBVIOUS
<1>2. /\ k \in Nat \ {0} /\ Threads = 1..k
      /\ \A r, m : ChunkEnd(r, m) = EndOf(k, r, m) /\ ChunkStart(r, m) = StartOf(k, r, m)
  BY <1>1, ChunksOf DEF StartInv, Threads
<1>3. n \in Nat  BY <1>1, LenProperties DEF ListInv, Lists, Loop
<1>4. PICK i \in 1..n : Loop[i] = v  BY <1>1 DEF GraphInv, Everyone, Loop
<1>5. PICK p \in 1..k : StartOf(k, p, n) <= i /\ i <= EndOf(k, p, n)  BY <1>2, <1>3, SomeChunk
<1>6. EndOf(k, p, n) \in Int  BY <1>2, <1>3, ChunksApart
<1>7. at[p] \in Int  BY <1>2 DEF LoopInv
<1>8. ~(at[p] <= EndOf(k, p, n))  BY <1>1, <1>2 DEF Active
<1>9. i < at[p]  BY <1>5, <1>6, <1>7, <1>8
<1>. QED  BY <1>1, <1>2, <1>4, <1>5, <1>9 DEF Written

\* A node that is done is one of the nodes of the loop.
LEMMA WrittenNode ==
  ASSUME ListInv, NEW v, Written(v)
  PROVE  v \in DOMAIN vertices /\ vertices[v].node = IF loop = "draw" THEN "draw_node" ELSE "discard_node"
BY DEF ListInv, Lists, Written, Loop

\* At the beginning of a loop nothing is done.
LEMMA NothingWritten ==
  ASSUME StartInv, ListInv, input' = input, draw_vertices' = draw_vertices,
         discard_vertices' = discard_vertices, at' = [p \in Threads |-> ChunkStart(p, Len(Loop'))]
  PROVE  \A v : ~Written(v)'
<1>1. Threads' = Threads /\ \A p, n : ChunkStart(p, n)' = ChunkStart(p, n)
  BY DEF Threads, ChunkStart, ChunkEnd
<1>2. PICK n : n = Len(Loop)'  OBVIOUS
<1>3. n \in Nat  BY <1>2, LenProperties DEF ListInv, Lists, Loop
<1>4. ASSUME NEW p \in Threads, NEW i \in 1..n, ChunkStart(p, n) <= i, i < at'[p]  PROVE FALSE
  <2>1. PICK k : k = input.threads  OBVIOUS
  <2>2. k \in Nat \ {0} /\ ChunkStart(p, n) = StartOf(k, p, n) /\ p \in 1..k
    BY <1>4, <2>1, ChunksOf DEF StartInv, Threads
  <2>3. ChunkStart(p, n) \in Int  BY <1>3, <2>2, ChunksApart
  <2>4. at'[p] = ChunkStart(p, n)  BY <1>2, <1>4
  <2>. QED  BY <1>4, <2>3, <2>4
<1>. QED  BY <1>1, <1>2, <1>4 DEF Written

\* Values that are left alone stay computed.
LEMMA ComputedStays ==
  ASSUME SameGraph, val' = val, ValTyped, Computed,
         \A v \in DOMAIN vertices : \A t \in Turns : Settled(v, t)' => Settled(v, t)
  PROVE  ValTyped' /\ Computed'
<1>1. DOMAIN vertices' = DOMAIN vertices /\ Turns' = Turns  BY ScaleStays DEF SameGraph
<1>2. PICK D : D = Values  OBVIOUS
<1>3. Values' = D  BY <1>1, <1>2 DEF Values, Index
<1>4. ASSUME NEW v \in DOMAIN vertices, NEW t \in Turns, Settled(v, t)', NEW f \in Fields
      PROVE  val'[v][f][t] = Sequential(D, f, t, v)'
  <2>1. val[v][f][t] = Sequential(D, f, t, v)  BY <1>2, <1>4 DEF Computed
  <2>2. Sequential(D, f, t, v)' = Sequential(D, f, t, v)  BY SequentialStays
  <2>. QED  BY <2>1, <2>2
<1>5. ASSUME NEW v, NEW t, NEW f
      PROVE  Sequential(Values, f, t, v)' = Sequential(D, f, t, v)'
  BY <1>3 DEF Sequential, Gain
<1>. QED  BY <1>1, <1>4, <1>5 DEF ValTyped, Computed

\* Nothing that has been computed depends on what is being computed.
LEMMA ComputedMore ==
  ASSUME Evaluable, ListInv, SameGraph, ValTyped, Computed,
         loop' = loop, turn' = turn, turn \in Int, loop \in {"draw", "discard"},
         NEW u \in DOMAIN vertices,
         vertices[u].node = IF loop = "draw" THEN "draw_node" ELSE "discard_node",
         \A v : Written(v)' => Written(v) \/ v = u,
         NEW g,
         turn \in Turns => \A f \in Fields : g[f] = Sequential(Values, f, turn, u),
         val' = [val EXCEPT ![u] = [f \in Fields |-> [val[u][f] EXCEPT ![turn] = g[f]]]]
  PROVE  ValTyped' /\ Computed'
<1>1. /\ DOMAIN vertices' = DOMAIN vertices /\ Turns' = Turns
      /\ \A t \in Turns : t \in Int
  BY ScaleStays, TurnNumbers DEF SameGraph, Turns
<1>2. PICK D, E : D = Values /\ E = Values'  OBVIOUS
<1>3. Numbers(D)  BY <1>2, ValuesNumbers
<1>4. ASSUME NEW v \in DOMAIN vertices, NEW f \in Fields, NEW t \in Turns
      PROVE  /\ val'[v][f][t] = IF v = u /\ t = turn THEN g[f] ELSE val[v][f][t]
             /\ val[v][f][t] \in Int
             /\ D[<<f, t, v>>] = val[v][f][t] /\ E[<<f, t, v>>] = val'[v][f][t]
  <2>1. val[v][f][t] \in Int  BY DEF ValTyped
  <2>2. val'[v][f][t] = IF v = u /\ t = turn THEN g[f] ELSE val[v][f][t]
    <3>1. v # u => val'[v] = val[v]  BY DEF ValTyped
    <3>2. val'[u] = [h \in Fields |-> [val[u][h] EXCEPT ![turn] = g[h]]]  BY DEF ValTyped
    <3>3. val'[u][f] = [val[u][f] EXCEPT ![turn] = g[f]]  BY <3>2
    <3>4. val[u][f] \in [Turns -> Int]  BY DEF ValTyped
    <3>5. val'[u][f][t] = IF t = turn THEN g[f] ELSE val[u][f][t]  BY <3>3, <3>4
    <3>. QED  BY <3>1, <3>5
  <2>3. D[<<f, t, v>>] = val[v][f][t]  BY <1>2, ValuesOf
  <2>4. E[<<f, t, v>>] = val'[v][f][t]
    <3>1. E = [x \in Index |-> val'[x[3]][x[1]][x[2]]]
      BY <1>1, <1>2 DEF Values, Index
    <3>2. <<f, t, v>> \in Index  BY ValuesOf
    <3>. QED  BY <3>1, <3>2
  <2>. QED  BY <2>1, <2>2, <2>3, <2>4
<1>5. ASSUME turn \in Turns, NEW f \in Fields  PROVE g[f] \in Int
  <2>1. g[f] = Sequential(D, f, turn, u)  BY <1>2, <1>5
  <2>2. Sequential(D, f, turn, u) \in Int  BY <1>3, <1>5, SequentialInt
  <2>. QED  BY <2>1, <2>2
<1>6. ValTyped'
  <2>1. ASSUME NEW f \in Fields  PROVE [val[u][f] EXCEPT ![turn] = g[f]] \in [Turns -> Int]
    <3>1. val[u][f] \in [Turns -> Int]  BY DEF ValTyped
    <3>. QED  BY <1>5, <3>1
  <2>2. PICK r : r = [f \in Fields |-> [val[u][f] EXCEPT ![turn] = g[f]]]  OBVIOUS
  <2>3. r \in [Fields -> [Turns -> Int]]  BY <2>1, <2>2
  <2>4. val' = [val EXCEPT ![u] = r]  BY <2>2
  <2>5. val' \in [DOMAIN vertices -> [Fields -> [Turns -> Int]]]  BY <2>3, <2>4 DEF ValTyped
  <2>. QED  BY <1>1, <2>5 DEF ValTyped
<1>7. ASSUME NEW v \in DOMAIN vertices, NEW f \in Fields, NEW t \in Turns,
             t >= turn, t = turn => loop = "discard" \/ vertices[v].node = "draw_node"
      PROVE  Sequential(E, f, t, v) = Sequential(D, f, t, v)
  <2>1. ASSUME vertices[v].node = "discard_node", NEW e \in selection_edges(v)
        PROVE  E[<<f, t, e.source>>] = D[<<f, t, e.source>>]
    <3>1. e.source \in DOMAIN vertices /\ vertices[e.source].node = "draw_node"  BY <2>1, EdgeEnds
    <3>2. t = turn => e.source # u  BY <1>7, <2>1, <3>1
    <3>. QED  BY <1>4, <3>1, <3>2
  <2>2. ASSUME t # input.t_max, NEW w \in DOMAIN vertices
        PROVE  E[<<f, t + 1, w>>] = D[<<f, t + 1, w>>]
    <3>1. t + 1 \in Turns  BY <2>2, TurnNumbers DEF Turns
    <3>2. t + 1 # turn  BY <1>1, <1>7
    <3>. QED  BY <1>4, <3>1, <3>2
  <2>3. \A e \in draw_edges(v) : e.target \in DOMAIN vertices  BY EdgeEnds
  <2>4. vertices[v].node = "discard_node" =>
          \A e \in selection_edges(v) : E[<<f, t, e.source>>] = D[<<f, t, e.source>>]
    BY <2>1
  <2>5. vertices[v].node = "draw_node" /\ t # input.t_max =>
          /\ E[<<f, t + 1, v>>] = D[<<f, t + 1, v>>]
          /\ \A e \in draw_edges(v) : E[<<f, t + 1, e.target>>] = D[<<f, t + 1, e.target>>]
    BY <2>2, <2>3
  <2>. QED  BY <2>4, <2>5, SequentialReads
<1>8. ASSUME NEW v \in DOMAIN vertices, NEW t \in Turns, Settled(v, t)', NEW f \in Fields
      PROVE  val'[v][f][t] = Sequential(E, f, t, v)
  <2>1. /\ t >= turn
        /\ t = turn => \/ loop = "discard" /\ vertices[v].node = "draw_node"
                       \/ Written(v)'
    BY <1>1, <1>8 DEF Settled, SameGraph
  <2>2. t = turn => loop = "discard" \/ vertices[v].node = "draw_node"
    BY <2>1, WrittenNode
  <2>3. Sequential(E, f, t, v) = Sequential(D, f, t, v)  BY <1>7, <2>1, <2>2
  <2>4. CASE v = u /\ t = turn
    <3>1. turn \in Turns  BY <1>8, <2>4
    <3>2. g[f] = Sequential(D, f, turn, u)  BY <1>2, <1>8, <3>1
    <3>3. Sequential(D, f, turn, u) = Sequential(D, f, t, v)  BY <2>4, Zenon
    <3>4. val'[v][f][t] = g[f]  BY ONLY v \in DOMAIN vertices, f \in Fields, t \in Turns, <1>4, <2>4
    <3>. QED  BY <2>3, <3>2, <3>3, <3>4
  <2>5. CASE ~(v = u /\ t = turn)
    <3>1. Settled(v, t)  BY <1>1, <2>1, <2>5 DEF Settled
    <3>2. val[v][f][t] = Sequential(D, f, t, v)  BY <1>2, <3>1 DEF Computed
    <3>. QED  BY <1>4, <2>3, <2>5, <3>2
  <2>. QED  BY <2>4, <2>5
<1>9. ASSUME NEW v, NEW t, NEW f
      PROVE  Sequential(Values, f, t, v)' = Sequential(E, f, t, v)
  <2>1. Sequential(Values, f, t, v)' = Sequential(E, f, t, v)'  BY <1>2 DEF Sequential, Gain
  <2>. QED  BY <2>1, SequentialStays
<1>10. Computed'  BY <1>1, <1>8, <1>9 DEF Computed
<1>. QED  BY <1>6, <1>10

\* What the iterations of a thread have in common.
LEMMA Iterates ==
  ASSUME StartInv, ListInv, LoopInv, UNCHANGED <<vars, loop, turn>>, loop \in {"draw", "discard"},
         NEW p \in Threads, Active(p), at' = [at EXCEPT ![p] = @ + 1]
  PROVE  /\ Vertex(p) \in DOMAIN vertices
         /\ vertices[Vertex(p)].node = IF loop = "draw" THEN "draw_node" ELSE "discard_node"
         /\ \A v : Written(v)' => Written(v) \/ v = Vertex(p)
<1>1. PICK k, n, node : /\ k = input.threads /\ n = Len(Loop)
                        /\ node = IF loop = "draw" THEN "draw_node" ELSE "discard_node"
  OBVIOUS
<1>2. Lists(Loop, node)  BY <1>1 DEF ListInv, Loop
<1>3. n \in Nat  BY <1>1, <1>2, LenProperties DEF Lists
<1>4. /\ k \in Nat \ {0} /\ Threads = 1..k
      /\ \A r, m : ChunkEnd(r, m) = EndOf(k, r, m) /\ ChunkStart(r, m) = StartOf(k, r, m)
  BY <1>1, ChunksOf DEF StartInv, Threads
<1>5. at \in [Threads -> Int] /\ StartOf(k, p, n) <= at[p]  BY <1>1, <1>4 DEF LoopInv
<1>6. at[p] <= EndOf(k, p, n)  BY <1>1, <1>4 DEF Active
<1>7. /\ StartOf(k, p, n) \in Int /\ 1 <= StartOf(k, p, n)
      /\ EndOf(k, p, n) \in Int /\ EndOf(k, p, n) <= n
  BY <1>3, <1>4, ChunksApart
<1>8. at[p] \in 1..n  BY <1>3, <1>5, <1>6, <1>7
<1>9. Vertex(p) \in DOMAIN vertices /\ vertices[Vertex(p)].node = node
  BY <1>1, <1>2, <1>8 DEF Lists, Vertex
<1>10. ASSUME NEW v, Written(v)', ~Written(v)  PROVE v = Vertex(p)
  <2>1. Threads' = Threads /\ Loop' = Loop  BY DEF vars, nodes, Threads, Loop
  <2>2. \A r, m : ChunkStart(r, m)' = ChunkStart(r, m) /\ ChunkEnd(r, m)' = ChunkEnd(r, m)
    BY <2>1 DEF ChunkStart, ChunkEnd
  <2>3. PICK q \in Threads, i \in 1..n :
          Loop[i] = v /\ ChunkStart(q, n) <= i /\ i <= ChunkEnd(q, n) /\ i < at'[q]
    BY <1>1, <1>10, <2>1, <2>2 DEF Written
  <2>4. ~(i < at[q])  BY <1>1, <1>10, <2>3 DEF Written
  <2>5. q = p  BY <1>5, <2>3, <2>4
  <2>6. at'[p] = at[p] + 1 /\ at[p] \in Int  BY <1>5
  <2>7. i = at[p]  BY <2>3, <2>4, <2>5, <2>6
  <2>. QED  BY <2>3, <2>7 DEF Vertex
<1>. QED  BY <1>1, <1>9, <1>10

LEMMA EvalStep ==
  ASSUME StartInv, NodeInv, EdgeInv, ListInv, GraphInv, LoopInv, EvalInv,
         [StatsNext]_<<vars, evaluation>>
  PROVE  EvalInv'
<1>1. Evaluable  BY GraphEvaluable
<1>2. /\ input \in Inputs /\ input.t_min \in Int /\ input.t_max \in Int
      /\ \A t \in Turns : t \in Int /\ input.t_min <= t /\ t <= input.t_max
  BY <1>1, TurnNumbers DEF Evaluable, Turns
<1>3. ASSUME UNCHANGED <<evaluation, nodes, vertices, edges, given, frames>>, loop # "none",
             phase' # "start"
      PROVE  EvalInv'
  <2>1. SameGraph /\ val' = val /\ loop' = loop  BY <1>3 DEF SameGraph, evaluation, given
  <2>2. Threads' = Threads /\ Loop' = Loop /\ turn' = turn /\ at' = at
    BY <1>3 DEF Threads, evaluation, nodes, given, Loop
  <2>3. \A r, m : ChunkStart(r, m)' = ChunkStart(r, m) /\ ChunkEnd(r, m)' = ChunkEnd(r, m)
    BY <2>2 DEF ChunkStart, ChunkEnd
  <2>4. \A v : Written(v)' => Written(v)  BY <2>2, <2>3 DEF Written
  <2>5. \A v \in DOMAIN vertices : \A t \in Turns : Settled(v, t)' => Settled(v, t)
    BY <2>1, <2>2, <2>4 DEF Settled, SameGraph
  <2>6. ValTyped' /\ Computed'  BY <1>3, <2>1, <2>5, ComputedStays DEF EvalInv
  <2>. QED  BY <1>3, <2>1, <2>6 DEF EvalInv
<1>4. ASSUME UNCHANGED <<vars, evaluation>>  PROVE EvalInv'
  <2>1. CASE loop = "none"  BY <1>4, <2>1 DEF EvalInv, vars, given, evaluation
  <2>2. CASE loop # "none"
    <3>1. UNCHANGED <<nodes, vertices, edges, given, frames, phase>>
      BY <1>4 DEF vars, graph, nodes, given
    <3>. QED  BY <1>3, <1>4, <2>2, <3>1 DEF EvalInv
  <2>. QED  BY <2>1, <2>2
<1>5. CASE Searching
  <2>1. loop' = loop  BY <1>5 DEF Searching, evaluation
  <2>2. loop = "none"
    BY <1>5
    DEF EvalInv, Searching, Start, Shallow, DrawHit, DrawNew, DiscardHit, DiscardNew, DrawTile,
        DiscardTile, DrawBack, DiscardBack, Done, Running
  <2>3. phase' = "done" => ~input'.calc_stats
    BY <1>5
    DEF Searching, Start, Shallow, DrawHit, DrawNew, DiscardHit, DiscardNew, DrawTile, DiscardTile,
        DrawBack, DiscardBack, Done, Running, Expand, given
  <2>. QED  BY <2>1, <2>2, <2>3 DEF EvalInv
<1>6. CASE Reporting
  <2>1. /\ UNCHANGED <<evaluation, nodes, vertices, edges, given, frames>> /\ loop # "none"
        /\ phase' = "done"
    BY <1>6 DEF Reporting, ReportDraw, ReportDiscards, graph
  <2>. QED  BY <1>3, <2>1
<1>7. ASSUME UNCHANGED vars
      PROVE  /\ SameGraph /\ input' = input /\ phase' = phase /\ frames' = frames
             /\ draw_vertices' = draw_vertices /\ discard_vertices' = discard_vertices
  BY <1>7 DEF SameGraph, vars, graph, nodes, given
<1>8. CASE BeginStats
  <2>1. /\ UNCHANGED vars /\ phase = "search" /\ frames = <<>>
        /\ loop' = "draw" /\ turn' = input.t_max
        /\ val' = [v \in DOMAIN vertices |-> [f \in Fields |-> [t \in Turns |-> 0]]]
        /\ at' = [p \in Threads |-> ChunkStart(p, Len(draw_vertices))]
    BY <1>8 DEF BeginStats, StartLoop
  <2>2. SameGraph /\ phase' = "search" /\ frames' = <<>>  BY <1>7, <2>1
  <2>3. DOMAIN vertices' = DOMAIN vertices /\ Turns' = Turns  BY <2>2, ScaleStays DEF SameGraph
  <2>4. \A v : ~Written(v)'
    <3>1. Loop' = draw_vertices  BY <1>7, <2>1 DEF Loop
    <3>2. at' = [p \in Threads |-> ChunkStart(p, Len(Loop'))]  BY <2>1, <3>1
    <3>. QED  BY <1>7, <2>1, <3>2, NothingWritten
  <2>5. \A v : \A t \in Turns : ~Settled(v, t)'  BY <1>2, <2>1, <2>4 DEF Settled
  <2>6. Computed'  BY <2>3, <2>5 DEF Computed
  <2>7. ValTyped'  BY <2>1, <2>3 DEF ValTyped
  <2>. QED  BY <2>1, <2>2, <2>6, <2>7 DEF EvalInv
<1>9. ASSUME UNCHANGED <<vars, val>>, loop \in {"draw", "discard"}, loop' \in {"draw", "discard", "over"},
             \A v \in DOMAIN vertices : \A t \in Turns : Settled(v, t)' => Settled(v, t)
      PROVE  EvalInv'
  <2>1. SameGraph /\ phase' = phase /\ frames' = frames  BY <1>7, <1>9
  <2>2. frames = <<>> /\ phase # "start" /\ ValTyped /\ Computed  BY <1>9 DEF EvalInv
  <2>3. ValTyped' /\ Computed'  BY <1>9, <2>1, <2>2, ComputedStays
  <2>. QED  BY <1>9, <2>1, <2>2, <2>3 DEF EvalInv
<1>10. ASSUME loop \in {"draw", "discard"}, \A p \in Threads : ~Active(p),
              NEW v \in DOMAIN vertices,
              vertices[v].node = IF loop = "draw" THEN "draw_node" ELSE "discard_node"
       PROVE  Written(v)
  BY <1>10, AllWritten
<1>11. \A v \in DOMAIN vertices : vertices[v].node \in {"draw_node", "discard_node"}
  BY <1>1, EdgeEnds DEF NodeKinds
<1>12. CASE DrawLoopEnds
  <2>1. /\ UNCHANGED <<vars, val>> /\ loop = "draw" /\ \A p \in Threads : ~Active(p)
        /\ loop' = "discard" /\ turn' = turn
        /\ at' = [p \in Threads |-> ChunkStart(p, Len(discard_vertices))]
    BY <1>12 DEF DrawLoopEnds, StartLoop
  <2>2. \A v : ~Written(v)'
    <3>1. Loop' = discard_vertices  BY <1>7, <2>1 DEF Loop
    <3>2. at' = [p \in Threads |-> ChunkStart(p, Len(Loop'))]  BY <2>1, <3>1
    <3>. QED  BY <1>7, <2>1, <3>2, NothingWritten
  <2>3. ASSUME NEW v \in DOMAIN vertices, NEW t \in Turns, Settled(v, t)'  PROVE Settled(v, t)
    <3>1. t > turn \/ (t = turn /\ vertices[v].node = "draw_node")
      BY <1>7, <2>1, <2>2, <2>3 DEF Settled, SameGraph
    <3>2. vertices[v].node = "draw_node" => Written(v)  BY <1>10, <2>1
    <3>. QED  BY <3>1, <3>2 DEF Settled
  <2>. QED  BY <1>9, <2>1, <2>3
<1>13. CASE DiscardLoopEnds
  <2>1. UNCHANGED <<vars, val>> /\ loop = "discard" /\ \A p \in Threads : ~Active(p)
    BY <1>13 DEF DiscardLoopEnds
  <2>2. turn \in Int  BY <2>1 DEF LoopInv
  <2>3. ASSUME NEW v \in DOMAIN vertices, NEW t \in Turns, t >= turn  PROVE Settled(v, t)
    <3>1. vertices[v].node = "discard_node" => Written(v)  BY <1>10, <2>1
    <3>2. t > turn \/ t = turn  BY <1>2, <2>2, <2>3
    <3>. QED  BY <1>11, <2>1, <3>1, <3>2 DEF Settled
  <2>4. CASE turn > input.t_min
    <3>1. /\ loop' = "draw" /\ turn' = turn - 1
          /\ at' = [p \in Threads |-> ChunkStart(p, Len(draw_vertices))]
      BY <1>13, <2>4 DEF DiscardLoopEnds, StartLoop
    <3>2. \A v : ~Written(v)'
      <4>1. Loop' = draw_vertices  BY <1>7, <2>1, <3>1 DEF Loop
      <4>2. at' = [p \in Threads |-> ChunkStart(p, Len(Loop'))]  BY <3>1, <4>1
      <4>. QED  BY <1>7, <2>1, <4>2, NothingWritten
    <3>3. ASSUME NEW v \in DOMAIN vertices, NEW t \in Turns, Settled(v, t)'  PROVE Settled(v, t)
      <4>1. t > turn - 1  BY <3>1, <3>2, <3>3 DEF Settled
      <4>. QED  BY <1>2, <2>2, <2>3, <4>1
    <3>. QED  BY <1>9, <2>1, <3>1, <3>3
  <2>5. CASE ~(turn > input.t_min)
    <3>1. loop' = "over"  BY <1>13, <2>5 DEF DiscardLoopEnds
    <3>2. ASSUME NEW v \in DOMAIN vertices, NEW t \in Turns  PROVE Settled(v, t)
      BY <1>2, <2>2, <2>3, <2>5
    <3>. QED  BY <1>9, <2>1, <3>1, <3>2
  <2>. QED  BY <2>4, <2>5
<1>14. ASSUME NEW p \in Threads, DrawIteration(p) \/ DiscardIteration(p)  PROVE EvalInv'
  <2>1. /\ UNCHANGED <<vars, loop, turn>> /\ loop \in {"draw", "discard"} /\ Active(p)
        /\ at' = [at EXCEPT ![p] = @ + 1]
    BY <1>14 DEF DrawIteration, DiscardIteration
  <2>2. PICK u : u = Vertex(p)  OBVIOUS
  <2>3. /\ u \in DOMAIN vertices
        /\ vertices[u].node = IF loop = "draw" THEN "draw_node" ELSE "discard_node"
        /\ \A v : Written(v)' => Written(v) \/ v = u
    BY <2>1, <2>2, Iterates
  <2>4. SameGraph /\ phase' = phase /\ frames' = frames  BY <1>7, <2>1
  <2>5. turn \in Int  BY <2>1 DEF LoopInv
  <2>6. frames = <<>> /\ phase # "start" /\ ValTyped /\ Computed  BY <2>1 DEF EvalInv
  <2>7. PICK g : g = [f \in Fields |-> IF loop = "draw" THEN DrawValue(f, u, turn)
                                       ELSE DiscardValue(f, u, turn)]
    OBVIOUS
  <2>8. \A f \in Fields : g[f] = IF loop = "draw" THEN DrawValue(f, u, turn) ELSE DiscardValue(f, u, turn)
    BY <2>7
  <2>9. val' = [val EXCEPT ![u] = [f \in Fields |-> [val[u][f] EXCEPT ![turn] = g[f]]]]
    <3>1. CASE loop = "draw"
      <4>1. val' = [val EXCEPT ![u] =
                      [f \in Fields |-> [val[u][f] EXCEPT ![turn] = DrawValue(f, u, turn)]]]
        BY <1>14, <2>2, <3>1 DEF DrawIteration, DiscardIteration, Set
      <4>. QED  BY <2>8, <3>1, <4>1
    <3>2. CASE loop = "discard"
      <4>1. val' = [val EXCEPT ![u] =
                      [f \in Fields |-> [val[u][f] EXCEPT ![turn] = DiscardValue(f, u, turn)]]]
        BY <1>14, <2>2, <3>2 DEF DrawIteration, DiscardIteration, Set
      <4>. QED  BY <2>8, <3>2, <4>1
    <3>. QED  BY <2>1, <3>1, <3>2
  <2>10. ASSUME turn \in Turns, NEW f \in Fields  PROVE g[f] = Sequential(Values, f, turn, u)
    <3>1. CASE loop = "draw"
      <4>1. DrawValue(f, u, turn) = Sequential(Values, f, turn, u)
        BY <1>1, <2>3, <2>6, <2>10, <3>1, DrawFollows
      <4>. QED  BY <2>8, <2>10, <3>1, <4>1
    <3>2. CASE loop = "discard"
      <4>1. DiscardValue(f, u, turn) = Sequential(Values, f, turn, u)
        BY <1>1, <2>3, <2>6, <2>10, <3>2, DiscardFollows
      <4>. QED  BY <2>8, <2>10, <3>2, <4>1
    <3>. QED  BY <2>1, <3>1, <3>2
  <2>11. loop' = loop /\ turn' = turn  BY <2>1
  <2>12. turn \in Turns => \A f \in Fields : g[f] = Sequential(Values, f, turn, u)  BY <2>10
  <2>13. ValTyped' /\ Computed'
    <3>1. ValTyped /\ Computed  BY <2>6
    <3>. QED  BY ONLY ListInv, <1>1, <2>1, <2>3, <2>4, <2>5, <2>9, <2>11, <2>12, <3>1, ComputedMore
  <2>. QED  BY <2>1, <2>4, <2>6, <2>13 DEF EvalInv
<1>15. CASE Finished /\ UNCHANGED evaluation  BY <1>4, <1>15 DEF Finished
<1>. QED  BY <1>4, <1>5, <1>6, <1>8, <1>12, <1>13, <1>14, <1>15 DEF StatsNext

\* For any hands, turns, number of threads and interleaving: what is read is what the
\* sequential evaluation reads, already computed and never overwritten, so that the
\* values of an answered call are those of its one solution: StatsAreTheRecursion.
THEOREM StatsAreTheRecursionCorrect ==
  ASSUME FivesInWall
  PROVE  StatsSpec => []StatsAreTheRecursion
<1>1. StatsInit => LoopInv /\ EvalInv  BY DEF StatsInit, Init, LoopInv, EvalInv
<1>2. StartInv /\ ListInv /\ LoopInv /\ [StatsNext]_<<vars, evaluation>> => LoopInv'  BY LoopStep
<1>3. StartInv /\ NodeInv /\ EdgeInv /\ ListInv /\ GraphInv /\ LoopInv /\ EvalInv
        /\ [StatsNext]_<<vars, evaluation>> => EvalInv'
  BY EvalStep
<1>4. StartInv /\ NodeInv /\ EdgeInv /\ GraphInv /\ LoopInv /\ EvalInv => StatsAreTheRecursion
  <2>1. SUFFICES ASSUME StartInv, NodeInv, EdgeInv, GraphInv, LoopInv, EvalInv,
                        phase = "done", input.calc_stats
                 PROVE  \A v \in DOMAIN vertices, f \in Fields, t \in Turns :
                          val[v][f][t] = Expected[<<f, t, v>>]
    BY DEF StatsAreTheRecursion
  <2>2. loop = "over"  BY <2>1 DEF EvalInv, LoopInv
  <2>3. Computed  BY <2>1, <2>2 DEF EvalInv
  <2>4. \A f \in Fields : \A t \in Turns : \A v \in DOMAIN vertices :
          val[v][f][t] = Sequential(Values, f, t, v)
    BY <2>2, <2>3 DEF Computed, Settled
  <2>5. Evaluable  BY <2>1, GraphEvaluable
  <2>6. \A f \in Fields : \A t \in Turns : \A v \in DOMAIN vertices : val[v][f][t] = Expected[<<f, t, v>>]
    BY ONLY <2>4, <2>5, FollowsIsExpected
  <2>. QED  BY <2>6
<1>. QED
  BY <1>1, <1>2, <1>3, <1>4, StatsRefineTheSearch, MovesCancel, CachesAnswerRight, EdgesKeepUp,
     Listed, Graphed, PTL DEF StatsSpec
=============================================================================
