------------------------- MODULE DeviceTree_proofs --------------------------
(***************************************************************************)
(* For every well-formed tree, of any size and depth, and every call: the  *)
(* walks stay in the nodes they are called on, a search returns the first  *)
(* node or property that has what is asked for, and print writes a line    *)
(* for each.                                                               *)
(***************************************************************************)
EXTENDS DeviceTree, FiniteSetTheorems, TLAPS

\* What is counted of a blob b from the token at m to the one before i, and the
\* nodes that are open before the token at i, as a number.
Count(b, tag, m, i) == Cardinality({j \in m .. i - 1 : b[j].tag = tag})
Height(b, i) == Count(b, "BeginNode", Root, i) - Count(b, "EndNode", Root, i)

-----------------------------------------------------------------------------
\* A set of numbers, one number longer.
LEMMA CountOneMore ==
  ASSUME NEW m \in Nat, NEW i \in Nat, m <= i, NEW S, NEW T,
         S \subseteq m .. i - 1, T \subseteq m .. i,
         S = T \ {i}
  PROVE  /\ Cardinality(S) \in Nat
         /\ i \in T => Cardinality(T) = Cardinality(S) + 1
         /\ i \notin T => Cardinality(T) = Cardinality(S)
<1>1. IsFiniteSet(m .. i - 1)
  BY FS_Interval
<1>2. IsFiniteSet(S)
  BY <1>1, FS_Subset
<1>3. Cardinality(S) \in Nat
  BY <1>2, FS_CardinalityType
<1>4. ASSUME i \in T PROVE Cardinality(T) = Cardinality(S) + 1
  <2>1. T = S \cup {i} /\ i \notin S
    BY <1>4
  <2> QED
    BY <2>1, <1>2, FS_AddElement
<1>5. ASSUME i \notin T PROVE T = S
  BY <1>5
<1> QED
  BY <1>3, <1>4, <1>5

LEMMA CountStep ==
  ASSUME NEW b, NEW tag, NEW m \in Nat, NEW i \in Nat, m <= i
  PROVE  /\ Count(b, tag, m, i) \in Nat
         /\ Count(b, tag, m, i + 1) = Count(b, tag, m, i) + (IF b[i].tag = tag THEN 1 ELSE 0)
<1> DEFINE S(k) == {j \in m .. k - 1 : b[j].tag = tag}
<1>1. (i + 1) - 1 = i
  OBVIOUS
<1>2. /\ S(i) \subseteq m .. i - 1 /\ S(i + 1) \subseteq m .. i /\ S(i) = S(i + 1) \ {i}
      /\ i \in S(i + 1) <=> b[i].tag = tag
  BY <1>1
<1>3. Count(b, tag, m, i) = Cardinality(S(i)) /\ Count(b, tag, m, i + 1) = Cardinality(S(i + 1))
  BY DEF Count
<1> HIDE DEF S
<1>4. /\ Cardinality(S(i)) \in Nat
      /\ i \in S(i + 1) => Cardinality(S(i + 1)) = Cardinality(S(i)) + 1
      /\ i \notin S(i + 1) => Cardinality(S(i + 1)) = Cardinality(S(i))
  BY <1>2, CountOneMore
<1> QED
  BY <1>2, <1>3, <1>4

\* Height counts up at a node and down at its end.
LEMMA HeightStep ==
  ASSUME NEW b, NEW i \in Nat \ {0}
  PROVE  /\ Height(b, i) \in Int
         /\ b[i].tag = "BeginNode" => Height(b, i + 1) = Height(b, i) + 1
         /\ b[i].tag = "EndNode" => Height(b, i + 1) = Height(b, i) - 1
         /\ b[i].tag \notin {"BeginNode", "EndNode"} => Height(b, i + 1) = Height(b, i)
<1>1. Root \in Nat /\ Root <= i /\ i \in Nat
  BY DEF Root
<1>2. \A tag \in {"BeginNode", "EndNode"} :
        /\ Count(b, tag, Root, i) \in Nat
        /\ Count(b, tag, Root, i + 1)
             = Count(b, tag, Root, i) + (IF b[i].tag = tag THEN 1 ELSE 0)
  BY <1>1, CountStep
<1> QED
  BY <1>2 DEF Height

LEMMA HeightAtRoot ==
  ASSUME NEW b
  PROVE  Height(b, Root) = 0
<1>1. \A tag : {j \in Root .. Root - 1 : b[j].tag = tag} = {}
  BY DEF Root
<1>2. \A tag : Count(b, tag, Root, Root) = 0
  BY <1>1, FS_EmptySet DEF Count
<1> QED
  BY <1>2 DEF Height

\* What is appended changes nothing before it.
LEMMA HeightOfAppend ==
  ASSUME NEW S, NEW b \in Seq(S), NEW t, NEW i \in 1 .. Len(b) + 1
  PROVE  Height(Append(b, t), i) = Height(b, i)
<1>1. \A tag : {j \in Root .. i - 1 : Append(b, t)[j].tag = tag}
                = {j \in Root .. i - 1 : b[j].tag = tag}
  BY DEF Root
<1> QED
  BY <1>1 DEF Height, Count

\* The count from a token on is the difference of heights.
LEMMA CountsAdd ==
  ASSUME NEW b, NEW tag, NEW m \in Nat \ {0}, NEW i \in Nat, m <= i
  PROVE  Count(b, tag, Root, i) = Count(b, tag, Root, m) + Count(b, tag, m, i)
<1> DEFINE U == {j \in Root .. i - 1 : b[j].tag = tag}
           L == {j \in Root .. m - 1 : b[j].tag = tag}
           R == {j \in m .. i - 1 : b[j].tag = tag}
<1>1. /\ U = L \cup R /\ L \cap R = {}
      /\ L \subseteq Root .. m - 1 /\ R \subseteq m .. i - 1
  BY DEF Root
<1>2. IsFiniteSet(Root .. m - 1) /\ IsFiniteSet(m .. i - 1)
  BY FS_Interval DEF Root
<1> HIDE DEF U, L, R
<1>3. IsFiniteSet(L) /\ IsFiniteSet(R)
  BY <1>1, <1>2, FS_Subset
<1>4. Cardinality(U) = Cardinality(L) + Cardinality(R) - Cardinality({})
  BY <1>1, <1>3, FS_Union
<1>5. Cardinality({}) = 0 /\ Cardinality(L) \in Nat /\ Cardinality(R) \in Nat
  BY <1>3, FS_EmptySet, FS_CardinalityType
<1>6. Cardinality(U) = Cardinality(L) + Cardinality(R)
  BY <1>4, <1>5
<1> QED
  BY <1>6 DEF U, L, R, Count

\* A node is around a token if the height has been above its own since.
LEMMA AroundIsHigher ==
  ASSUME Nodes \subseteq Nat \ {0}, NEW i \in Nat, NEW m \in Nodes
  PROVE  m \in Around(i)
           <=> m < i /\ \A k \in m + 1 .. i : Height(blob, k) > Height(blob, m)
<1>1. ASSUME NEW k \in m + 1 .. i
      PROVE  BeginsOf(m, k) > EndsOf(m, k) <=> Height(blob, k) > Height(blob, m)
  <2>1. m \in Nat \ {0} /\ k \in Nat /\ m <= k /\ Root \in Nat /\ Root <= m
    BY DEF Root
  <2>2. \A tag \in {"BeginNode", "EndNode"} :
          /\ Count(blob, tag, Root, k) = Count(blob, tag, Root, m) + Count(blob, tag, m, k)
          /\ Count(blob, tag, Root, m) \in Nat /\ Count(blob, tag, m, k) \in Nat
    BY <2>1, CountsAdd, CountStep
  <2>3. /\ BeginsOf(m, k) = Count(blob, "BeginNode", m, k)
        /\ EndsOf(m, k) = Count(blob, "EndNode", m, k)
    BY DEF BeginsOf, EndsOf, Count, Tag
  <2> QED
    BY <2>2, <2>3 DEF Height
<1> QED
  BY <1>1 DEF Around

-----------------------------------------------------------------------------
(***************************************************************************)
(* The blob.                                                               *)
(***************************************************************************)
NodeNames == Names \cup {<<"", "">>}
Tokens ==
  {BeginNode(n) : n \in NodeNames}
    \cup {Prop(p, v) : p \in PropNames, v \in Values \cup {"cells"}}
    \cup {EndNode, Nop, Finish}

LEMMA TokensMade ==
  /\ \A n \in NodeNames : BeginNode(n) \in Tokens /\ BeginNode(n).tag = "BeginNode"
  /\ \A p \in PropNames : \A v \in Values \cup {"cells"} :
       Prop(p, v) \in Tokens /\ Prop(p, v).tag = "Prop"
  /\ \A t \in {EndNode, Nop, Finish} : t \in Tokens
  /\ EndNode.tag = "EndNode" /\ Nop.tag = "Nop" /\ Finish.tag = "End"
<1>1. \A n \in NodeNames : BeginNode(n) \in Tokens
  BY DEF Tokens
<1>2. \A p \in PropNames : \A v \in Values \cup {"cells"} : Prop(p, v) \in Tokens
  BY DEF Tokens
<1>3. \A t \in {EndNode, Nop, Finish} : t \in Tokens
  BY DEF Tokens
<1> QED
  BY <1>1, <1>2, <1>3 DEF BeginNode, Prop, EndNode, Nop, Finish

LEMMA TagsOfTokens ==
  ASSUME NEW t \in Tokens
  PROVE  t.tag \in {"BeginNode", "Prop", "EndNode", "Nop", "End"}
BY DEF Tokens, BeginNode, Prop, EndNode, Nop, Finish

\* While it is built, every token but the root's lies in the root; when it is
\* complete, the root has ended before its last token, and only there.
Growing(b) ==
  /\ \A k \in 2 .. Len(b) : Height(b, k) > 0
  /\ Height(b, Len(b) + 1) >= 0
  /\ \A k \in DOMAIN b : b[k].tag # "End"
Complete(b) ==
  /\ \A k \in 2 .. Len(b) - 1 : Height(b, k) > 0
  /\ Height(b, Len(b)) = 0
  /\ b[Len(b)].tag = "End"
  /\ \A k \in DOMAIN b : b[k].tag = "End" => k = Len(b)

BlobOk ==
  /\ blob \in Seq(Tokens) /\ Len(blob) > 0 /\ blob[Root].tag = "BeginNode"
  /\ state = "build" => Growing(blob)
  /\ state # "build" => Complete(blob)

LEMMA InitBlob == Init => BlobOk
<1> SUFFICES ASSUME Init PROVE BlobOk
  OBVIOUS
<1>1. blob = <<BeginNode(<<"", "">>)>> /\ state = "build"
  BY DEF Init
<1>2. BeginNode(<<"", "">>) \in Tokens
  <2>1. <<"", "">> \in NodeNames
    BY DEF NodeNames
  <2> QED
    BY <2>1, TokensMade
<1>3. BeginNode(<<"", "">>).tag = "BeginNode"
  BY DEF BeginNode
<1> DEFINE t == BeginNode(<<"", "">>)
<1> HIDE DEF t
<1>4. t \in Tokens /\ t.tag = "BeginNode" /\ blob = <<t>>
  BY <1>1, <1>2, <1>3 DEF t
<1>5. blob \in Seq(Tokens) /\ Len(blob) = 1 /\ blob[1] = t /\ DOMAIN blob = {1}
  BY <1>4
<1>6. Height(blob, 1) = 0
  BY HeightAtRoot DEF Root
<1>7. Height(blob, 1 + 1) = Height(blob, 1) + 1
  BY <1>4, <1>5, HeightStep
<1>8. Growing(blob)
  BY <1>4, <1>5, <1>6, <1>7 DEF Growing
<1>9. state = "build"
  BY <1>1
<1> QED
  BY <1>4, <1>5, <1>8, <1>9 DEF BlobOk, Root

\* The height is above the root's while a node is open.
LEMMA OpenIsHigh ==
  ASSUME BlobOk, state = "build", Open # {}
  PROVE  Height(blob, Len(blob) + 1) \in Int /\ Height(blob, Len(blob) + 1) > 0
<1> DEFINE n == Len(blob)
<1>1. n \in Nat /\ n > 0
  BY DEF BlobOk
<1>2. PICK m \in Nodes : m \in Around(n + 1)
  BY DEF Open, Next1, Around
<1>3. Nodes \subseteq Nat \ {0} /\ Nodes \subseteq DOMAIN blob
  BY DEF Nodes, BlobOk
<1>4. m < n + 1 /\ Height(blob, n + 1) > Height(blob, m) /\ m \in 1 .. n
  BY <1>1, <1>2, <1>3, AroundIsHigher
<1>5. Height(blob, n + 1) \in Int /\ Height(blob, m) \in Int
  BY <1>1, <1>4, HeightStep
<1>6. Height(blob, m) >= 0
  <2>1. CASE m = Root
    BY <2>1, HeightAtRoot
  <2>2. CASE m # Root
    BY <2>2, <1>4, <1>5 DEF BlobOk, Growing, Root
  <2> QED
    BY <2>1, <2>2
<1> QED
  BY <1>4, <1>5, <1>6

\* A token is added while a node is open.
LEMMA TokenKeepsBlob ==
  ASSUME BlobOk, state = "build", Open # {}, NEW t \in Tokens, t.tag # "End", AddToken(t)
  PROVE  BlobOk'
<1> DEFINE n == Len(blob)
<1>1. blob' = Append(blob, t) /\ state' = "build" /\ n \in Nat /\ n > 0
  BY DEF BlobOk, AddToken
<1>2. blob' \in Seq(Tokens) /\ Len(blob') = n + 1 /\ blob'[n + 1] = t
      /\ \A k \in DOMAIN blob : blob'[k] = blob[k]
  BY <1>1 DEF BlobOk
<1>3. \A k \in 1 .. n + 1 : Height(blob', k) = Height(blob, k)
  BY <1>1, HeightOfAppend DEF BlobOk
<1>4. Height(blob, n + 1) \in Int /\ Height(blob, n + 1) > 0
  BY OpenIsHigh
<1>5. Height(blob', n + 1 + 1) >= 0
  <2>1. n + 1 \in Nat \ {0} /\ Height(blob', n + 1) = Height(blob, n + 1)
    BY <1>1, <1>3
  <2>2. \/ Height(blob', n + 1 + 1) = Height(blob', n + 1) + 1
        \/ Height(blob', n + 1 + 1) = Height(blob', n + 1) - 1
        \/ Height(blob', n + 1 + 1) = Height(blob', n + 1)
    BY <2>1, HeightStep
  <2> QED
    BY <2>1, <2>2, <1>4
<1>6. \A k \in 2 .. n + 1 : Height(blob', k) > 0
  BY <1>1, <1>3, <1>4 DEF BlobOk, Growing
<1>7. \A k \in DOMAIN blob' : blob'[k].tag # "End"
  BY <1>1, <1>2 DEF BlobOk, Growing
<1>8. blob'[Root].tag = "BeginNode"
  BY <1>1, <1>2 DEF BlobOk, Root
<1> QED
  BY <1>1, <1>2, <1>5, <1>6, <1>7, <1>8 DEF BlobOk, Growing

LEMMA SealKeepsBlob ==
  ASSUME BlobOk, Seal
  PROVE  BlobOk'
<1> DEFINE n == Len(blob)
<1>1. blob' = Append(blob, Finish) /\ state = "build" /\ state' = "ask"
      /\ n \in Nat /\ n > 0 /\ Around(n + 1) = {}
  BY DEF BlobOk, Seal, Open, Next1
<1>2. Finish \in Tokens /\ blob' \in Seq(Tokens) /\ Len(blob') = n + 1
      /\ \A k \in DOMAIN blob : blob'[k] = blob[k]
  BY <1>1, TokensMade DEF BlobOk
<1>3. \A k \in 1 .. n + 1 : Height(blob', k) = Height(blob, k)
  BY <1>1, HeightOfAppend DEF BlobOk
<1>4. Root \in Nodes /\ Nodes \subseteq Nat \ {0}
  BY <1>1 DEF Nodes, BlobOk, Root, Tag
<1>5. PICK k \in 2 .. n + 1 : ~(Height(blob, k) > 0)
  <2>1. Root \notin Around(n + 1) /\ Root < n + 1 /\ Root + 1 = 2 /\ n + 1 \in Nat
    BY <1>1 DEF Root
  <2> QED
    BY <2>1, <1>4, AroundIsHigher, HeightAtRoot
<1>6. k = n + 1
  BY <1>1, <1>5 DEF BlobOk, Growing
<1>7. Height(blob, n + 1) = 0
  <2>1. Height(blob, n + 1) \in Int
    BY <1>1, HeightStep
  <2> QED
    BY <1>1, <1>5, <1>6, <2>1 DEF BlobOk, Growing
<1>8. Complete(blob')
  <2>1. blob'[n + 1] = Finish /\ Finish.tag = "End"
    BY <1>1, TokensMade DEF BlobOk
  <2> QED
    BY <1>1, <1>2, <1>3, <1>7, <2>1 DEF BlobOk, Growing, Complete
<1>9. blob'[Root].tag = "BeginNode"
  BY <1>1, <1>2 DEF BlobOk, Root
<1> QED
  BY <1>1, <1>2, <1>8, <1>9 DEF BlobOk

-----------------------------------------------------------------------------
(***************************************************************************)
(* The walks.  A token is in a node if the node is the innermost around it.*)
(***************************************************************************)
InNode(n, i) ==
  /\ n < i
  /\ Height(blob, i) = Height(blob, n) + 1
  /\ \A k \in n + 1 .. i : Height(blob, k) > Height(blob, n)

LEMMA NodesAreTokens ==
  ASSUME BlobOk
  PROVE  /\ Nodes \subseteq DOMAIN blob /\ Nodes \subseteq Nat \ {0}
         /\ DOMAIN blob = 1 .. Len(blob) /\ Len(blob) \in Nat
BY DEF BlobOk, Nodes

LEMMA NodesAreNotNegative ==
  ASSUME BlobOk, state # "build", NEW n \in Nodes
  PROVE  Height(blob, n) \in Int /\ Height(blob, n) >= 0 /\ n < Len(blob)
<1>1. n \in 1 .. Len(blob) /\ n # Len(blob) /\ Len(blob) \in Nat
  BY NodesAreTokens DEF BlobOk, Complete, Nodes, Tag
<1>2. Height(blob, n) \in Int
  BY <1>1, HeightStep
<1>3. CASE n = Root
  BY <1>1, <1>2, <1>3, HeightAtRoot
<1>4. CASE n # Root
  BY <1>1, <1>2, <1>4 DEF BlobOk, Complete, Root
<1> QED
  BY <1>3, <1>4

\* A call starts in its node.
LEMMA EnterNode ==
  ASSUME BlobOk, state # "build", NEW n \in Nodes
  PROVE  n + 1 \in DOMAIN blob /\ InNode(n, n + 1)
<1>1. n \in Nat \ {0} /\ n < Len(blob) /\ Len(blob) \in Nat /\ blob[n].tag = "BeginNode"
      /\ DOMAIN blob = 1 .. Len(blob)
  BY NodesAreTokens, NodesAreNotNegative DEF Nodes, Tag
<1>2. Height(blob, n + 1) = Height(blob, n) + 1 /\ Height(blob, n) \in Int
  BY <1>1, HeightStep
<1> QED
  BY <1>1, <1>2 DEF InNode

\* The token after one that neither begins nor ends a node is in the same node,
\* and after the end of a node the height is its own again.
LEMMA NextToken ==
  ASSUME BlobOk, state # "build", NEW n \in Nodes, NEW i \in DOMAIN blob, InNode(n, i)
  PROVE  /\ i + 1 \in DOMAIN blob /\ Tag(i) # "End"
         /\ Tag(i) \notin {"BeginNode", "EndNode"} => InNode(n, i + 1)
         /\ Tag(i) = "EndNode" => Height(blob, i + 1) = Height(blob, n)
<1>1. /\ Height(blob, n) \in Int /\ Height(blob, n) >= 0
      /\ n \in Nat \ {0} /\ i \in 1 .. Len(blob) /\ Len(blob) \in Nat
      /\ DOMAIN blob = 1 .. Len(blob)
  BY NodesAreTokens, NodesAreNotNegative
<1>2. i # Len(blob)
  BY <1>1 DEF BlobOk, Complete, InNode
<1>3. Tag(i) # "End"
  BY <1>1, <1>2 DEF BlobOk, Complete, Tag
<1>4. /\ Tag(i) = "EndNode" => Height(blob, i + 1) = Height(blob, i) - 1
      /\ Tag(i) \notin {"BeginNode", "EndNode"} => Height(blob, i + 1) = Height(blob, i)
  BY <1>1, HeightStep DEF Tag
<1> QED
  BY <1>1, <1>2, <1>3, <1>4 DEF InNode

\* Behind a node nested in another one is in the other.
LEMMA AfterNode ==
  ASSUME BlobOk, state # "build", NEW n \in Nodes, NEW m \in Nodes, InNode(n, m),
         NEW i \in DOMAIN blob, InNode(m, i), Tag(i) = "EndNode"
  PROVE  InNode(n, i + 1)
<1>1. /\ Height(blob, n) \in Int /\ n \in Nat \ {0}
      /\ Height(blob, m) \in Int /\ m \in Nat \ {0} /\ i \in Nat
      /\ Height(blob, i + 1) = Height(blob, m)
  BY NodesAreTokens, NodesAreNotNegative, NextToken
<1>2. n < m /\ m < i /\ Height(blob, m) = Height(blob, n) + 1
  BY DEF InNode
<1>3. ASSUME NEW k \in n + 1 .. i + 1
      PROVE  Height(blob, k) > Height(blob, n)
  <2>1. CASE k \in n + 1 .. m
    BY <2>1 DEF InNode
  <2>2. CASE k \in m + 1 .. i
    <3>1. Height(blob, k) > Height(blob, m) /\ Height(blob, k) \in Int
      BY <1>1, <2>2, HeightStep DEF InNode
    <3> QED
      BY <1>1, <1>2, <3>1
  <2>3. CASE k = i + 1
    BY <1>1, <1>2, <2>3
  <2> QED
    BY <1>1, <1>2, <2>1, <2>2, <2>3
<1> QED
  BY <1>1, <1>2, <1>3 DEF InNode

\* The node a token is in is around it.
LEMMA InNodeIsAround ==
  ASSUME BlobOk, NEW n \in Nodes, NEW i \in DOMAIN blob, InNode(n, i)
  PROVE  n \in Around(i)
BY NodesAreTokens, AroundIsHigher DEF InNode

Frames == [fn : {query.fn, "skip"}, node : Nodes, ptr : DOMAIN blob]

\* The calls under way, innermost last: each is at a token of its own node, and
\* the node of the next one is the token it is at.
CallsOk(calls) ==
  /\ calls \in Seq(Frames) /\ Len(calls) > 0
  /\ calls[1].fn # "skip"
  /\ \A k \in 1 .. Len(calls) : InNode(calls[k].node, calls[k].ptr)
  /\ \A k \in 1 .. Len(calls) - 1 : calls[k + 1].node = calls[k].ptr

WalkInv ==
  /\ BlobOk
  /\ state \in {"build", "ask", "walk", "done"}
  /\ result \in {Nothing} \cup Nodes \cup Props
  /\ state = "walk" => CallsOk(stack)
  /\ state # "walk" => stack = <<>>

LEMMA WalkInvStays == WalkInv => StaysInItsNode
<1> SUFFICES ASSUME WalkInv PROVE StaysInItsNode
  OBVIOUS
<1>1. TypeOK
  <2>1. ASSUME state = "walk", NEW k \in DOMAIN stack
        PROVE  /\ stack[k].fn \in {query.fn, "skip"}
               /\ stack[k].node \in Nodes
               /\ stack[k].ptr \in DOMAIN blob
    <3>1. stack[k] \in Frames
      BY <2>1 DEF WalkInv, CallsOk
    <3> QED
      BY <3>1 DEF Frames
  <2>2. (stack # <<>>) = (state = "walk")
    BY DEF WalkInv, CallsOk
  <2>3. state # "walk" => DOMAIN stack = {}
    BY DEF WalkInv
  <2> QED
    BY <2>1, <2>2, <2>3 DEF WalkInv, TypeOK
<1>2. ASSUME state = "walk", NEW k \in DOMAIN stack
      PROVE  stack[k].node \in Around(stack[k].ptr)
  <2>1. stack[k] \in Frames /\ InNode(stack[k].node, stack[k].ptr)
    BY <1>2 DEF WalkInv, CallsOk
  <2> QED
    BY <2>1, InNodeIsAround DEF Frames, WalkInv
<1>3. ASSUME state = "walk", NEW k \in 1 .. Len(stack) - 1
      PROVE  stack[k + 1].node = stack[k].ptr
  BY <1>3 DEF WalkInv, CallsOk
<1> QED
  BY <1>1, <1>2, <1>3 DEF StaysInItsNode

-----------------------------------------------------------------------------
(***************************************************************************)
(* What a step does with the calls.                                        *)
(***************************************************************************)
LEMMA TopOk ==
  ASSUME WalkInv, state = "walk"
  PROVE  /\ Len(stack) \in Nat /\ Len(stack) > 0 /\ stack \in Seq(Frames)
         /\ Top = stack[Len(stack)]
         /\ Top \in Frames /\ Top.node \in Nodes /\ Top.ptr \in DOMAIN blob
         /\ InNode(Top.node, Top.ptr)
         /\ Top.fn \in {query.fn, "skip"}
<1>1. Top = stack[Len(stack)] /\ stack \in Seq(Frames) /\ Len(stack) > 0
  BY DEF WalkInv, CallsOk, Top, Last
<1>2. Top \in Frames
  BY <1>1
<1> QED
  BY <1>1, <1>2 DEF WalkInv, CallsOk, Frames

LEMMA MoreThanOne ==
  ASSUME NEW k \in Nat, k > 0, k # 1
  PROVE  k > 1
OBVIOUS

LEMMA OnlyOne ==
  ASSUME NEW k \in Nat, 1 <= k, k <= 1
  PROVE  k = 1
OBVIOUS

LEMMA OneOrMore ==
  ASSUME NEW k \in Nat, k > 0
  PROVE  k = 1 \/ k \in 2 .. k
<1>1. CASE k = 1
  BY <1>1
<1>2. CASE k # 1
  <2>1. k > 1
    BY <1>2, MoreThanOne
  <2> QED
    BY <2>1
<1> QED
  BY <1>1, <1>2

LEMMA SomeIsNested ==
  ASSUME WalkInv, state = "walk", Len(stack) # 1
  PROVE  Len(stack) > 1
<1>1. Len(stack) \in Nat /\ Len(stack) > 0
  BY TopOk
<1> QED
  BY <1>1, MoreThanOne

LEMMA MoveKeepsCalls ==
  ASSUME WalkInv, state = "walk", NEW p \in DOMAIN blob, InNode(Top.node, p), MoveTo(p)
  PROVE  CallsOk(stack')
<1> DEFINE n == Len(stack)
<1>1. /\ n \in Nat /\ n > 0 /\ stack \in Seq(Frames) /\ Top = stack[n] /\ Top \in Frames
      /\ stack' = [stack EXCEPT ![n].ptr = p]
  BY TopOk DEF MoveTo
<1>2. [Top EXCEPT !.ptr = p] \in Frames
  BY <1>1 DEF Frames
<1> DEFINE top == [Top EXCEPT !.ptr = p]
<1>3. /\ top \in Frames /\ top.node = Top.node /\ top.fn = Top.fn /\ top.ptr = p
      /\ stack' = [stack EXCEPT ![n] = top]
  BY <1>1, <1>2 DEF Frames
<1> HIDE DEF top
<1>4. /\ stack' \in Seq(Frames) /\ Len(stack') = n
      /\ stack'[n] = top /\ \A k \in 1 .. n - 1 : stack'[k] = stack[k]
  BY <1>1, <1>3
<1>5. \A k \in 1 .. n : InNode(stack'[k].node, stack'[k].ptr)
  BY <1>1, <1>3, <1>4 DEF WalkInv, CallsOk
<1>6. \A k \in 1 .. n - 1 : stack'[k + 1].node = stack'[k].ptr
  <2> TAKE k \in 1 .. n - 1
  <2>1. stack[k + 1].node = stack[k].ptr /\ stack'[k] = stack[k]
    BY <1>1, <1>4 DEF WalkInv, CallsOk
  <2>2. stack'[k + 1].node = stack[k + 1].node
    BY <1>1, <1>3, <1>4
  <2> QED
    BY <2>1, <2>2
<1>7. stack'[1].fn = stack[1].fn
  BY <1>1, <1>3, <1>4
<1> QED
  BY <1>1, <1>4, <1>5, <1>6, <1>7 DEF WalkInv, CallsOk

LEMMA FrameOk ==
  ASSUME BlobOk, state # "build", NEW fn \in {query.fn, "skip"}, NEW n \in Nodes
  PROVE  /\ Frame(fn, n) \in Frames /\ Frame(fn, n).node = n /\ Frame(fn, n).fn = fn
         /\ InNode(Frame(fn, n).node, Frame(fn, n).ptr)
BY EnterNode DEF Frame, Frames

LEMMA CallKeepsCalls ==
  ASSUME WalkInv, state = "walk", NEW fn \in {query.fn, "skip"},
         Tag(Top.ptr) = "BeginNode", Call(fn, Top.ptr)
  PROVE  CallsOk(stack')
<1> DEFINE n == Len(stack)
           new == Frame(fn, Top.ptr)
<1>1. /\ n \in Nat /\ n > 0 /\ stack \in Seq(Frames) /\ Top = stack[n]
      /\ Top.ptr \in Nodes
  BY TopOk DEF Nodes
<1>2. new \in Frames /\ new.node = Top.ptr /\ InNode(new.node, new.ptr)
  BY <1>1, FrameOk DEF WalkInv
<1>3. stack' = Append(stack, new)
  BY DEF Call
<1> HIDE DEF new
<1>4. /\ stack' \in Seq(Frames) /\ Len(stack') = n + 1
      /\ stack'[n + 1] = new /\ \A k \in 1 .. n : stack'[k] = stack[k]
  BY <1>1, <1>2, <1>3
<1>5. \A k \in 1 .. n + 1 : InNode(stack'[k].node, stack'[k].ptr)
  BY <1>1, <1>2, <1>4 DEF WalkInv, CallsOk
<1>6. \A k \in 1 .. n : stack'[k + 1].node = stack'[k].ptr
  <2> TAKE k \in 1 .. n
  <2>1. CASE k = n
    BY <1>1, <1>2, <1>4, <2>1
  <2>2. CASE k # n
    <3>1. k \in 1 .. n - 1 /\ k + 1 \in 1 .. n
      BY <1>1, <2>2
    <3> QED
      BY <1>4, <3>1 DEF WalkInv, CallsOk
  <2> QED
    BY <2>1, <2>2
<1>7. stack'[1] = stack[1]
  BY <1>1, <1>4
<1> QED
  BY <1>1, <1>4, <1>5, <1>6, <1>7 DEF WalkInv, CallsOk

\* The caller goes on behind the node the call was on.
LEMMA ReturnKeepsCalls ==
  ASSUME WalkInv, state = "walk", Len(stack) > 1, Tag(Top.ptr) = "EndNode",
         ReturnPtr(Top.ptr + 1)
  PROVE  CallsOk(stack')
<1> DEFINE n == Len(stack)
           caller == stack[n - 1]
<1>1. /\ n \in Nat /\ n > 1 /\ stack \in Seq(Frames) /\ Top = stack[n]
      /\ Top.ptr \in DOMAIN blob /\ Top.node \in Nodes /\ InNode(Top.node, Top.ptr)
  BY TopOk
<1>2. /\ caller \in Frames /\ caller.node \in Nodes /\ caller.ptr = Top.node
      /\ InNode(caller.node, caller.ptr)
  <2>1. caller \in Frames
    BY <1>1
  <2>2. n - 1 \in 1 .. Len(stack) /\ n - 1 \in 1 .. Len(stack) - 1 /\ (n - 1) + 1 = n
    BY <1>1
  <2>3. caller.ptr = Top.node /\ InNode(caller.node, caller.ptr)
    BY <1>1, <2>2 DEF WalkInv, CallsOk
  <2> QED
    BY <2>1, <2>3 DEF Frames
<1>3. InNode(caller.node, Top.ptr + 1) /\ Top.ptr + 1 \in DOMAIN blob
  BY <1>1, <1>2, AfterNode, NextToken DEF WalkInv
<1> DEFINE new == [caller EXCEPT !.ptr = Top.ptr + 1]
<1>4. /\ new \in Frames /\ new.node = caller.node /\ new.fn = caller.fn
      /\ new.ptr = Top.ptr + 1
  BY <1>2, <1>3 DEF Frames
<1>5. stack' = [Front(stack) EXCEPT ![n - 1].ptr = Top.ptr + 1]
  BY DEF ReturnPtr
<1>6. /\ Front(stack) \in Seq(Frames) /\ Len(Front(stack)) = n - 1
      /\ \A k \in 1 .. n - 1 : Front(stack)[k] = stack[k]
  BY <1>1 DEF Front
<1>7. stack' = [Front(stack) EXCEPT ![n - 1] = new]
  <2>1. n - 1 \in 1 .. n - 1 /\ Front(stack)[n - 1] = caller
    BY <1>1, <1>6
  <2> QED
    BY <1>5, <2>1
<1> HIDE DEF new
<1>8. /\ stack' \in Seq(Frames) /\ Len(stack') = n - 1
      /\ stack'[n - 1] = new /\ \A k \in 1 .. n - 2 : stack'[k] = stack[k]
  BY <1>1, <1>4, <1>6, <1>7
<1>9. \A k \in 1 .. n - 1 : InNode(stack'[k].node, stack'[k].ptr)
  BY <1>1, <1>3, <1>4, <1>8 DEF WalkInv, CallsOk
<1>10. \A k \in 1 .. n - 2 : stack'[k + 1].node = stack'[k].ptr
  <2> TAKE k \in 1 .. n - 2
  <2>1. stack[k + 1].node = stack[k].ptr /\ stack'[k] = stack[k]
    BY <1>1, <1>8 DEF WalkInv, CallsOk
  <2>2. stack'[k + 1].node = stack[k + 1].node
    BY <1>1, <1>4, <1>8
  <2> QED
    BY <2>1, <2>2
<1>11. stack'[1].fn = stack[1].fn
  BY <1>1, <1>4, <1>8
<1> QED
  BY <1>1, <1>8, <1>9, <1>10, <1>11 DEF WalkInv, CallsOk

\* find_compatible's caller skips the node that was tried.
SkipTried == stack' = [stack EXCEPT ![Len(stack)] = Frame("skip", Top.node)]

LEMMA SkipKeepsCalls ==
  ASSUME WalkInv, state = "walk", Len(stack) > 1, SkipTried
  PROVE  CallsOk(stack')
<1> DEFINE n == Len(stack)
           new == Frame("skip", Top.node)
<1>1. /\ n \in Nat /\ n > 1 /\ stack \in Seq(Frames) /\ Top = stack[n]
      /\ Top.node \in Nodes
  BY TopOk
<1>2. new \in Frames /\ new.node = Top.node /\ InNode(new.node, new.ptr)
  BY <1>1, FrameOk DEF WalkInv
<1> HIDE DEF new
<1>3. /\ stack' \in Seq(Frames) /\ Len(stack') = n
      /\ stack'[n] = new /\ \A k \in 1 .. n - 1 : stack'[k] = stack[k]
  BY <1>1, <1>2 DEF new, SkipTried
<1>4. \A k \in 1 .. n : InNode(stack'[k].node, stack'[k].ptr)
  BY <1>1, <1>2, <1>3 DEF WalkInv, CallsOk
<1>5. \A k \in 1 .. n - 1 : stack'[k + 1].node = stack'[k].ptr
  <2> TAKE k \in 1 .. n - 1
  <2>1. stack[k + 1].node = stack[k].ptr /\ stack'[k] = stack[k]
    BY <1>1, <1>3 DEF WalkInv, CallsOk
  <2>2. stack'[k + 1].node = stack[k + 1].node
    BY <1>1, <1>2, <1>3
  <2> QED
    BY <2>1, <2>2
<1>6. stack'[1].fn = stack[1].fn
  BY <1>1, <1>3
<1> QED
  BY <1>1, <1>3, <1>4, <1>5, <1>6 DEF WalkInv, CallsOk

LEMMA FirstCallOk ==
  ASSUME BlobOk, state # "build", query.fn # "skip", NEW n \in Nodes
  PROVE  CallsOk(<<Frame(query.fn, n)>>)
<1> DEFINE new == Frame(query.fn, n)
<1>1. new \in Frames /\ new.fn = query.fn /\ InNode(new.node, new.ptr)
  BY FrameOk
<1> HIDE DEF new
<1>2. CallsOk(<<new>>)
  BY <1>1 DEF CallsOk
<1> QED
  BY <1>2 DEF new

\* A step of a walk changes neither the blob nor the call.
LEMMA InvIgnoresPrinted ==
  ASSUME WalkInv, state = "walk", CallsOk(stack'), UNCHANGED <<blob, query, result, state>>
  PROVE  WalkInv'
<1>1. blob' = blob /\ query' = query /\ result' = result /\ state' = state
  OBVIOUS
<1>2. Nodes' = Nodes /\ Props' = Props
  BY <1>1 DEF Nodes, Props, Tag
<1>3. CallsOk(stack)'
  BY <1>1, <1>2 DEF CallsOk, Frames, InNode
<1>4. BlobOk'
  BY <1>1 DEF BlobOk, WalkInv
<1> QED
  BY <1>1, <1>2, <1>3, <1>4 DEF WalkInv

LEMMA CallsOkKeepsInv ==
  ASSUME WalkInv, state = "walk", CallsOk(stack'), Stays
  PROVE  WalkInv'
BY InvIgnoresPrinted DEF Stays

LEMMA AnswerKeepsInv ==
  ASSUME WalkInv, state = "walk",
         NEW value \in {Nothing} \cup Nodes \cup Props, Return(value)
  PROVE  WalkInv'
<1>1. blob' = blob /\ result' = value /\ state' = "done" /\ stack' = <<>>
  BY DEF Return
<1>2. Nodes' = Nodes /\ Props' = Props
  BY <1>1 DEF Nodes, Props, Tag
<1>3. BlobOk'
  BY <1>1 DEF BlobOk, WalkInv
<1> QED
  BY <1>1, <1>2, <1>3 DEF WalkInv

-----------------------------------------------------------------------------
(***************************************************************************)
(* The invariant holds of every step.                                      *)
(***************************************************************************)
LEMMA InitWalkInv == Init => WalkInv
BY InitBlob DEF Init, WalkInv

\* The answer found so far stands for the same token of a longer blob.
LEMMA BlobGrows ==
  ASSUME BlobOk, NEW t, blob' = Append(blob, t)
  PROVE  Nodes \subseteq Nodes' /\ Props \subseteq Props'
<1>1. /\ DOMAIN blob \subseteq DOMAIN (blob')
      /\ \A k \in DOMAIN blob : blob'[k] = blob[k]
  BY DEF BlobOk
<1> QED
  BY <1>1 DEF Nodes, Props, Tag

LEMMA BuildKeepsInv ==
  ASSUME WalkInv, Build
  PROVE  WalkInv'
<1>1. /\ BlobOk' /\ UNCHANGED <<stack, result>>
      /\ state = "build" /\ state' \in {"build", "ask"}
      /\ \E t : blob' = Append(blob, t)
  <2>1. ASSUME NEW t \in Tokens, t.tag # "End", \E k \in Nat : MayAdd(k), AddToken(t)
        PROVE  /\ BlobOk' /\ UNCHANGED <<stack, result>>
               /\ state = "build" /\ state' \in {"build", "ask"}
               /\ \E u : blob' = Append(blob, u)
    <3>1. state = "build" /\ Open # {}
      BY <2>1 DEF MayAdd
    <3>2. BlobOk'
      BY <2>1, <3>1, TokenKeepsBlob DEF WalkInv
    <3> QED
      BY <2>1, <3>1, <3>2 DEF AddToken
  <2>2. CASE AddNode
    <3>1. PICK n \in Names : AddToken(BeginNode(n))
      BY <2>2 DEF AddNode
    <3>2. BeginNode(n) \in Tokens /\ BeginNode(n).tag = "BeginNode" /\ MayAdd(2)
      BY <2>2, TokensMade DEF AddNode, NodeNames
    <3> QED
      BY <2>1, <3>1, <3>2
  <2>3. CASE AddProp
    <3>1. PICK p \in PropNames, v \in Values \cup {"cells"} : AddToken(Prop(p, v))
      BY <2>3 DEF AddProp
    <3>2. Prop(p, v) \in Tokens /\ Prop(p, v).tag = "Prop" /\ MayAdd(1)
      BY <2>3, TokensMade DEF AddProp
    <3> QED
      BY <2>1, <3>1, <3>2
  <2>4. CASE AddNop
    <3>1. Nop \in Tokens /\ Nop.tag # "End" /\ MayAdd(1) /\ AddToken(Nop)
      BY <2>4, TokensMade DEF AddNop
    <3> QED
      BY <2>1, <3>1
  <2>5. CASE AddEnd
    <3>1. EndNode \in Tokens /\ EndNode.tag # "End" /\ MayAdd(0) /\ AddToken(EndNode)
      BY <2>5, TokensMade DEF AddEnd
    <3> QED
      BY <2>1, <3>1
  <2>6. CASE Seal
    BY <2>6, SealKeepsBlob DEF Seal, WalkInv
  <2> QED
    BY <2>2, <2>3, <2>4, <2>5, <2>6 DEF Build
<1>2. Nodes \subseteq Nodes' /\ Props \subseteq Props'
  BY <1>1, BlobGrows DEF WalkInv
<1>3. stack' = <<>> /\ result' \in {Nothing} \cup Nodes' \cup Props'
  BY <1>1, <1>2 DEF WalkInv
<1> QED
  BY <1>1, <1>3 DEF WalkInv

LEMMA StartKeepsInv ==
  ASSUME WalkInv, NEW q, q.fn # "skip", q.node \in Nodes, Start(q)
  PROVE  WalkInv'
<1>1. /\ state = "ask" /\ query' = q /\ stack' = <<Frame(q.fn, q.node)>> /\ state' = "walk"
      /\ blob' = blob /\ result' = result
  BY DEF Start
<1>2. Nodes' = Nodes /\ Props' = Props
  BY <1>1 DEF Nodes, Props, Tag
<1>3. BlobOk /\ BlobOk'
  BY <1>1 DEF BlobOk, WalkInv
<1>4. InNode(q.node, q.node + 1) /\ q.node + 1 \in DOMAIN blob
  BY <1>1, <1>3, EnterNode
<1> DEFINE new == Frame(q.fn, q.node)
<1>5. new.fn = q.fn /\ new \in [fn : {q.fn, "skip"}, node : Nodes, ptr : DOMAIN blob]
      /\ InNode(new.node, new.ptr)
  BY <1>4 DEF Frame
<1> HIDE DEF new
<1>6. stack' = <<new>>
  BY <1>1 DEF new
<1>7. CallsOk(stack)'
  BY <1>1, <1>2, <1>5, <1>6 DEF CallsOk, Frames, InNode
<1> QED
  BY <1>1, <1>2, <1>3, <1>7 DEF WalkInv

LEMMA AskKeepsInv ==
  ASSUME WalkInv, Ask
  PROVE  WalkInv'
<1>1. PICK n \in Nodes :
        \/ \E path \in Paths, as_prefix \in BOOLEAN :
             Start([fn |-> "find_node", node |-> n, path |-> path, as_prefix |-> as_prefix])
        \/ \E s \in Values : Start([fn |-> "find_compatible", node |-> n, str |-> s])
        \/ \E p \in PropNames : Start([fn |-> "find_property", node |-> n, name |-> p])
        \/ n = Root /\ Start([fn |-> "print", node |-> n])
  BY DEF Ask
<1>2. PICK q : q.fn # "skip" /\ q.node = n /\ Start(q)
  <2>1. CASE \E path \in Paths, as_prefix \in BOOLEAN :
               Start([fn |-> "find_node", node |-> n, path |-> path, as_prefix |-> as_prefix])
    BY <2>1
  <2>2. CASE \E s \in Values : Start([fn |-> "find_compatible", node |-> n, str |-> s])
    BY <2>2
  <2>3. CASE \E p \in PropNames : Start([fn |-> "find_property", node |-> n, name |-> p])
    BY <2>3
  <2>4. CASE Start([fn |-> "print", node |-> n])
    BY <2>4
  <2> QED
    BY <1>1, <2>1, <2>2, <2>3, <2>4
<1> QED
  BY <1>2, StartKeepsInv

\* What a step of a function finds at its token.
LEMMA RunningOk ==
  ASSUME WalkInv, NEW fn, NEW tag, Running(fn, tag)
  PROVE  /\ state = "walk" /\ Top.fn = fn /\ Tag(Top.ptr) = tag
         /\ tag # "End"
         /\ fn # "skip" => query.fn = fn
         /\ fn = "skip" => Len(stack) > 1
<1>1. state = "walk" /\ Top.fn = fn /\ Tag(Top.ptr) = tag
  BY DEF Running, Token, Tag
<1>2. Tag(Top.ptr) # "End"
  BY <1>1, TopOk, NextToken DEF WalkInv
<1>3. ASSUME fn = "skip" PROVE Len(stack) > 1
  <2>1. stack[1].fn # "skip" /\ Top = stack[Len(stack)] /\ Len(stack) \in Nat /\ Len(stack) > 0
    BY <1>1, TopOk DEF WalkInv, CallsOk
  <2> QED
    BY <1>1, <1>3, <2>1
<1> QED
  BY <1>1, <1>2, <1>3, TopOk

\* The next token of the same node.
LEMMA MoveOnKeepsInv ==
  ASSUME WalkInv, state = "walk", Tag(Top.ptr) \in {"Nop", "Prop"},
         MoveTo(Top.ptr + 1), Stays
  PROVE  WalkInv'
<1>1. InNode(Top.node, Top.ptr + 1) /\ Top.ptr + 1 \in DOMAIN blob
  BY TopOk, NextToken DEF WalkInv
<1> QED
  BY <1>1, MoveKeepsCalls, CallsOkKeepsInv

LEMMA FindKeepsInv ==
  ASSUME WalkInv, FindMatch \/ FindOther \/ FindNothing
  PROVE  WalkInv'
<1>1. CASE FindMatch
  <2>1. Running("find_node", "BeginNode")
    BY <1>1 DEF FindMatch
  <2>2. state = "walk" /\ Tag(Top.ptr) = "BeginNode" /\ query.fn = "find_node"
    BY <2>1, RunningOk
  <2>3. Top.ptr \in Nodes
    BY <2>2, TopOk DEF Nodes
  <2>4. CASE IsTerminal
    BY <1>1, <2>2, <2>3, <2>4, AnswerKeepsInv DEF FindMatch
  <2>5. CASE ~IsTerminal
    <3>1. stack' = <<Frame("find_node", Top.ptr)>> /\ Stays
      BY <1>1, <2>5 DEF FindMatch
    <3>2. CallsOk(<<Frame("find_node", Top.ptr)>>)
      <4>1. CallsOk(<<Frame(query.fn, Top.ptr)>>)
        BY <2>2, <2>3, FirstCallOk DEF WalkInv
      <4> QED
        BY <2>2, <4>1
    <3> QED
      BY <2>2, <3>1, <3>2, CallsOkKeepsInv
  <2> QED
    BY <2>4, <2>5
<1>2. CASE FindOther
  <2>1. Running("find_node", "BeginNode") /\ Call("skip", Top.ptr) /\ Stays
    BY <1>2 DEF FindOther
  <2> QED
    BY <2>1, RunningOk, CallKeepsCalls, CallsOkKeepsInv
<1>3. CASE FindNothing
  <2>1. state = "walk" /\ Return(Nothing)
    BY <1>3 DEF FindNothing, Running
  <2> QED
    BY <2>1, AnswerKeepsInv
<1> QED
  BY <1>1, <1>2, <1>3

LEMMA StepKeepsInv ==
  ASSUME WalkInv, StepNop \/ StepProp
  PROVE  WalkInv'
<1>1. CASE StepNop
  <2>1. PICK fn : Running(fn, "Nop")
    BY <1>1 DEF StepNop
  <2> QED
    BY <1>1, <2>1, RunningOk, MoveOnKeepsInv DEF StepNop, AfterNop
<1>2. CASE StepProp
  <2>1. PICK fn : Running(fn, "Prop")
    BY <1>2 DEF StepProp
  <2> QED
    BY <1>2, <2>1, RunningOk, MoveOnKeepsInv DEF StepProp
<1> QED
  BY <1>1, <1>2

LEMMA SkipKeepsInv ==
  ASSUME WalkInv, SkipNode \/ SkipReturn
  PROVE  WalkInv'
<1>1. CASE SkipNode
  <2>1. Running("skip", "BeginNode") /\ Call("skip", Top.ptr) /\ Stays
    BY <1>1 DEF SkipNode
  <2> QED
    BY <2>1, RunningOk, CallKeepsCalls, CallsOkKeepsInv
<1>2. CASE SkipReturn
  <2>1. PICK tag \in {"EndNode", "End"} : Running("skip", tag)
    BY <1>2 DEF SkipReturn
  <2>2. state = "walk" /\ Tag(Top.ptr) = "EndNode" /\ Len(stack) > 1
    BY <2>1, RunningOk
  <2>3. ReturnPtr(Top.ptr + 1) /\ Stays
    BY <1>2 DEF SkipReturn, Skipped
  <2> QED
    BY <2>2, <2>3, ReturnKeepsCalls, CallsOkKeepsInv
<1> QED
  BY <1>1, <1>2

LEMMA CompatibleKeepsInv ==
  ASSUME WalkInv, CompatibleProp \/ CompatibleNode \/ CompatibleNothing
  PROVE  WalkInv'
<1>1. CASE CompatibleProp
  <2>1. Running("find_compatible", "Prop")
    BY <1>1 DEF CompatibleProp
  <2>2. state = "walk" /\ Tag(Top.ptr) = "Prop" /\ Top.node \in Nodes
    BY <2>1, RunningOk, TopOk
  <2>3. Return(Top.node) \/ (MoveTo(Top.ptr + 1) /\ Stays)
    BY <1>1 DEF CompatibleProp
  <2> QED
    BY <2>2, <2>3, AnswerKeepsInv, MoveOnKeepsInv
<1>2. CASE CompatibleNode
  <2>1. Running("find_compatible", "BeginNode") /\ Call("find_compatible", Top.ptr) /\ Stays
    BY <1>2 DEF CompatibleNode
  <2>2. state = "walk" /\ Tag(Top.ptr) = "BeginNode" /\ query.fn = "find_compatible"
    BY <2>1, RunningOk
  <2> QED
    BY <2>1, <2>2, CallKeepsCalls, CallsOkKeepsInv
<1>3. CASE CompatibleNothing
  <2>1. state = "walk"
    BY <1>3 DEF CompatibleNothing, Running
  <2>2. CASE Len(stack) = 1
    BY <1>3, <2>1, <2>2, AnswerKeepsInv DEF CompatibleNothing
  <2>3. CASE Len(stack) # 1
    <3>1. SkipTried /\ Stays
      BY <1>3, <2>3 DEF CompatibleNothing, SkipTried
    <3>2. Len(stack) > 1
      BY <2>1, <2>3, SomeIsNested
    <3> QED
      BY <2>1, <3>1, <3>2, SkipKeepsCalls, CallsOkKeepsInv
  <2> QED
    BY <2>2, <2>3
<1> QED
  BY <1>1, <1>2, <1>3

LEMMA PropertyKeepsInv ==
  ASSUME WalkInv, PropertyProp \/ PropertyNothing
  PROVE  WalkInv'
<1>1. CASE PropertyProp
  <2>1. Running("find_property", "Prop")
    BY <1>1 DEF PropertyProp
  <2>2. state = "walk" /\ Tag(Top.ptr) = "Prop" /\ Top.ptr \in Props
    BY <2>1, RunningOk, TopOk DEF Props
  <2>3. Return(Top.ptr) \/ (MoveTo(Top.ptr + 1) /\ Stays)
    BY <1>1 DEF PropertyProp
  <2> QED
    BY <2>2, <2>3, AnswerKeepsInv, MoveOnKeepsInv
<1>2. CASE PropertyNothing
  <2>1. state = "walk" /\ Return(Nothing)
    BY <1>2 DEF PropertyNothing, Running
  <2> QED
    BY <2>1, AnswerKeepsInv
<1> QED
  BY <1>1, <1>2

LEMMA PrintKeepsInv ==
  ASSUME WalkInv, PrintNode \/ PrintProp \/ PrintReturn
  PROVE  WalkInv'
<1>1. CASE PrintNode
  <2>1. Running("print", "BeginNode") /\ Call("print", Top.ptr)
        /\ UNCHANGED <<blob, query, result, state>>
    BY <1>1 DEF PrintNode
  <2>2. state = "walk" /\ Tag(Top.ptr) = "BeginNode" /\ query.fn = "print"
    BY <2>1, RunningOk
  <2> QED
    BY <2>1, <2>2, CallKeepsCalls, InvIgnoresPrinted
<1>2. CASE PrintProp
  <2>1. Running("print", "Prop") /\ MoveTo(Top.ptr + 1)
        /\ UNCHANGED <<blob, query, result, state>>
    BY <1>2 DEF PrintProp
  <2>2. state = "walk" /\ Tag(Top.ptr) = "Prop"
    BY <2>1, RunningOk
  <2>3. InNode(Top.node, Top.ptr + 1) /\ Top.ptr + 1 \in DOMAIN blob
    BY <2>2, TopOk, NextToken DEF WalkInv
  <2> QED
    BY <2>1, <2>2, <2>3, MoveKeepsCalls, InvIgnoresPrinted
<1>3. CASE PrintReturn
  <2>1. PICK tag \in {"EndNode", "End"} : Running("print", tag)
    BY <1>3 DEF PrintReturn
  <2>2. state = "walk" /\ Tag(Top.ptr) = "EndNode"
    BY <2>1, RunningOk
  <2>3. CASE Len(stack) = 1
    BY <1>3, <2>2, <2>3, AnswerKeepsInv DEF PrintReturn
  <2>4. CASE Len(stack) # 1
    <3>1. ReturnPtr(Top.ptr + 1) /\ Stays
      BY <1>3, <2>4 DEF PrintReturn
    <3>2. Len(stack) > 1
      BY <2>2, <2>4, SomeIsNested
    <3> QED
      BY <2>2, <3>1, <3>2, ReturnKeepsCalls, CallsOkKeepsInv
  <2> QED
    BY <2>3, <2>4
<1> QED
  BY <1>1, <1>2, <1>3

LEMMA NextKeepsWalkInv == WalkInv /\ [Next]_vars => WalkInv'
<1> SUFFICES ASSUME WalkInv, [Next]_vars PROVE WalkInv'
  OBVIOUS
<1>1. CASE UNCHANGED vars
  <2>1. blob' = blob /\ query' = query /\ stack' = stack /\ result' = result /\ state' = state
    BY <1>1 DEF vars
  <2>2. Nodes' = Nodes /\ Props' = Props
    BY <2>1 DEF Nodes, Props, Tag
  <2>3. CallsOk(stack)' <=> CallsOk(stack)
    BY <2>1, <2>2 DEF CallsOk, Frames, InNode
  <2>4. BlobOk'
    BY <2>1 DEF BlobOk, WalkInv
  <2> QED
    BY <2>1, <2>2, <2>3, <2>4 DEF WalkInv
<1>2. CASE Build
  BY <1>2, BuildKeepsInv
<1>3. CASE Ask
  BY <1>3, AskKeepsInv
<1>4. CASE Walk
  BY <1>4, FindKeepsInv, StepKeepsInv, SkipKeepsInv, CompatibleKeepsInv, PropertyKeepsInv,
     PrintKeepsInv DEF Walk
<1> QED
  BY <1>1, <1>2, <1>3, <1>4 DEF Next

\* Whatever is nested where: a walk stays in the node it was called on, reads
\* only tokens of the blob, and goes on behind a node that was visited exactly
\* where that node ends (dtb.cpp:107-265, dtb.hpp:114-148).
THEOREM WalksStayInTheirNodes == Spec => []StaysInItsNode
<1>1. Init => WalkInv
  BY InitWalkInv
<1>2. WalkInv /\ [Next]_vars => WalkInv'
  BY NextKeepsWalkInv
<1>3. WalkInv => StaysInItsNode
  BY WalkInvStays
<1> QED
  BY <1>1, <1>2, <1>3, PTL DEF Spec

-----------------------------------------------------------------------------
(***************************************************************************)
(* The tree of a blob.                                                     *)
(***************************************************************************)
NodesOf(b) == {i \in DOMAIN b : b[i].tag = "BeginNode"}
PropsOf(b) == {i \in DOMAIN b : b[i].tag = "Prop"}

\* A token is inside a node if the height has been above the node's own since;
\* it is a child of the innermost node it is in.
Inside(b, n, i) ==
  /\ n \in NodesOf(b) /\ n < i
  /\ \A k \in n + 1 .. i : Height(b, k) > Height(b, n)
Child(b, n, i) == Inside(b, n, i) /\ Height(b, i) = Height(b, n) + 1
Over(b, i) == {n \in NodesOf(b) : Inside(b, n, i)}
Depths(b, i) == Cardinality(Over(b, i))

LEMMA InsideIsBelow ==
  ASSUME NEW b \in Seq(Tokens), NEW i \in Nat, NEW n, Inside(b, n, i)
  PROVE  /\ n \in Nat \ {0} /\ n \in DOMAIN b /\ n < i /\ i # 0
         /\ Height(b, n) \in Int /\ Height(b, i) \in Int /\ Height(b, i) > Height(b, n)
<1>1. n \in DOMAIN b /\ n < i
  BY DEF Inside, NodesOf
<1>2. n \in Nat \ {0} /\ i \in n + 1 .. i /\ i \in Nat \ {0}
  BY <1>1
<1> QED
  BY <1>1, <1>2, HeightStep DEF Inside

LEMMA InsideTransitive ==
  ASSUME NEW b \in Seq(Tokens), NEW i \in Nat, NEW m, NEW n, Inside(b, n, m), Inside(b, m, i)
  PROVE  Inside(b, n, i)
<1>1. m \in Nat /\ n \in Nat \ {0} /\ n < m /\ m < i /\ n \in NodesOf(b) /\ Height(b, n) \in Int
      /\ Height(b, m) \in Int /\ Height(b, m) > Height(b, n)
  <2>1. m \in Nat /\ m < i
    BY InsideIsBelow
  <2> QED
    BY <2>1, InsideIsBelow DEF Inside
<1>2. ASSUME NEW k \in n + 1 .. i PROVE Height(b, k) > Height(b, n)
  <2>1. CASE k \in n + 1 .. m
    BY <2>1 DEF Inside
  <2>2. CASE k \in m + 1 .. i
    <3>1. Height(b, k) > Height(b, m) /\ Height(b, k) \in Int
      BY <1>1, <2>2, HeightStep DEF Inside
    <3> QED
      BY <1>1, <3>1
  <2> QED
    BY <1>1, <2>1, <2>2
<1> QED
  BY <1>1, <1>2 DEF Inside

LEMMA InsideEarlier ==
  ASSUME NEW b \in Seq(Tokens), NEW i \in Nat, NEW n, Inside(b, n, i), NEW h \in Nat, n < h, h <= i
  PROVE  Inside(b, n, h)
BY InsideIsBelow DEF Inside

\* What a token is inside of, its parent is, or is.
LEMMA InsideParent ==
  ASSUME NEW b \in Seq(Tokens), NEW i \in Nat, NEW n, Child(b, n, i), NEW m, Inside(b, m, i)
  PROVE  m = n \/ Inside(b, m, n)
<1>1. /\ Inside(b, n, i) /\ m \in Nat /\ n \in Nat /\ n < i /\ m < i
      /\ Height(b, m) \in Int /\ Height(b, n) \in Int /\ Height(b, i) = Height(b, n) + 1
      /\ Height(b, i) > Height(b, m)
  BY InsideIsBelow DEF Child
<1>2. CASE m < n
  BY <1>1, <1>2, InsideEarlier
<1>3. CASE m > n
  <2>1. Height(b, m) > Height(b, n)
    BY <1>1, <1>3 DEF Inside
  <2> QED
    BY <1>1, <2>1
<1> QED
  BY <1>1, <1>2, <1>3

LEMMA InsideIrreflexive ==
  ASSUME NEW b \in Seq(Tokens), NEW n \in Nat
  PROVE  ~ Inside(b, n, n)
BY DEF Inside

LEMMA OneParent ==
  ASSUME NEW b \in Seq(Tokens), NEW i \in Nat, NEW n, Child(b, n, i), NEW m, Child(b, m, i)
  PROVE  m = n
<1>1. Inside(b, n, i) /\ Inside(b, m, i)
  BY DEF Child
<1>2. m = n \/ Inside(b, m, n)
  BY <1>1, InsideParent
<1>3. n = m \/ Inside(b, n, m)
  BY <1>1, InsideParent
<1>4. n \in Nat /\ m \in Nat
  BY <1>1, InsideIsBelow
<1>5. ~ (m < n /\ n < m)
  BY <1>4
<1> QED
  BY <1>2, <1>3, <1>5 DEF Inside

LEMMA OverIsFinite ==
  ASSUME NEW b \in Seq(Tokens), NEW n \in Nat
  PROVE  IsFiniteSet(Over(b, n)) /\ Cardinality(Over(b, n)) \in Nat
<1>1. Over(b, n) \subseteq 1 .. n
  <2>1. \A m \in Over(b, n) : m \in Nat \ {0} /\ m < n
    BY InsideIsBelow DEF Over
  <2> QED
    BY <2>1
<1>2. IsFiniteSet(1 .. n)
  BY FS_Interval
<1> QED
  BY <1>1, <1>2, FS_Subset, FS_CardinalityType

LEMMA OverAChild ==
  ASSUME NEW b \in Seq(Tokens), NEW i \in Nat, NEW n, Child(b, n, i)
  PROVE  /\ Over(b, i) = Over(b, n) \cup {n} /\ Max(Over(b, i)) = n
         /\ Depths(b, n) \in Nat /\ Depths(b, i) = Depths(b, n) + 1
<1>1. Inside(b, n, i) /\ n \in Nat /\ n \in NodesOf(b)
  BY InsideIsBelow DEF Child, Inside
<1>2. Over(b, i) = Over(b, n) \cup {n}
  <2>1. \A m \in Over(b, i) : m = n \/ m \in Over(b, n)
    BY <1>1, InsideParent DEF Over
  <2>2. \A m \in Over(b, n) : m \in Over(b, i)
    BY <1>1, InsideTransitive DEF Over
  <2>3. n \in Over(b, i)
    BY <1>1 DEF Over
  <2> QED
    BY <2>1, <2>2, <2>3
<1>3. \A m \in Over(b, n) : m \in Nat /\ m < n
  BY <1>1, InsideIsBelow DEF Over
<1>4. Max(Over(b, i)) = n
  <2>1. n \in Over(b, i) /\ \A m \in Over(b, i) : n >= m
    BY <1>1, <1>2, <1>3
  <2>2. Max(Over(b, i)) \in Over(b, i) /\ \A m \in Over(b, i) : Max(Over(b, i)) >= m
    BY <2>1 DEF Max
  <2>3. Max(Over(b, i)) \in Nat /\ n >= Max(Over(b, i)) /\ Max(Over(b, i)) >= n
    BY <1>1, <1>2, <1>3, <2>1, <2>2
  <2> QED
    BY <1>1, <2>3
<1>5. IsFiniteSet(Over(b, n))
  BY <1>1, OverIsFinite
<1>6. Depths(b, n) \in Nat /\ Depths(b, i) = Depths(b, n) + 1
  <2>1. n \notin Over(b, n)
    BY <1>1, <1>3
  <2> QED
    BY <1>2, <1>5, <2>1, FS_AddElement, FS_CardinalityType DEF Depths
<1> QED
  BY <1>2, <1>4, <1>6

\* Nothing behind the end of a node is in it.
LEMMA EndsThere ==
  ASSUME NEW b \in Seq(Tokens), NEW i \in Nat, NEW n, Child(b, n, i), b[i].tag = "EndNode",
         NEW h \in Nat, Inside(b, n, h), h # i
  PROVE  h < i
<1>1. /\ n \in Nat /\ n < i /\ i \in Nat \ {0} /\ Height(b, n) \in Int
      /\ Height(b, i) = Height(b, n) + 1
  BY InsideIsBelow DEF Child
<1>2. Height(b, i + 1) = Height(b, n)
  BY <1>1, HeightStep
<1>3. ~ (i + 1 \in n + 1 .. h)
  BY <1>1, <1>2 DEF Inside
<1> QED
  BY <1>1, <1>3

\* Up to the token at last, every token is the child of a node, or of a node
\* that is inside the one around both; the properties come before the nodes,
\* and no two nodes of a node have the same name.
HasParents(b, last) ==
  /\ \A i \in 2 .. last : Height(b, i) > 0 => \E n \in NodesOf(b) : Child(b, n, i)
  /\ \A i \in 1 .. last : \A n \in NodesOf(b) :
       Inside(b, n, i) =>
         \/ Child(b, n, i)
         \/ \E k \in NodesOf(b) : Child(b, n, k) /\ Inside(b, k, i)
PropsFirst(b) ==
  \A p \in PropsOf(b) : \A n, c \in NodesOf(b) : Child(b, n, p) /\ Child(b, n, c) => p < c
NamesDiffer(b) ==
  \A n, c, d \in NodesOf(b) :
    Child(b, n, c) /\ Child(b, n, d) /\ b[c].name = b[d].name => c = d

TreeOk ==
  /\ HasParents(blob, IF state = "build" THEN Len(blob) + 1 ELSE Len(blob))
  /\ PropsFirst(blob) /\ NamesDiffer(blob)

\* Blob b2 is b and a token t.
Longer(b, t, b2) ==
  /\ b2 \in Seq(Tokens) /\ Len(b) \in Nat /\ Len(b2) = Len(b) + 1
  /\ b2[Len(b) + 1] = t
  /\ \A k \in 1 .. Len(b) : b2[k] = b[k]
  /\ \A i \in 1 .. Len(b) + 1 : Height(b2, i) = Height(b, i)
  /\ \A n : n \in NodesOf(b2)
            <=> n \in NodesOf(b) \/ (n = Len(b) + 1 /\ t.tag = "BeginNode")
  /\ \A n : n \in PropsOf(b2)
            <=> n \in PropsOf(b) \/ (n = Len(b) + 1 /\ t.tag = "Prop")
  /\ \A n \in NodesOf(b) \cup PropsOf(b) : n \in 1 .. Len(b)

LEMMA AppendIsLonger ==
  ASSUME NEW b \in Seq(Tokens), NEW t \in Tokens
  PROVE  Longer(b, t, Append(b, t))
<1> DEFINE end == Len(b) + 1
           b2 == Append(b, t)
<1>1. /\ b2 \in Seq(Tokens) /\ Len(b2) = end /\ b2[end] = t /\ end \in Nat \ {0}
      /\ DOMAIN b = 1 .. Len(b) /\ DOMAIN b2 = 1 .. end
      /\ \A k \in DOMAIN b : b2[k] = b[k]
  OBVIOUS
<1>2. \A i \in 1 .. end : Height(b2, i) = Height(b, i)
  BY HeightOfAppend
<1> HIDE DEF b2
<1>3. \A k : k \in DOMAIN b2 <=> (k \in DOMAIN b \/ k = end)
  BY <1>1
<1>4. end \notin DOMAIN b /\ Len(b) \in Nat
  BY <1>1
<1>5. \A n : /\ n \in NodesOf(b2) <=> n \in NodesOf(b) \/ (n = end /\ t.tag = "BeginNode")
             /\ n \in PropsOf(b2) <=> n \in PropsOf(b) \/ (n = end /\ t.tag = "Prop")
  BY <1>1, <1>3, <1>4 DEF NodesOf, PropsOf
<1>6. \A n \in NodesOf(b) \cup PropsOf(b) : n \in DOMAIN b
  BY DEF NodesOf, PropsOf
<1> QED
  BY <1>1, <1>2, <1>4, <1>5, <1>6 DEF Longer, b2

LEMMA InsideOfAppend ==
  ASSUME NEW b \in Seq(Tokens), NEW t, NEW b2, Longer(b, t, b2),
         NEW i \in 1 .. Len(b) + 1, NEW n
  PROVE  /\ Inside(b2, n, i) <=> Inside(b, n, i)
         /\ Child(b2, n, i) <=> Child(b, n, i)
<1> DEFINE end == Len(b) + 1
<1>1. /\ \A k \in 1 .. end : Height(b2, k) = Height(b, k)
      /\ NodesOf(b) \subseteq 1 .. Len(b) /\ end \in Nat
      /\ n \in NodesOf(b2) <=> (n \in NodesOf(b) \/ (n = end /\ t.tag = "BeginNode"))
  BY DEF Longer
<1>2. ASSUME n \in NodesOf(b) \/ n = end, n < i
      PROVE  n \in NodesOf(b) /\ n \in 1 .. end /\ \A k \in n + 1 .. i : k \in 1 .. end
  BY <1>1, <1>2
<1> QED
  BY <1>1, <1>2 DEF Inside, Child

\* What is inside of what at the end of a longer blob.
LEMMA InsideAtEnd ==
  ASSUME NEW b \in Seq(Tokens), NEW t, NEW b2, Longer(b, t, b2), NEW n
  PROVE  Inside(b2, n, Len(b) + 1 + 1) <=>
           \/ Inside(b, n, Len(b) + 1) /\ Height(b2, Len(b) + 1 + 1) > Height(b, n)
           \/ n = Len(b) + 1 /\ t.tag = "BeginNode"
<1> DEFINE end == Len(b) + 1
<1>1. /\ b2 \in Seq(Tokens) /\ b2[end] = t /\ end \in Nat \ {0}
      /\ \A k \in 1 .. end : Height(b2, k) = Height(b, k)
      /\ NodesOf(b) \subseteq 1 .. Len(b)
      /\ n \in NodesOf(b2) <=> (n \in NodesOf(b) \/ (n = end /\ t.tag = "BeginNode"))
  BY DEF Longer
<1>2. t.tag = "BeginNode" => Height(b2, end + 1) = Height(b2, end) + 1 /\ Height(b2, end) \in Int
  BY <1>1, HeightStep
<1>3. CASE n = end
  <2>1. ~ Inside(b, n, end) /\ \A k \in n + 1 .. end + 1 : k = end + 1
    BY <1>1, <1>3 DEF Inside
  <2> QED
    BY <1>1, <1>2, <1>3, <2>1 DEF Inside
<1>4. CASE n # end /\ n \in NodesOf(b)
  <2>1. /\ n \in Nat /\ n < end /\ end + 1 \in n + 1 .. end + 1
        /\ \A k \in n + 1 .. end + 1 : k \in n + 1 .. end \/ k = end + 1
        /\ \A k \in n + 1 .. end : k \in n + 1 .. end + 1 /\ k \in 1 .. end
        /\ n \in 1 .. end /\ n < end + 1
    BY <1>1, <1>4
  <2> QED
    BY <1>1, <1>4, <2>1 DEF Inside
<1>5. CASE n # end /\ n \notin NodesOf(b)
  BY <1>1, <1>5 DEF Inside
<1> QED
  BY <1>3, <1>4, <1>5

\* A token keeps the parents: inside a new node, in the node that is open, or
\* behind its end in the one around it.
LEMMA TokenKeepsParents ==
  ASSUME NEW b \in Seq(Tokens), HasParents(b, Len(b) + 1), Height(b, Len(b) + 1) > 0,
         NEW t, NEW b2, Longer(b, t, b2)
  PROVE  HasParents(b2, Len(b2) + 1)
<1> DEFINE end == Len(b) + 1
<1>1. /\ b2 \in Seq(Tokens) /\ Len(b2) = end /\ b2[end] = t /\ end \in Nat \ {0}
      /\ \A k \in 1 .. end : Height(b2, k) = Height(b, k)
      /\ NodesOf(b) \subseteq NodesOf(b2) /\ NodesOf(b) \subseteq 1 .. Len(b)
      /\ t.tag = "BeginNode" => end \in NodesOf(b2)
      /\ \A n \in NodesOf(b2) : n \in NodesOf(b) \/ (n = end /\ t.tag = "BeginNode")
  BY DEF Longer
<1>2. /\ Height(b2, end) \in Int /\ Height(b2, end) = Height(b, end)
      /\ t.tag = "BeginNode" => Height(b2, end + 1) = Height(b2, end) + 1
      /\ t.tag = "EndNode" => Height(b2, end + 1) = Height(b2, end) - 1
      /\ t.tag \notin {"BeginNode", "EndNode"} => Height(b2, end + 1) = Height(b2, end)
  BY <1>1, HeightStep
<1>3. PICK p \in NodesOf(b) : Child(b, p, end)
  <2>1. Len(b) # 0
    BY HeightAtRoot DEF Root
  <2>2. end \in 2 .. end
    BY <1>1, <2>1
  <2> QED
    BY <2>2 DEF HasParents
<1>4. /\ Inside(b, p, end) /\ p \in Nat \ {0} /\ p < end /\ Height(b, p) \in Int
      /\ Height(b, end) = Height(b, p) + 1 /\ Height(b2, p) = Height(b, p)
  BY <1>1, <1>3, InsideIsBelow DEF Child
<1>5. \A i \in 2 .. end + 1 : Height(b2, i) > 0 => \E n \in NodesOf(b2) : Child(b2, n, i)
  <2> TAKE i \in 2 .. end + 1
  <2> HAVE Height(b2, i) > 0
  <2>1. CASE i # end + 1
    <3>1. i \in 2 .. end /\ i \in 1 .. end
      BY <1>1, <2>1
    <3>2. PICK n \in NodesOf(b) : Child(b, n, i)
      BY <1>1, <3>1 DEF HasParents
    <3> QED
      BY <1>1, <3>1, <3>2, InsideOfAppend
  <2>2. CASE i = end + 1 /\ t.tag = "BeginNode"
    <3>1. Inside(b2, end, end + 1)
      BY <2>2, InsideAtEnd
    <3> QED
      BY <1>1, <1>2, <2>2, <3>1 DEF Child
  <2>3. CASE i = end + 1 /\ t.tag \notin {"BeginNode", "EndNode"}
    <3>1. Inside(b2, p, end + 1)
      BY <1>2, <1>4, <2>3, InsideAtEnd
    <3> QED
      BY <1>1, <1>2, <1>4, <2>3, <3>1 DEF Child
  <2>4. CASE i = end + 1 /\ t.tag = "EndNode"
    <3>1. Height(b2, end + 1) = Height(b, p)
      BY <1>2, <1>4, <2>4
    <3>2. p \in 2 .. end
      <4>1. p # Root
        BY <2>4, <3>1, HeightAtRoot
      <4> QED
        BY <1>1, <1>4, <4>1 DEF Root
    <3>3. PICK n \in NodesOf(b) : Child(b, n, p)
      BY <2>4, <3>1, <3>2 DEF HasParents
    <3>4. Inside(b, n, end) /\ Height(b, p) > Height(b, n) /\ Height(b, p) = Height(b, n) + 1
      BY <1>1, <1>4, <3>3, InsideTransitive, InsideIsBelow DEF Child
    <3>5. Inside(b2, n, end + 1)
      BY <3>1, <3>4, InsideAtEnd
    <3>6. Height(b2, n) = Height(b, n)
      BY <1>1
    <3> QED
      BY <1>1, <2>4, <3>1, <3>4, <3>5, <3>6 DEF Child
  <2> QED
    BY <2>1, <2>2, <2>3, <2>4
<1>6. ASSUME NEW i \in 1 .. end + 1, NEW n \in NodesOf(b2), Inside(b2, n, i)
      PROVE  \/ Child(b2, n, i)
             \/ \E k \in NodesOf(b2) : Child(b2, n, k) /\ Inside(b2, k, i)
  <2>1. CASE i # end + 1
    <3>1. i \in 1 .. end /\ Inside(b, n, i)
      BY <1>1, <1>6, <2>1, InsideOfAppend
    <3>2. CASE Child(b, n, i)
      BY <3>1, <3>2, InsideOfAppend
    <3>3. ASSUME NEW k \in NodesOf(b), Child(b, n, k), Inside(b, k, i)
          PROVE  k \in NodesOf(b2) /\ Child(b2, n, k) /\ Inside(b2, k, i)
      <4>1. k \in 1 .. end
        BY <1>1, <3>3
      <4> QED
        BY <1>1, <3>1, <3>3, <4>1, InsideOfAppend
    <3>4. n \in NodesOf(b)
      BY <3>1 DEF Inside
    <3> QED
      BY <1>1, <3>1, <3>2, <3>3, <3>4 DEF HasParents
  <2>2. CASE i = end + 1 /\ n = end
    <3>1. t.tag = "BeginNode"
      BY <1>1, <2>2
    <3> QED
      BY <1>2, <1>6, <2>2, <3>1 DEF Child
  <2>3. CASE i = end + 1 /\ n # end
    <3>1. Inside(b, n, end) /\ Height(b2, end + 1) > Height(b, n) /\ n \in NodesOf(b)
      BY <1>6, <2>3, InsideAtEnd DEF Inside
    <3>2. Height(b, n) \in Int /\ Height(b2, n) = Height(b, n) /\ end \in 1 .. end
      BY <1>1, <3>1, InsideIsBelow
    <3>3. CASE Child(b, n, end)
      <4>1. Child(b2, n, end)
        BY <3>2, <3>3, InsideOfAppend
      <4>2. CASE t.tag = "BeginNode"
        <5>1. Inside(b2, end, end + 1)
          BY <4>2, InsideAtEnd
        <5> QED
          BY <1>1, <2>3, <4>1, <4>2, <5>1
      <4>3. CASE t.tag # "BeginNode"
        <5>1. Height(b2, end + 1) = Height(b, n) + 1
          BY <1>2, <3>1, <3>2, <3>3, <4>3 DEF Child
        <5> QED
          BY <1>6, <2>3, <3>2, <5>1 DEF Child
      <4> QED
        BY <4>2, <4>3
    <3>4. ASSUME NEW k \in NodesOf(b), Child(b, n, k), Inside(b, k, end)
          PROVE  \/ Child(b2, n, i)
                 \/ \E m \in NodesOf(b2) : Child(b2, n, m) /\ Inside(b2, m, i)
      <4>1. k \in 1 .. end /\ Child(b2, n, k) /\ k \in NodesOf(b2)
        BY <1>1, <3>4, InsideOfAppend
      <4>2. /\ Height(b, k) = Height(b, n) + 1 /\ Height(b, k) \in Int
            /\ Height(b, end) > Height(b, k)
        BY <1>1, <3>4, InsideIsBelow DEF Child
      <4>3. Height(b2, end + 1) >= Height(b, k)
        BY <1>2, <3>1, <3>2, <4>2
      <4>4. CASE Height(b2, end + 1) > Height(b, k)
        BY <2>3, <3>4, <4>1, <4>4, InsideAtEnd
      <4>5. CASE Height(b2, end + 1) = Height(b, k)
        BY <1>6, <2>3, <3>2, <4>2, <4>5 DEF Child
      <4>6. Height(b2, end + 1) \in Int
        BY <1>1, HeightStep
      <4> QED
        BY <4>2, <4>3, <4>4, <4>5, <4>6
    <3> QED
      BY <3>1, <3>2, <3>3, <3>4 DEF HasParents
  <2> QED
    BY <2>1, <2>2, <2>3
<1> QED
  BY <1>1, <1>5, <1>6 DEF HasParents

\* The last tag of all is in no node.
LEMMA SealKeepsParents ==
  ASSUME NEW b \in Seq(Tokens), HasParents(b, Len(b) + 1),
         NEW t, t.tag = "End", NEW b2, Longer(b, t, b2)
  PROVE  HasParents(b2, Len(b2))
<1> DEFINE end == Len(b) + 1
<1>1. /\ Len(b2) = end /\ end \in Nat \ {0} /\ NodesOf(b2) = NodesOf(b)
      /\ NodesOf(b) \subseteq 1 .. end
      /\ \A k \in 1 .. end : Height(b2, k) = Height(b, k)
  BY DEF Longer
<1>2. \A i \in 1 .. end : \A n : /\ Inside(b2, n, i) <=> Inside(b, n, i)
                                 /\ Child(b2, n, i) <=> Child(b, n, i)
  BY InsideOfAppend
<1>3. \A i \in 2 .. end : i \in 1 .. end
  BY <1>1
<1> QED
  BY <1>1, <1>2, <1>3 DEF HasParents

\* A token is put after the properties of its node, and a property before its
\* nodes; a node has a name of its own.
LEMMA TokenKeepsOrder ==
  ASSUME NEW b \in Seq(Tokens), PropsFirst(b), NEW t, NEW b2, Longer(b, t, b2),
         t.tag = "Prop" =>
           ~ \E n, c \in NodesOf(b) : Child(b, n, c) /\ Child(b, n, Len(b) + 1)
  PROVE  PropsFirst(b2)
<1> DEFINE end == Len(b) + 1
<1> SUFFICES ASSUME NEW p \in PropsOf(b2), NEW n \in NodesOf(b2), NEW c \in NodesOf(b2),
                    Child(b2, n, p), Child(b2, n, c)
             PROVE  p < c
  BY DEF PropsFirst
<1>1. /\ end \in Nat \ {0} /\ NodesOf(b) \subseteq 1 .. Len(b) /\ PropsOf(b) \subseteq 1 .. Len(b)
      /\ p \in PropsOf(b) \/ (p = end /\ t.tag = "Prop")
      /\ c \in NodesOf(b) \/ (c = end /\ t.tag = "BeginNode")
  BY DEF Longer
<1>2. p \in 1 .. end /\ c \in 1 .. end
  BY <1>1
<1>3. Child(b, n, p) /\ Child(b, n, c) /\ n \in NodesOf(b)
  BY <1>2, InsideOfAppend DEF Child, Inside
<1>4. CASE p \in PropsOf(b) /\ c \in NodesOf(b)
  BY <1>3, <1>4 DEF PropsFirst
<1>5. CASE p \in PropsOf(b) /\ c = end
  BY <1>1, <1>5
<1>6. CASE p = end /\ t.tag = "Prop"
  BY <1>1, <1>3, <1>6
<1> QED
  BY <1>1, <1>4, <1>5, <1>6

LEMMA TokenKeepsNames ==
  ASSUME NEW b \in Seq(Tokens), NamesDiffer(b), NEW t, NEW b2, Longer(b, t, b2),
         t.tag = "BeginNode" =>
           ~ \E n, c \in NodesOf(b) :
               Child(b, n, c) /\ Child(b, n, Len(b) + 1) /\ b[c].name = t.name
  PROVE  NamesDiffer(b2)
<1> DEFINE end == Len(b) + 1
<1> SUFFICES ASSUME NEW n \in NodesOf(b2), NEW c \in NodesOf(b2), NEW d \in NodesOf(b2),
                    Child(b2, n, c), Child(b2, n, d), b2[c].name = b2[d].name
             PROVE  c = d
  BY DEF NamesDiffer
<1>1. /\ end \in Nat \ {0} /\ NodesOf(b) \subseteq 1 .. Len(b) /\ b2[end] = t
      /\ \A m \in NodesOf(b2) : m \in NodesOf(b) \/ (m = end /\ t.tag = "BeginNode")
      /\ \A m \in NodesOf(b) : b2[m] = b[m]
  BY DEF Longer
<1>2. c \in 1 .. end /\ d \in 1 .. end
  BY <1>1
<1>3. Child(b, n, c) /\ Child(b, n, d) /\ n \in NodesOf(b)
  BY <1>2, InsideOfAppend DEF Child, Inside
<1>4. CASE c \in NodesOf(b) /\ d \in NodesOf(b)
  BY <1>1, <1>3, <1>4 DEF NamesDiffer
<1>5. CASE c = end /\ d \in NodesOf(b)
  BY <1>1, <1>3, <1>5
<1>6. CASE c \in NodesOf(b) /\ d = end
  BY <1>1, <1>3, <1>6
<1> QED
  BY <1>1, <1>4, <1>5, <1>6

-----------------------------------------------------------------------------
(***************************************************************************)
(* The tree grows with the blob.                                           *)
(***************************************************************************)
LEMMA AroundIsOver ==
  ASSUME BlobOk, NEW i \in Nat
  PROVE  /\ Around(i) = Over(blob, i)
         /\ Nodes = NodesOf(blob) /\ Props = PropsOf(blob)
<1>1. Nodes = NodesOf(blob) /\ Props = PropsOf(blob)
  BY DEF Nodes, Props, NodesOf, PropsOf, Tag
<1>2. Nodes \subseteq Nat \ {0}
  BY DEF BlobOk, Nodes
<1>3. \A m \in Nodes : m \in Around(i) <=> Inside(blob, m, i)
  BY <1>1, <1>2, AroundIsHigher DEF Inside
<1>4. Around(i) \subseteq Nodes
  BY DEF Around
<1> QED
  BY <1>1, <1>3, <1>4 DEF Over

LEMMA InitTree == Init => TreeOk
<1> SUFFICES ASSUME Init PROVE TreeOk
  OBVIOUS
<1> DEFINE t == BeginNode(<<"", "">>)
<1>1. BlobOk /\ state = "build" /\ blob = <<t>> /\ t.tag = "BeginNode"
  BY InitBlob DEF Init, BeginNode
<1> HIDE DEF t
<1>2. /\ Len(blob) = 1 /\ blob[1] = t /\ DOMAIN blob = {1}
      /\ NodesOf(blob) = {1} /\ PropsOf(blob) = {}
  BY <1>1 DEF NodesOf, PropsOf
<1>3. Height(blob, 1) = 0 /\ Height(blob, 2) = 1
  <2>1. Height(blob, 1 + 1) = Height(blob, 1) + 1
    BY <1>1, <1>2, HeightStep
  <2> QED
    BY <2>1, HeightAtRoot DEF Root
<1>4. Child(blob, 1, 2) /\ ~ Inside(blob, 1, 1)
  BY <1>2, <1>3 DEF Child, Inside
<1>5. HasParents(blob, 2)
  BY <1>2, <1>3, <1>4 DEF HasParents
<1>6. PropsFirst(blob) /\ NamesDiffer(blob)
  BY <1>2 DEF PropsFirst, NamesDiffer
<1> QED
  BY <1>1, <1>2, <1>5, <1>6 DEF TreeOk

LEMMA SiblingsShareTheirParent ==
  ASSUME BlobOk, NEW n, NEW c \in NodesOf(blob), Child(blob, n, c), Child(blob, n, Next1)
  PROVE  c \in Siblings \cap Nodes
<1>1. blob \in Seq(Tokens) /\ Next1 \in Nat /\ c \in Nat /\ c \in DOMAIN blob
  BY DEF BlobOk, Next1, NodesOf
<1>2. Max(Over(blob, c)) = n /\ Max(Over(blob, Next1)) = n /\ n \in Over(blob, c)
  BY <1>1, OverAChild
<1>3. Around(c) # {} /\ Parent(c) = Parent(Next1) /\ c \in Nodes
  BY <1>1, <1>2, AroundIsOver DEF Parent
<1> QED
  BY <1>1, <1>3 DEF Siblings

LEMMA TokenKeepsTree ==
  ASSUME BlobOk, TreeOk, state = "build", Open # {}, NEW t \in Tokens, AddToken(t),
         t.tag = "Prop" => Siblings \cap Nodes = {},
         t.tag = "BeginNode" => \A s \in Siblings \cap Nodes : blob[s].name # t.name
  PROVE  TreeOk'
<1>1. blob' = Append(blob, t) /\ state' = "build" /\ blob \in Seq(Tokens)
  BY DEF AddToken, BlobOk
<1>2. Longer(blob, t, blob')
  BY <1>1, AppendIsLonger
<1>3. Height(blob, Len(blob) + 1) > 0
  BY OpenIsHigh
<1>4. \A n, c \in NodesOf(blob) : Child(blob, n, c) /\ Child(blob, n, Len(blob) + 1)
        => c \in Siblings \cap Nodes
  BY SiblingsShareTheirParent DEF Next1
<1>5. HasParents(blob', Len(blob') + 1)
  BY <1>1, <1>2, <1>3, TokenKeepsParents DEF TreeOk
<1>6. PropsFirst(blob')
  BY <1>1, <1>2, <1>4, TokenKeepsOrder DEF TreeOk
<1>7. NamesDiffer(blob')
  BY <1>1, <1>2, <1>4, TokenKeepsNames DEF TreeOk
<1> QED
  BY <1>1, <1>5, <1>6, <1>7 DEF TreeOk

LEMMA SealKeepsTree ==
  ASSUME BlobOk, TreeOk, Seal
  PROVE  TreeOk'
<1>1. /\ blob' = Append(blob, Finish) /\ state = "build" /\ state' = "ask"
      /\ blob \in Seq(Tokens) /\ Finish \in Tokens /\ Finish.tag = "End"
  BY TokensMade DEF Seal, BlobOk
<1>2. Longer(blob, Finish, blob')
  BY <1>1, AppendIsLonger
<1> DEFINE t == Finish
<1> HIDE DEF t
<1>3. Longer(blob, t, blob') /\ t.tag = "End"
  BY <1>1, <1>2 DEF t
<1>4. HasParents(blob', Len(blob'))
  BY <1>1, <1>3, SealKeepsParents DEF TreeOk
<1>5. PropsFirst(blob')
  BY <1>1, <1>3, TokenKeepsOrder DEF TreeOk
<1>6. NamesDiffer(blob')
  BY <1>1, <1>3, TokenKeepsNames DEF TreeOk
<1> QED
  BY <1>1, <1>4, <1>5, <1>6 DEF TreeOk

LEMMA BuildKeepsTree ==
  ASSUME BlobOk, TreeOk, Build
  PROVE  TreeOk'
<1>1. CASE AddNode
  <2>1. PICK n \in Names : /\ \A s \in Siblings \cap Nodes : blob[s].name # n
                           /\ AddToken(BeginNode(n))
    BY <1>1 DEF AddNode
  <2>2. /\ BeginNode(n) \in Tokens /\ BeginNode(n).tag = "BeginNode" /\ BeginNode(n).name = n
        /\ state = "build" /\ Open # {}
    BY <1>1, TokensMade DEF AddNode, NodeNames, MayAdd, BeginNode
  <2> QED
    BY <2>1, <2>2, TokenKeepsTree
<1>2. CASE AddProp
  <2>1. PICK p \in PropNames, v \in Values \cup {"cells"} : AddToken(Prop(p, v))
    BY <1>2 DEF AddProp
  <2>2. /\ Prop(p, v) \in Tokens /\ Prop(p, v).tag = "Prop" /\ Siblings \cap Nodes = {}
        /\ state = "build" /\ Open # {}
    BY <1>2, TokensMade DEF AddProp, MayAdd
  <2> QED
    BY <2>1, <2>2, TokenKeepsTree
<1>3. CASE AddNop
  <2>1. Nop \in Tokens /\ Nop.tag = "Nop" /\ state = "build" /\ Open # {} /\ AddToken(Nop)
    BY <1>3, TokensMade DEF AddNop, MayAdd
  <2> QED
    BY <2>1, TokenKeepsTree
<1>4. CASE AddEnd
  <2>1. /\ EndNode \in Tokens /\ EndNode.tag = "EndNode" /\ state = "build" /\ Open # {}
        /\ AddToken(EndNode)
    BY <1>4, TokensMade DEF AddEnd, MayAdd
  <2> QED
    BY <2>1, TokenKeepsTree
<1>5. CASE Seal
  BY <1>5, SealKeepsTree
<1> QED
  BY <1>1, <1>2, <1>3, <1>4, <1>5 DEF Build

-----------------------------------------------------------------------------
(***************************************************************************)
(* What the walks look for, and where it can still be.                     *)
(***************************************************************************)
QueryFits(b, q) ==
  /\ q.fn \in {"find_node", "find_compatible", "find_property", "print"}
  /\ q.node \in NodesOf(b)
  /\ q.fn = "find_node" => q.path \in Paths
  /\ q.fn = "print" => q.node = Root

\* The component of the path that a node is compared with.
Asked(b, q, m) == q.path[Depths(b, m) - Depths(b, q.node)]

NodeAt(b, q, h) ==
  /\ Inside(b, q.node, h)
  /\ Depths(b, h) - Depths(b, q.node) = Len(q.path)
  /\ \A m \in Over(b, h) \cup {h} : Inside(b, q.node, m) =>
       \/ b[m].name = Asked(b, q, m)
       \/ /\ q.as_prefix /\ m = h
          /\ Asked(b, q, m)[2] = "" /\ b[m].name[1] = Asked(b, q, m)[1]
CompatibleAt(b, q, p) == Inside(b, q.node, p) /\ b[p] = Prop("compatible", q.str)
PropertyAt(b, q, p) == Child(b, q.node, p) /\ b[p].name = q.name

\* The tokens at which a walk has found what it looks for, and its answer there.
Hits(b, q) ==
  CASE q.fn = "find_node"       -> {h \in NodesOf(b) : NodeAt(b, q, h)}
    [] q.fn = "find_compatible" -> {p \in PropsOf(b) : CompatibleAt(b, q, p)}
    [] q.fn = "find_property"   -> {p \in PropsOf(b) : PropertyAt(b, q, p)}
    [] OTHER                    -> {}
AnswerAt(b, q, h) == IF q.fn = "find_compatible" THEN Max(Over(b, h)) ELSE h
FirstOf(S) == IF S = {} THEN Nothing ELSE Min(S)
Answered(b, q, value) == value = FirstOf({AnswerAt(b, q, h) : h \in Hits(b, q)})

\* No hit is behind a call that searches, and none in a node that is skipped.
Ahead(b, hits, calls) ==
  \A k \in 1 .. Len(calls) : \A h \in hits :
    IF calls[k].fn = "skip"
    THEN h # calls[k].node /\ ~ Inside(b, calls[k].node, h)
    ELSE h >= calls[k].ptr

\* find_node has come down the path to a node that is around every hit.
Finding(b, q, calls) ==
  LET c == calls[1].node
  IN /\ calls[1].fn = "find_node" /\ \A k \in 2 .. Len(calls) : calls[k].fn = "skip"
     /\ c = q.node \/ Inside(b, q.node, c)
     /\ Depths(b, c) - Depths(b, q.node) \in 0 .. Len(q.path) - 1
     /\ \A m \in Over(b, c) \cup {c} :
          Inside(b, q.node, m) => b[m].name = Asked(b, q, m)
     /\ \A h \in Hits(b, q) : Inside(b, c, h)

Comparing(b, q, calls) ==
  /\ calls[1].node = q.node
  /\ \A k \in 2 .. Len(calls) : Inside(b, q.node, calls[k].node)

LookingUp(b, q, calls) == Len(calls) = 1 /\ calls[1].fn = q.fn /\ calls[1].node = q.node

\* The lines that are printed before a token is reached.
LinesTo(b, ptr) == {<<i, Depths(b, i)>> : i \in {j \in NodesOf(b) \cup PropsOf(b) : j < ptr}}
InOrder(lines) == \A j, k \in DOMAIN lines : j < k => lines[j][1] < lines[k][1]

Printing(b, calls, lines) ==
  /\ calls[1].node = Root
  /\ \A k \in 1 .. Len(calls) : calls[k].fn = "print" /\ Depths(b, calls[k].node) = k - 1
  /\ lines \in Seq(Nat \X Nat) /\ InOrder(lines)
  /\ Range(lines) = LinesTo(b, calls[Len(calls)].ptr)

Searching(b, q, calls, lines) ==
  /\ Ahead(b, Hits(b, q), calls)
  /\ q.fn = "find_node" => Finding(b, q, calls)
  /\ q.fn = "find_compatible" => Comparing(b, q, calls)
  /\ q.fn = "find_property" => LookingUp(b, q, calls)
  /\ q.fn = "print" => Printing(b, calls, lines)

Found(b, q, value, lines) ==
  /\ Answered(b, q, value)
  /\ q.fn = "print" => InOrder(lines) /\ Range(lines) = LinesTo(b, Len(b) + 1)

SearchInv ==
  /\ TreeOk
  /\ state \in {"walk", "done"} => QueryFits(blob, query)
  /\ state = "walk" => Searching(blob, query, stack, printed)
  /\ state = "done" => Found(blob, query, result, printed)

LEMMA HitsAre ==
  ASSUME NEW b, NEW q
  PROVE  /\ Hits(b, q) \subseteq NodesOf(b) \cup PropsOf(b)
         /\ q.fn = "find_node" =>
              \A h : h \in Hits(b, q) <=> h \in NodesOf(b) /\ NodeAt(b, q, h)
         /\ q.fn = "find_compatible" =>
              \A p : p \in Hits(b, q) <=> p \in PropsOf(b) /\ CompatibleAt(b, q, p)
         /\ q.fn = "find_property" =>
              \A p : p \in Hits(b, q) <=> p \in PropsOf(b) /\ PropertyAt(b, q, p)
         /\ q.fn = "print" => Hits(b, q) = {}
<1>1. CASE q.fn = "find_node"
  BY <1>1 DEF Hits
<1>2. CASE q.fn = "find_compatible"
  BY <1>2 DEF Hits
<1>3. CASE q.fn = "find_property"
  BY <1>3 DEF Hits
<1>4. CASE q.fn \notin {"find_node", "find_compatible", "find_property"}
  <2>1. Hits(b, q) = {}
    BY <1>4 DEF Hits
  <2> QED
    BY <1>4, <2>1
<1> QED
  BY <1>1, <1>2, <1>3, <1>4

LEMMA LeastIsMin ==
  ASSUME NEW S \in SUBSET Nat, NEW x \in S, \A y \in S : x <= y
  PROVE  FirstOf(S) = x
<1>1. Min(S) \in S /\ \A y \in S : Min(S) =< y
  BY DEF Min
<1>2. Min(S) \in Nat /\ x \in Nat /\ Min(S) <= x /\ x <= Min(S)
  BY <1>1
<1> QED
  BY <1>2 DEF FirstOf

LEMMA ChildIsInNode ==
  ASSUME BlobOk, NEW n \in Nodes, NEW i
  PROVE  Child(blob, n, i) <=> InNode(n, i)
BY AroundIsOver DEF Child, Inside, InNode

-----------------------------------------------------------------------------
(***************************************************************************)
(* The steps of the calls.                                                 *)
(***************************************************************************)
\* The calls after the step, where they differ.
LEMMA MovedCalls ==
  ASSUME WalkInv, state = "walk", NEW p, MoveTo(p)
  PROVE  /\ Len(stack') = Len(stack) /\ \A k \in 1 .. Len(stack) - 1 : stack'[k] = stack[k]
         /\ stack'[Len(stack)].fn = Top.fn /\ stack'[Len(stack)].node = Top.node
         /\ stack'[Len(stack)].ptr = p
<1> DEFINE n == Len(stack)
<1>1. /\ n \in Nat /\ n > 0 /\ stack \in Seq(Frames) /\ Top = stack[n] /\ Top \in Frames
      /\ stack' = [stack EXCEPT ![n].ptr = p]
  BY TopOk DEF MoveTo
<1> DEFINE top == [Top EXCEPT !.ptr = p]
<1>2. top.node = Top.node /\ top.fn = Top.fn /\ top.ptr = p /\ stack' = [stack EXCEPT ![n] = top]
  BY <1>1 DEF Frames
<1> HIDE DEF top
<1>3. Len(stack') = n /\ stack'[n] = top /\ \A k \in 1 .. n - 1 : stack'[k] = stack[k]
  BY <1>1, <1>2
<1> QED
  BY <1>2, <1>3

LEMMA MadeCall ==
  ASSUME WalkInv, state = "walk", NEW fn, NEW m, Call(fn, m)
  PROVE  /\ Len(stack') = Len(stack) + 1 /\ \A k \in 1 .. Len(stack) : stack'[k] = stack[k]
         /\ stack'[Len(stack) + 1].fn = fn /\ stack'[Len(stack) + 1].node = m
         /\ stack'[Len(stack) + 1].ptr = m + 1
<1> DEFINE n == Len(stack)
           new == Frame(fn, m)
<1>1. n \in Nat /\ n > 0 /\ stack \in Seq(Frames) /\ stack' = Append(stack, new)
  BY TopOk DEF Call
<1>2. new.fn = fn /\ new.node = m /\ new.ptr = m + 1
  BY DEF Frame
<1> HIDE DEF new
<1>3. Len(stack') = n + 1 /\ stack'[n + 1] = new /\ \A k \in 1 .. n : stack'[k] = stack[k]
  BY <1>1
<1> QED
  BY <1>2, <1>3

LEMMA ReturnedCalls ==
  ASSUME WalkInv, state = "walk", Len(stack) > 1, NEW p, ReturnPtr(p)
  PROVE  LET n == Len(stack) - 1
         IN /\ Len(stack') = n /\ \A k \in 1 .. n - 1 : stack'[k] = stack[k]
            /\ stack'[n].fn = stack[n].fn /\ stack'[n].node = stack[n].node
            /\ stack'[n].ptr = p /\ stack[n].ptr = Top.node
<1> DEFINE n == Len(stack) - 1
           caller == stack[n]
           new == [caller EXCEPT !.ptr = p]
<1>1. /\ n \in Nat /\ n > 0 /\ stack \in Seq(Frames) /\ Top = stack[n + 1] /\ caller \in Frames
      /\ stack' = [Front(stack) EXCEPT ![n].ptr = p]
  BY TopOk DEF ReturnPtr
<1>2. new.fn = caller.fn /\ new.node = caller.node /\ new.ptr = p
  BY <1>1 DEF Frames
<1>3. caller.ptr = Top.node
  <2>1. n \in 1 .. Len(stack) - 1
    BY <1>1
  <2> QED
    BY <1>1, <2>1 DEF WalkInv, CallsOk
<1>4. /\ Front(stack) \in Seq(Frames) /\ Len(Front(stack)) = n
      /\ \A k \in 1 .. n : Front(stack)[k] = stack[k]
  BY <1>1 DEF Front
<1>5. stack' = [Front(stack) EXCEPT ![n] = new]
  <2>1. n \in 1 .. n /\ Front(stack)[n] = caller
    BY <1>1, <1>4
  <2> QED
    BY <1>1, <2>1
<1> HIDE DEF new
<1>6. Len(stack') = n /\ stack'[n] = new /\ \A k \in 1 .. n - 1 : stack'[k] = stack[k]
  BY <1>1, <1>4, <1>5
<1> QED
  BY <1>2, <1>3, <1>6

LEMMA SkippedCalls ==
  ASSUME WalkInv, state = "walk", SkipTried
  PROVE  /\ Len(stack') = Len(stack) /\ \A k \in 1 .. Len(stack) - 1 : stack'[k] = stack[k]
         /\ stack'[Len(stack)].fn = "skip" /\ stack'[Len(stack)].node = Top.node
<1> DEFINE n == Len(stack)
           new == Frame("skip", Top.node)
<1>1. n \in Nat /\ n > 0 /\ stack \in Seq(Frames) /\ stack' = [stack EXCEPT ![n] = new]
  BY TopOk DEF SkipTried
<1>2. new.fn = "skip" /\ new.node = Top.node
  BY DEF Frame
<1> HIDE DEF new
<1>3. Len(stack') = n /\ stack'[n] = new /\ \A k \in 1 .. n - 1 : stack'[k] = stack[k]
  BY <1>1
<1> QED
  BY <1>2, <1>3

\* What is known of the tree and of the query while a call is made.
LEMMA TreeHere ==
  ASSUME WalkInv, SearchInv, state = "walk"
  PROVE  /\ blob \in Seq(Tokens) /\ DOMAIN blob = 1 .. Len(blob) /\ Len(blob) \in Nat
         /\ NodesOf(blob) \subseteq DOMAIN blob /\ PropsOf(blob) \subseteq DOMAIN blob
         /\ HasParents(blob, Len(blob)) /\ PropsFirst(blob) /\ NamesDiffer(blob)
         /\ QueryFits(blob, query) /\ Searching(blob, query, stack, printed)
<1>1. blob \in Seq(Tokens) /\ Len(blob) \in Nat /\ DOMAIN blob = 1 .. Len(blob)
  BY DEF WalkInv, BlobOk
<1>2. HasParents(blob, Len(blob)) /\ PropsFirst(blob) /\ NamesDiffer(blob)
  BY DEF SearchInv, TreeOk
<1> QED
  BY <1>1, <1>2 DEF SearchInv, NodesOf, PropsOf

LEMMA CallHere ==
  ASSUME WalkInv, state = "walk"
  PROVE  /\ Len(stack) \in Nat /\ Len(stack) > 0 /\ Top = stack[Len(stack)]
         /\ Top.ptr \in DOMAIN blob /\ Top.node \in NodesOf(blob)
         /\ Child(blob, Top.node, Top.ptr) /\ Inside(blob, Top.node, Top.ptr)
         /\ Tag(Top.ptr) = "BeginNode" <=> Top.ptr \in NodesOf(blob)
         /\ Tag(Top.ptr) = "Prop" <=> Top.ptr \in PropsOf(blob)
<1>1. /\ Len(stack) \in Nat /\ Len(stack) > 0 /\ Top = stack[Len(stack)]
      /\ Top.ptr \in DOMAIN blob /\ Top.node \in Nodes /\ InNode(Top.node, Top.ptr)
  BY TopOk
<1>2. BlobOk /\ Nodes = NodesOf(blob)
  BY DEF WalkInv, Nodes, NodesOf, Tag
<1>3. Child(blob, Top.node, Top.ptr)
  BY <1>1, <1>2, ChildIsInNode
<1> QED
  BY <1>1, <1>2, <1>3 DEF Child, NodesOf, PropsOf, Tag

LEMMA HitsAreTokens ==
  ASSUME WalkInv, SearchInv, state = "walk", NEW h \in Hits(blob, query)
  PROVE  h \in 1 .. Len(blob) /\ h \in Nat /\ Tag(h) \in {"BeginNode", "Prop"}
<1>1. h \in NodesOf(blob) \cup PropsOf(blob)
  BY HitsAre
<1> QED
  BY <1>1, TreeHere DEF NodesOf, PropsOf, Tag

\* A node that is skipped, and a token of one, is no hit.
LEMMA NoHitInSkip ==
  ASSUME WalkInv, SearchInv, state = "walk", Top.fn = "skip", NEW i \in Nat,
         Inside(blob, Top.node, i)
  PROVE  i \notin Hits(blob, query)
<1>1. Len(stack) \in 1 .. Len(stack) /\ stack[Len(stack)] = Top
  BY CallHere
<1>2. Ahead(blob, Hits(blob, query), stack)
  BY TreeHere DEF Searching
<1> QED
  BY <1>1, <1>2 DEF Ahead

LEMMA HitsAhead ==
  ASSUME WalkInv, SearchInv, state = "walk", Top.fn # "skip", NEW h \in Hits(blob, query)
  PROVE  h >= Top.ptr
<1>1. Len(stack) \in 1 .. Len(stack) /\ stack[Len(stack)] = Top
  BY CallHere
<1>2. Ahead(blob, Hits(blob, query), stack)
  BY TreeHere DEF Searching
<1> QED
  BY <1>1, <1>2 DEF Ahead

LEMMA MoveKeepsAhead ==
  ASSUME WalkInv, SearchInv, state = "walk", Top.ptr \notin Hits(blob, query),
         MoveTo(Top.ptr + 1)
  PROVE  Ahead(blob, Hits(blob, query), stack')
<1> DEFINE n == Len(stack)
<1>1. n \in Nat /\ n > 0 /\ Top = stack[n] /\ Top.ptr \in Nat
  BY CallHere, TreeHere
<1>2. /\ Len(stack') = n /\ \A k \in 1 .. n - 1 : stack'[k] = stack[k]
      /\ stack'[n].fn = Top.fn /\ stack'[n].node = Top.node /\ stack'[n].ptr = Top.ptr + 1
  BY MovedCalls
<1>3. Ahead(blob, Hits(blob, query), stack)
  BY TreeHere DEF Searching
<1> SUFFICES ASSUME NEW k \in 1 .. n, NEW h \in Hits(blob, query)
             PROVE  IF stack'[k].fn = "skip"
                    THEN h # stack'[k].node /\ ~ Inside(blob, stack'[k].node, h)
                    ELSE h >= stack'[k].ptr
  BY <1>2 DEF Ahead
<1>4. CASE k # n
  <2>1. k \in 1 .. n - 1
    BY <1>1, <1>4
  <2> QED
    BY <1>2, <1>3, <2>1 DEF Ahead
<1>5. CASE k = n
  <2>1. h \in Nat /\ h # Top.ptr
    BY HitsAreTokens
  <2>2. IF Top.fn = "skip" THEN h # Top.node /\ ~ Inside(blob, Top.node, h) ELSE h >= Top.ptr
    BY <1>1, <1>3, <1>5 DEF Ahead
  <2> QED
    BY <1>1, <1>2, <1>5, <2>1, <2>2
<1> QED
  BY <1>4, <1>5

LEMMA CallKeepsAhead ==
  ASSUME WalkInv, SearchInv, state = "walk", Tag(Top.ptr) = "BeginNode",
         Top.ptr \notin Hits(blob, query), NEW fn, Call(fn, Top.ptr),
         fn # "skip" => Top.fn # "skip",
         fn = "skip" /\ Top.fn # "skip" =>
           \A h \in Hits(blob, query) : ~ Inside(blob, Top.ptr, h)
  PROVE  Ahead(blob, Hits(blob, query), stack')
<1> DEFINE n == Len(stack)
           m == Top.ptr
<1>1. n \in Nat /\ n > 0 /\ Top = stack[n] /\ m \in Nat /\ Inside(blob, Top.node, m)
  BY CallHere, TreeHere
<1>2. /\ Len(stack') = n + 1 /\ \A k \in 1 .. n : stack'[k] = stack[k]
      /\ stack'[n + 1].fn = fn /\ stack'[n + 1].node = m /\ stack'[n + 1].ptr = m + 1
  BY MadeCall
<1>3. Ahead(blob, Hits(blob, query), stack)
  BY TreeHere DEF Searching
<1> SUFFICES ASSUME NEW k \in 1 .. n + 1, NEW h \in Hits(blob, query)
             PROVE  IF stack'[k].fn = "skip"
                    THEN h # stack'[k].node /\ ~ Inside(blob, stack'[k].node, h)
                    ELSE h >= stack'[k].ptr
  BY <1>2 DEF Ahead
<1>4. CASE k # n + 1
  <2>1. k \in 1 .. n
    BY <1>1, <1>4
  <2> QED
    BY <1>2, <1>3, <2>1 DEF Ahead
<1>5. CASE k = n + 1
  <2>1. h \in Nat /\ h # m
    BY HitsAreTokens
  <2>2. CASE fn # "skip"
    <3>1. h >= m
      BY <2>2, HitsAhead
    <3> QED
      BY <1>1, <1>2, <1>5, <2>1, <2>2, <3>1
  <2>3. CASE fn = "skip" /\ Top.fn # "skip"
    BY <1>2, <1>5, <2>1, <2>3
  <2>4. CASE fn = "skip" /\ Top.fn = "skip"
    <3>1. ~ Inside(blob, Top.node, h)
      BY <2>1, <2>4, NoHitInSkip
    <3>2. ~ Inside(blob, m, h)
      BY <1>1, <2>1, <3>1, TreeHere, InsideTransitive
    <3> QED
      BY <1>2, <1>5, <2>1, <2>4, <3>2
  <2> QED
    BY <2>2, <2>3, <2>4
<1> QED
  BY <1>4, <1>5

LEMMA ReturnKeepsAhead ==
  ASSUME WalkInv, SearchInv, state = "walk", Len(stack) > 1, Top.fn = "skip",
         Tag(Top.ptr) = "EndNode", ReturnPtr(Top.ptr + 1)
  PROVE  Ahead(blob, Hits(blob, query), stack')
<1> DEFINE n == Len(stack) - 1
           i == Top.ptr
<1>1. /\ n \in Nat /\ n > 0 /\ Top = stack[n + 1] /\ i \in Nat
      /\ Inside(blob, Top.node, i) /\ Top.node \in Nat
  BY CallHere, TreeHere
<1>2. /\ Len(stack') = n /\ \A k \in 1 .. n - 1 : stack'[k] = stack[k]
      /\ stack'[n].fn = stack[n].fn /\ stack'[n].node = stack[n].node
      /\ stack'[n].ptr = i + 1 /\ stack[n].ptr = Top.node
  BY ReturnedCalls
<1>3. Ahead(blob, Hits(blob, query), stack) /\ \A k \in 1 .. n : k \in 1 .. Len(stack)
  BY <1>1, TreeHere DEF Searching
<1> SUFFICES ASSUME NEW k \in 1 .. n, NEW h \in Hits(blob, query)
             PROVE  IF stack'[k].fn = "skip"
                    THEN h # stack'[k].node /\ ~ Inside(blob, stack'[k].node, h)
                    ELSE h >= stack'[k].ptr
  BY <1>2 DEF Ahead
<1>4. CASE k # n
  <2>1. k \in 1 .. n - 1
    BY <1>1, <1>4
  <2> QED
    BY <1>2, <1>3, <2>1 DEF Ahead
<1>5. CASE k = n /\ stack[n].fn = "skip"
  BY <1>2, <1>3, <1>5 DEF Ahead
<1>6. CASE k = n /\ stack[n].fn # "skip"
  <2>1. h \in Nat /\ h >= Top.node /\ h # Top.node /\ ~ Inside(blob, Top.node, h)
    <3>1. h >= stack[n].ptr
      BY <1>3, <1>6 DEF Ahead
    <3>2. n + 1 \in 1 .. Len(stack)
      BY <1>1
    <3>3. h # Top.node /\ ~ Inside(blob, Top.node, h)
      BY <1>1, <1>3, <3>2 DEF Ahead
    <3> QED
      BY <1>2, <3>1, <3>3, HitsAreTokens
  <2>2. ~ (h <= i)
    BY <1>1, <2>1, TreeHere, InsideEarlier
  <2> QED
    BY <1>1, <1>2, <1>6, <2>1, <2>2
<1> QED
  BY <1>4, <1>5, <1>6

LEMMA SkipKeepsAhead ==
  ASSUME WalkInv, SearchInv, state = "walk", Top.fn # "skip", Tag(Top.ptr) = "EndNode", SkipTried
  PROVE  Ahead(blob, Hits(blob, query), stack')
<1> DEFINE n == Len(stack)
<1>1. /\ n \in Nat /\ n > 0 /\ Top = stack[n] /\ Top.ptr \in Nat /\ Top.node \in Nat
      /\ Child(blob, Top.node, Top.ptr) /\ Top.node < Top.ptr
  BY CallHere, TreeHere DEF Inside
<1>2. /\ Len(stack') = n /\ \A k \in 1 .. n - 1 : stack'[k] = stack[k]
      /\ stack'[n].fn = "skip" /\ stack'[n].node = Top.node
  BY SkippedCalls
<1>3. Ahead(blob, Hits(blob, query), stack)
  BY TreeHere DEF Searching
<1> SUFFICES ASSUME NEW k \in 1 .. n, NEW h \in Hits(blob, query)
             PROVE  IF stack'[k].fn = "skip"
                    THEN h # stack'[k].node /\ ~ Inside(blob, stack'[k].node, h)
                    ELSE h >= stack'[k].ptr
  BY <1>2 DEF Ahead
<1>4. CASE k # n
  <2>1. k \in 1 .. n - 1
    BY <1>1, <1>4
  <2> QED
    BY <1>2, <1>3, <2>1 DEF Ahead
<1>5. CASE k = n
  <2>1. h \in Nat /\ h >= Top.ptr /\ h # Top.ptr
    BY HitsAreTokens, HitsAhead
  <2>2. ~ Inside(blob, Top.node, h)
    <3>1. blob[Top.ptr].tag = "EndNode" /\ blob \in Seq(Tokens)
      BY TreeHere DEF Tag
    <3>2. Inside(blob, Top.node, h) => h < Top.ptr
      BY <1>1, <2>1, <3>1, EndsThere
    <3> QED
      BY <1>1, <2>1, <3>2
  <2> QED
    BY <1>1, <1>2, <1>5, <2>1, <2>2
<1> QED
  BY <1>4, <1>5

-----------------------------------------------------------------------------
(***************************************************************************)
(* Nothing is left behind the end of a node, and what is first is found.   *)
(***************************************************************************)
LEMMA NothingIsFound ==
  ASSUME NEW b, NEW q, Hits(b, q) = {}, q.fn # "print", NEW lines
  PROVE  Found(b, q, Nothing, lines)
<1>1. {AnswerAt(b, q, h) : h \in Hits(b, q)} = {}
  OBVIOUS
<1> QED
  BY <1>1 DEF Found, Answered, FirstOf

LEMMA HitIsFound ==
  ASSUME WalkInv, SearchInv, state = "walk", query.fn \in {"find_node", "find_property"},
         Top.fn # "skip", Top.ptr \in Hits(blob, query), NEW lines
  PROVE  Found(blob, query, Top.ptr, lines)
<1> DEFINE H == Hits(blob, query)
<1>1. {AnswerAt(blob, query, h) : h \in H} = H
  BY DEF AnswerAt
<1>2. H \in SUBSET Nat /\ \A h \in H : Top.ptr <= h
  <2>1. ASSUME NEW h \in H PROVE h \in Nat /\ Top.ptr <= h
    BY HitsAreTokens, HitsAhead
  <2>2. Top.ptr \in Nat
    BY HitsAreTokens
  <2> QED
    BY <2>1, <2>2
<1> HIDE DEF H
<1>3. FirstOf(H) = Top.ptr
  BY <1>2, LeastIsMin DEF H
<1> QED
  BY <1>1, <1>3 DEF Found, Answered, H

LEMMA NoHitAtEnd ==
  ASSUME WalkInv, SearchInv, state = "walk", Top.fn # "skip", Tag(Top.ptr) = "EndNode",
         NEW h \in Hits(blob, query)
  PROVE  ~ Inside(blob, Top.node, h)
<1>1. h \in Nat /\ h >= Top.ptr /\ h # Top.ptr
  BY HitsAreTokens, HitsAhead
<1>2. /\ blob[Top.ptr].tag = "EndNode" /\ blob \in Seq(Tokens) /\ Top.ptr \in Nat
      /\ Child(blob, Top.node, Top.ptr)
  BY TreeHere, CallHere DEF Tag
<1>3. Inside(blob, Top.node, h) => h < Top.ptr
  BY <1>1, <1>2, EndsThere
<1> QED
  BY <1>1, <1>2, <1>3

-----------------------------------------------------------------------------
(***************************************************************************)
(* find_node.                                                              *)
(***************************************************************************)
\* The node the search is at, and the component it is compared with.
LEMMA FindingAt ==
  ASSUME WalkInv, SearchInv, Running("find_node", "BeginNode")
  PROVE  LET c == Top.node
             i == Top.ptr
         IN /\ state = "walk" /\ query.fn = "find_node" /\ Len(stack) = 1
            /\ Tag(i) = "BeginNode" /\ i \in NodesOf(blob) /\ Child(blob, c, i)
            /\ Top = stack[1] /\ Top.fn = "find_node"
            /\ c = query.node \/ Inside(blob, query.node, c)
            /\ Inside(blob, query.node, i)
            /\ Depths(blob, c) \in Nat /\ Depths(blob, i) = Depths(blob, c) + 1
            /\ Depths(blob, i) - Depths(blob, query.node) = Matched + 1
            /\ Matched \in Nat /\ Len(query.path) \in Nat /\ Matched + 1 <= Len(query.path)
            /\ Matches <=> \/ blob[i].name = Asked(blob, query, i)
                           \/ /\ query.as_prefix /\ IsTerminal
                              /\ Asked(blob, query, i)[2] = ""
                              /\ blob[i].name[1] = Asked(blob, query, i)[1]
<1> DEFINE c == Top.node
           i == Top.ptr
           q == query.node
<1>1. state = "walk" /\ query.fn = "find_node" /\ Tag(i) = "BeginNode" /\ Top.fn = "find_node"
  BY RunningOk
<1>2. /\ i \in NodesOf(blob) /\ Child(blob, c, i) /\ Inside(blob, c, i) /\ Len(stack) \in Nat
      /\ Len(stack) > 0 /\ Top = stack[Len(stack)] /\ c \in NodesOf(blob)
  BY <1>1, CallHere
<1>3. Finding(blob, query, stack)
  BY <1>1, TreeHere DEF Searching
<1>4. Len(stack) = 1
  <2>1. SUFFICES ASSUME Len(stack) # 1 PROVE FALSE
    OBVIOUS
  <2>2. Len(stack) > 1
    BY <1>1, <2>1, SomeIsNested
  <2>3. Len(stack) \in 2 .. Len(stack)
    BY <1>2, <2>2
  <2>4. Top.fn = "skip"
    BY <1>2, <1>3, <2>3 DEF Finding
  <2> QED
    BY <1>1, <2>4
<1>5. c = q \/ Inside(blob, q, c)
  BY <1>2, <1>3, <1>4 DEF Finding
<1>6. /\ blob \in Seq(Tokens) /\ i \in Nat /\ c \in Nat /\ q \in Nat /\ BlobOk
      /\ query.path \in Paths
  BY <1>1, <1>2, TreeHere DEF WalkInv, QueryFits
<1>7. Inside(blob, q, i)
  BY <1>2, <1>5, <1>6, InsideTransitive
<1>8. Depths(blob, c) \in Nat /\ Depths(blob, i) = Depths(blob, c) + 1
  BY <1>2, <1>6, OverAChild
<1>9. Matched = Depths(blob, c) - Depths(blob, q)
  <2>1. Around(c) = Over(blob, c) /\ Around(q) = Over(blob, q)
    BY <1>6, AroundIsOver
  <2> QED
    BY <2>1 DEF Matched, Depths
<1>10. Matched \in Nat /\ Len(query.path) \in Nat /\ Matched + 1 <= Len(query.path)
  <2>1. Len(query.path) \in Nat
    BY <1>6 DEF Paths
  <2>2. Matched \in 0 .. Len(query.path) - 1
    BY <1>2, <1>3, <1>4, <1>9 DEF Finding
  <2> QED
    BY <2>1, <2>2
<1>11. Depths(blob, i) - Depths(blob, q) = Matched + 1
  <2>1. Depths(blob, q) \in Nat
    BY <1>6, <1>7, OverIsFinite DEF Depths
  <2> QED
    BY <1>8, <1>9, <2>1
<1>12. Asked(blob, query, i) = query.path[Matched + 1]
  BY <1>11 DEF Asked
<1> QED
  BY <1>1, <1>2, <1>4, <1>5, <1>7, <1>8, <1>10, <1>11, <1>12
     DEF Matches, MatchesNode, Token

\* A node that matches the last component is the one that is looked for.
LEMMA LastMatchIsFound ==
  ASSUME WalkInv, SearchInv, Running("find_node", "BeginNode"), Matches, IsTerminal
  PROVE  Top.ptr \in Hits(blob, query)
<1> DEFINE c == Top.node
           i == Top.ptr
           q == query.node
<1>1. /\ state = "walk" /\ query.fn = "find_node" /\ Len(stack) = 1 /\ Top = stack[1]
      /\ i \in NodesOf(blob) /\ Child(blob, c, i) /\ Inside(blob, q, i)
      /\ Depths(blob, i) - Depths(blob, q) = Matched + 1
  BY FindingAt
<1>2. \/ blob[i].name = Asked(blob, query, i)
      \/ /\ query.as_prefix
         /\ Asked(blob, query, i)[2] = "" /\ blob[i].name[1] = Asked(blob, query, i)[1]
  BY FindingAt
<1>3. Over(blob, i) = Over(blob, c) \cup {c}
  BY <1>1, OverAChild, TreeHere
<1>4. \A m \in Over(blob, c) \cup {c} :
        Inside(blob, q, m) => blob[m].name = Asked(blob, query, m)
  BY <1>1, TreeHere DEF Searching, Finding
<1>5. NodeAt(blob, query, i)
  BY <1>1, <1>2, <1>3, <1>4 DEF NodeAt, IsTerminal
<1> QED
  BY <1>1, <1>5, HitsAre

\* What is looked for lies in the node that matches.
LEMMA HitsAreInMatch ==
  ASSUME WalkInv, SearchInv, Running("find_node", "BeginNode"), Matches, ~ IsTerminal,
         NEW h \in Hits(blob, query)
  PROVE  Inside(blob, Top.ptr, h)
<1> DEFINE c == Top.node
           i == Top.ptr
           q == query.node
<1>1. /\ state = "walk" /\ query.fn = "find_node" /\ Len(stack) = 1 /\ Top = stack[1]
      /\ i \in NodesOf(blob) /\ Child(blob, c, i)
      /\ c = q \/ Inside(blob, q, c)
      /\ Depths(blob, c) \in Nat /\ Depths(blob, i) = Depths(blob, c) + 1
      /\ Depths(blob, i) - Depths(blob, q) = Matched + 1
  BY FindingAt
<1>2. blob[i].name = Asked(blob, query, i)
  BY FindingAt
<1>3. /\ h \in NodesOf(blob) /\ NodeAt(blob, query, h) /\ h \in 1 .. Len(blob) /\ h \in Nat
      /\ blob \in Seq(Tokens) /\ NamesDiffer(blob) /\ HasParents(blob, Len(blob))
  BY <1>1, HitsAre, HitsAreTokens, TreeHere
<1>4. Inside(blob, c, h)
  BY <1>1, TreeHere DEF Searching, Finding
<1>5. ~ Child(blob, c, h)
  <2>1. SUFFICES ASSUME Child(blob, c, h) PROVE FALSE
    OBVIOUS
  <2>2. Depths(blob, h) = Depths(blob, i)
    BY <1>1, <1>3, <2>1, OverAChild
  <2> QED
    BY <1>1, <1>3, <2>2 DEF NodeAt, IsTerminal
<1>6. PICK k \in NodesOf(blob) : Child(blob, c, k) /\ Inside(blob, k, h)
  <2>1. c \in NodesOf(blob)
    BY <1>4 DEF Inside
  <2> QED
    BY <1>3, <1>4, <1>5, <2>1 DEF HasParents
<1>7. k \in Nat /\ Depths(blob, k) = Depths(blob, i) /\ Inside(blob, c, k)
  <2>1. k \in Nat
    BY <1>3, <1>6, InsideIsBelow
  <2> QED
    BY <1>1, <1>3, <1>6, <2>1, OverAChild DEF Child
<1>8. Inside(blob, q, k)
  BY <1>1, <1>3, <1>7, InsideTransitive
<1>9. Asked(blob, query, k) = Asked(blob, query, i)
  BY <1>7 DEF Asked
<1>10. blob[k].name = Asked(blob, query, k)
  <2>1. k \in Over(blob, h) /\ k # h
    BY <1>3, <1>6 DEF Over, Inside
  <2> QED
    BY <1>3, <1>8, <2>1 DEF NodeAt
<1>11. k = i
  <2>1. c \in NodesOf(blob) /\ blob[k].name = blob[i].name
    BY <1>2, <1>4, <1>9, <1>10 DEF Inside
  <2> QED
    BY <1>1, <1>3, <1>6, <2>1 DEF NamesDiffer
<1> QED
  BY <1>6, <1>11

\* Nothing that is looked for is in a node that does not match.
LEMMA NoHitInOther ==
  ASSUME WalkInv, SearchInv, Running("find_node", "BeginNode"), ~ Matches,
         NEW h \in Hits(blob, query)
  PROVE  h # Top.ptr /\ ~ Inside(blob, Top.ptr, h)
<1> DEFINE i == Top.ptr
           q == query.node
<1>1. /\ state = "walk" /\ query.fn = "find_node" /\ i \in NodesOf(blob) /\ Inside(blob, q, i)
      /\ Depths(blob, i) - Depths(blob, q) = Matched + 1
  BY FindingAt
<1>2. /\ blob[i].name # Asked(blob, query, i)
      /\ ~ (/\ query.as_prefix /\ IsTerminal
            /\ Asked(blob, query, i)[2] = "" /\ blob[i].name[1] = Asked(blob, query, i)[1])
  BY FindingAt
<1>3. NodeAt(blob, query, h) /\ h \in Nat
  BY <1>1, HitsAre, HitsAreTokens
<1>4. SUFFICES ASSUME i \in Over(blob, h) \cup {h} PROVE FALSE
  BY <1>1 DEF Over
<1>5. /\ query.as_prefix /\ i = h
      /\ Asked(blob, query, i)[2] = "" /\ blob[i].name[1] = Asked(blob, query, i)[1]
  BY <1>1, <1>2, <1>3, <1>4 DEF NodeAt
<1>6. IsTerminal
  BY <1>1, <1>3, <1>5 DEF NodeAt, IsTerminal
<1> QED
  BY <1>2, <1>5, <1>6

LEMMA FindMatchFinds ==
  ASSUME WalkInv, SearchInv, FindMatch
  PROVE  \/ Stays /\ Searching(blob, query, stack', printed)
         \/ \E value : Return(value) /\ Found(blob, query, value, printed)
<1> DEFINE c == Top.node
           i == Top.ptr
           q == query.node
<1>1. Running("find_node", "BeginNode") /\ Matches
  BY DEF FindMatch
<1>2. /\ state = "walk" /\ query.fn = "find_node" /\ Len(stack) = 1 /\ Top = stack[1]
      /\ i \in NodesOf(blob) /\ Child(blob, c, i) /\ Inside(blob, q, i)
      /\ Depths(blob, i) - Depths(blob, q) = Matched + 1 /\ Matched \in Nat
      /\ Len(query.path) \in Nat /\ Matched + 1 <= Len(query.path) /\ Top.fn = "find_node"
  BY <1>1, FindingAt
<1>3. CASE IsTerminal
  <2>1. Top.ptr \in Hits(blob, query)
    BY <1>1, <1>3, LastMatchIsFound
  <2>2. Found(blob, query, Top.ptr, printed)
    BY <1>2, <2>1, HitIsFound
  <2> QED
    BY <1>3, <2>2 DEF FindMatch
<1>4. CASE ~ IsTerminal
  <2> DEFINE new == Frame("find_node", i)
  <2>1. stack' = <<new>> /\ Stays
    BY <1>4 DEF FindMatch
  <2>2. new.fn = "find_node" /\ new.node = i /\ new.ptr = i + 1
    BY DEF Frame
  <2> HIDE DEF new
  <2>3. Len(stack') = 1 /\ stack'[1] = new
    BY <2>1
  <2>4. \A h \in Hits(blob, query) : Inside(blob, i, h)
    BY <1>1, <1>4, HitsAreInMatch
  <2>5. Ahead(blob, Hits(blob, query), stack')
    <3>1. \A h \in Hits(blob, query) : h \in Nat /\ i < h
      BY <1>2, <2>4, HitsAreTokens DEF Inside
    <3>2. i \in Nat
      BY <1>2, TreeHere
    <3>3. \A h \in Hits(blob, query) : h >= i + 1
      BY <3>1, <3>2
    <3> QED
      BY <2>2, <2>3, <3>3 DEF Ahead
  <2>6. \A m \in Over(blob, i) \cup {i} :
          Inside(blob, q, m) => blob[m].name = Asked(blob, query, m)
    <3>1. blob[i].name = Asked(blob, query, i)
      BY <1>1, <1>4, FindingAt
    <3>2. Over(blob, i) = Over(blob, c) \cup {c}
      BY <1>2, OverAChild, TreeHere
    <3>3. \A m \in Over(blob, c) \cup {c} :
            Inside(blob, q, m) => blob[m].name = Asked(blob, query, m)
      BY <1>2, TreeHere DEF Searching, Finding
    <3> QED
      BY <3>1, <3>2, <3>3
  <2>7. Matched + 1 \in 0 .. Len(query.path) - 1
    BY <1>2, <1>4 DEF IsTerminal
  <2>8. \A k \in 2 .. Len(stack') : stack'[k].fn = "skip"
    BY <2>3
  <2>9. Finding(blob, query, stack')
    BY <1>2, <2>2, <2>3, <2>4, <2>6, <2>7, <2>8 DEF Finding
  <2> QED
    BY <1>2, <2>1, <2>5, <2>9 DEF Searching
<1> QED
  BY <1>3, <1>4

LEMMA FindOtherFinds ==
  ASSUME WalkInv, SearchInv, FindOther
  PROVE  Stays /\ Searching(blob, query, stack', printed)
<1>1. Running("find_node", "BeginNode") /\ ~ Matches /\ Call("skip", Top.ptr) /\ Stays
  BY DEF FindOther
<1>2. /\ state = "walk" /\ query.fn = "find_node" /\ Len(stack) = 1 /\ Top = stack[1]
      /\ Top.fn = "find_node" /\ Tag(Top.ptr) = "BeginNode"
  BY <1>1, FindingAt
<1>3. \A h \in Hits(blob, query) : h # Top.ptr /\ ~ Inside(blob, Top.ptr, h)
  BY <1>1, NoHitInOther
<1>4. Ahead(blob, Hits(blob, query), stack')
  BY <1>1, <1>2, <1>3, CallKeepsAhead
<1>5. Len(stack') = 2 /\ stack'[1] = stack[1] /\ stack'[2].fn = "skip"
  BY <1>1, <1>2, MadeCall
<1>6. Finding(blob, query, stack)
  BY <1>2, TreeHere DEF Searching
<1>7. \A k \in 2 .. Len(stack') : stack'[k].fn = "skip"
  BY <1>5
<1>8. Finding(blob, query, stack')
  BY <1>5, <1>6, <1>7 DEF Finding
<1> QED
  BY <1>1, <1>2, <1>4, <1>8 DEF Searching

LEMMA FindNothingFinds ==
  ASSUME WalkInv, SearchInv, FindNothing
  PROVE  \E value : Return(value) /\ Found(blob, query, value, printed)
<1>1. PICK tag \in {"EndNode", "End"} : Running("find_node", tag)
  BY DEF FindNothing
<1>2. /\ state = "walk" /\ query.fn = "find_node" /\ Tag(Top.ptr) = "EndNode"
      /\ Top.fn = "find_node"
  BY <1>1, RunningOk
<1>3. Finding(blob, query, stack)
  BY <1>2, TreeHere DEF Searching
<1>4. Top = stack[1]
  <2>1. Len(stack) \in Nat /\ Len(stack) > 0 /\ Top = stack[Len(stack)]
    BY <1>2, CallHere
  <2>2. Len(stack) \in 2 .. Len(stack) => Top.fn = "skip"
    BY <1>3, <2>1 DEF Finding
  <2> QED
    BY <1>2, <2>1, <2>2
<1>5. Hits(blob, query) = {}
  <2>1. \A h \in Hits(blob, query) : Inside(blob, Top.node, h)
    BY <1>3, <1>4 DEF Finding
  <2> QED
    BY <1>2, <2>1, NoHitAtEnd
<1> QED
  BY <1>2, <1>5, NothingIsFound DEF FindNothing

-----------------------------------------------------------------------------
(***************************************************************************)
(* skip, and what is read over.                                            *)
(***************************************************************************)
\* A search goes on with the same nodes.
LEMMA SameNodesSearch ==
  ASSUME WalkInv, SearchInv, state = "walk", query.fn # "print", NEW lines,
         Ahead(blob, Hits(blob, query), stack'),
         Len(stack') \in Nat, 1 <= Len(stack'), Len(stack') <= Len(stack),
         \A k \in 1 .. Len(stack') : /\ stack'[k].fn = stack[k].fn
                                     /\ stack'[k].node = stack[k].node
  PROVE  Searching(blob, query, stack', lines)
<1>1. 1 \in 1 .. Len(stack') /\ Len(stack) \in Nat
  BY CallHere
<1>2. \A k \in 2 .. Len(stack') : k \in 1 .. Len(stack') /\ k \in 2 .. Len(stack)
  BY <1>1
<1>3. Searching(blob, query, stack, printed)
  BY TreeHere
<1>4. ASSUME query.fn = "find_node" PROVE Finding(blob, query, stack')
  <2>1. Finding(blob, query, stack)
    BY <1>3, <1>4 DEF Searching
  <2>2. stack'[1].fn = stack[1].fn /\ stack'[1].node = stack[1].node
    BY <1>1
  <2>3. \A k \in 2 .. Len(stack') : stack'[k].fn = "skip"
    BY <1>2, <2>1 DEF Finding
  <2> QED
    BY <2>1, <2>2, <2>3 DEF Finding
<1>5. ASSUME query.fn = "find_compatible" PROVE Comparing(blob, query, stack')
  BY <1>1, <1>2, <1>3, <1>5 DEF Searching, Comparing
<1>6. ASSUME query.fn = "find_property" PROVE LookingUp(blob, query, stack')
  <2>1. LookingUp(blob, query, stack)
    BY <1>3, <1>6 DEF Searching
  <2>2. Len(stack) = 1
    BY <2>1 DEF LookingUp
  <2>3. Len(stack') <= 1
    BY <2>2
  <2>4. Len(stack') = 1
    BY <2>3, OnlyOne
  <2> QED
    BY <1>1, <2>1, <2>4 DEF LookingUp
<1> QED
  BY <1>4, <1>5, <1>6 DEF Searching

LEMMA MoveOnSearches ==
  ASSUME WalkInv, SearchInv, state = "walk", query.fn # "print",
         Top.ptr \notin Hits(blob, query), MoveTo(Top.ptr + 1)
  PROVE  Searching(blob, query, stack', printed)
<1> DEFINE n == Len(stack)
<1>1. n \in Nat /\ n > 0 /\ Top = stack[n]
  BY CallHere
<1>2. /\ Len(stack') = n /\ \A k \in 1 .. n - 1 : stack'[k] = stack[k]
      /\ stack'[n].fn = Top.fn /\ stack'[n].node = Top.node
  BY MovedCalls
<1>3. \A k \in 1 .. n : k = n \/ k \in 1 .. n - 1
  BY <1>1
<1>4. \A k \in 1 .. n : stack'[k].fn = stack[k].fn /\ stack'[k].node = stack[k].node
  BY <1>1, <1>2, <1>3
<1> QED
  BY <1>1, <1>2, <1>4, MoveKeepsAhead, SameNodesSearch

\* Only the searches for nodes skip.
LEMMA SkipsWithin ==
  ASSUME WalkInv, SearchInv, state = "walk", Top.fn = "skip"
  PROVE  query.fn \in {"find_node", "find_compatible"}
<1>1. /\ Len(stack) \in 1 .. Len(stack) /\ Top = stack[Len(stack)]
      /\ Searching(blob, query, stack, printed) /\ QueryFits(blob, query)
  BY CallHere, TreeHere
<1>2. query.fn # "print"
  BY <1>1 DEF Searching, Printing
<1>3. query.fn # "find_property"
  BY <1>1 DEF Searching, LookingUp
<1> QED
  BY <1>1, <1>2, <1>3 DEF QueryFits

LEMMA StepPropSearches ==
  ASSUME WalkInv, SearchInv, StepProp
  PROVE  Stays /\ Searching(blob, query, stack', printed)
<1>1. PICK fn \in {"find_node", "skip"} : Running(fn, "Prop")
  BY DEF StepProp
<1>2. /\ state = "walk" /\ Top.fn = fn /\ Tag(Top.ptr) = "Prop"
      /\ fn # "skip" => query.fn = fn
  BY <1>1, RunningOk
<1>3. query.fn # "print"
  BY <1>2, SkipsWithin
<1>4. Top.ptr \notin Hits(blob, query)
  <2>1. CASE fn = "find_node"
    <3>1. Top.ptr \notin NodesOf(blob)
      BY <1>2, CallHere
    <3> QED
      BY <1>2, <2>1, <3>1, HitsAre
  <2>2. CASE fn = "skip"
    BY <1>2, <2>2, NoHitInSkip, CallHere, TreeHere
  <2> QED
    BY <2>1, <2>2
<1> QED
  BY <1>2, <1>3, <1>4, MoveOnSearches DEF StepProp

\* The calls of a search and one more.
LEMMA NextCallSearches ==
  ASSUME WalkInv, SearchInv, state = "walk", Tag(Top.ptr) = "BeginNode",
         query.fn \in {"find_node", "find_compatible"},
         NEW fn, fn \in {"skip", "find_compatible"}, query.fn = "find_node" => fn = "skip",
         Call(fn, Top.ptr), Ahead(blob, Hits(blob, query), stack')
  PROVE  Searching(blob, query, stack', printed)
<1> DEFINE n == Len(stack)
           m == Top.ptr
<1>1. /\ n \in Nat /\ n > 0 /\ Top = stack[n] /\ Inside(blob, Top.node, m) /\ m \in Nat
      /\ blob \in Seq(Tokens)
  BY CallHere, TreeHere
<1>2. /\ Len(stack') = n + 1 /\ \A k \in 1 .. n : stack'[k] = stack[k]
      /\ stack'[n + 1].fn = fn /\ stack'[n + 1].node = m
  BY MadeCall
<1>3. /\ \A k \in 2 .. n + 1 : k = n + 1 \/ (k \in 2 .. n /\ k \in 1 .. n)
      /\ 1 \in 1 .. n
  BY <1>1
<1>4. Searching(blob, query, stack, printed)
  BY TreeHere
<1>5. ASSUME query.fn = "find_node" PROVE Finding(blob, query, stack')
  <2>1. Finding(blob, query, stack) /\ stack'[1] = stack[1]
    BY <1>2, <1>3, <1>4, <1>5 DEF Searching
  <2>2. \A k \in 2 .. Len(stack') : stack'[k].fn = "skip"
    BY <1>2, <1>3, <1>5, <2>1 DEF Finding
  <2> QED
    BY <2>1, <2>2 DEF Finding
<1>6. ASSUME query.fn = "find_compatible" PROVE Comparing(blob, query, stack')
  <2>1. Comparing(blob, query, stack) /\ stack'[1] = stack[1]
    BY <1>2, <1>3, <1>4, <1>6 DEF Searching
  <2>2. Top.node = query.node \/ Inside(blob, query.node, Top.node)
    <3>1. n = 1 \/ n \in 2 .. n
      BY <1>1, OneOrMore
    <3> QED
      BY <1>1, <2>1, <3>1 DEF Comparing
  <2>3. Inside(blob, query.node, m)
    BY <1>1, <2>2, InsideTransitive
  <2>4. \A k \in 2 .. Len(stack') : Inside(blob, query.node, stack'[k].node)
    BY <1>2, <1>3, <2>1, <2>3 DEF Comparing
  <2> QED
    BY <2>1, <2>4 DEF Comparing
<1> QED
  BY <1>5, <1>6 DEF Searching

LEMMA SkipSearches ==
  ASSUME WalkInv, SearchInv, SkipNode \/ SkipReturn
  PROVE  Stays /\ Searching(blob, query, stack', printed)
<1>1. CASE SkipNode
  <2>1. Running("skip", "BeginNode") /\ Call("skip", Top.ptr) /\ Stays
    BY <1>1 DEF SkipNode
  <2>2. state = "walk" /\ Top.fn = "skip" /\ Tag(Top.ptr) = "BeginNode"
    BY <2>1, RunningOk
  <2>3. query.fn \in {"find_node", "find_compatible"}
    BY <2>2, SkipsWithin
  <2>4. Top.ptr \notin Hits(blob, query)
    BY <2>2, NoHitInSkip, CallHere, TreeHere
  <2>5. Ahead(blob, Hits(blob, query), stack')
    BY <2>1, <2>2, <2>4, CallKeepsAhead
  <2> QED
    BY <2>1, <2>2, <2>3, <2>5, NextCallSearches
<1>2. CASE SkipReturn
  <2>1. PICK tag \in {"EndNode", "End"} : Running("skip", tag)
    BY <1>2 DEF SkipReturn
  <2>2. state = "walk" /\ Top.fn = "skip" /\ Tag(Top.ptr) = "EndNode" /\ Len(stack) > 1
    BY <2>1, RunningOk
  <2>3. ReturnPtr(Top.ptr + 1) /\ Stays
    BY <1>2 DEF SkipReturn, Skipped
  <2>4. query.fn # "print"
    BY <2>2, SkipsWithin
  <2>5. Ahead(blob, Hits(blob, query), stack')
    BY <2>2, <2>3, ReturnKeepsAhead
  <2> DEFINE n == Len(stack) - 1
  <2>6. n \in Nat /\ n > 0 /\ n <= Len(stack) /\ \A k \in 1 .. n : k = n \/ k \in 1 .. n - 1
    BY <2>2, CallHere
  <2>7. /\ Len(stack') = n /\ \A k \in 1 .. n - 1 : stack'[k] = stack[k]
        /\ stack'[n].fn = stack[n].fn /\ stack'[n].node = stack[n].node
    BY <2>2, <2>3, ReturnedCalls
  <2>8. \A k \in 1 .. n : stack'[k].fn = stack[k].fn /\ stack'[k].node = stack[k].node
    BY <2>6, <2>7
  <2> QED
    BY <2>2, <2>3, <2>4, <2>5, <2>6, <2>7, <2>8, SameNodesSearch
<1> QED
  BY <1>1, <1>2

-----------------------------------------------------------------------------
(***************************************************************************)
(* find_compatible.                                                        *)
(***************************************************************************)
\* The first property that matches is of the first node that has one: a node
\* around it has its properties before it.
LEMMA FirstHasFirst ==
  ASSUME NEW b \in Seq(Tokens), HasParents(b, Len(b)), PropsFirst(b),
         NEW c, NEW p \in PropsOf(b), Child(b, c, p),
         NEW d, NEW r \in PropsOf(b), Child(b, d, r), p <= r
  PROVE  c <= d
<1>1. /\ p \in 1 .. Len(b) /\ r \in 1 .. Len(b) /\ p \in Nat /\ r \in Nat
      /\ Inside(b, c, p) /\ Inside(b, d, r)
  BY DEF PropsOf, Child
<1>2. c \in Nat /\ d \in Nat /\ c < p /\ d < r /\ c \in NodesOf(b) /\ d \in NodesOf(b)
      /\ c \in 1 .. Len(b)
  BY <1>1, InsideIsBelow DEF Inside, NodesOf
<1>3. SUFFICES ASSUME d < c PROVE FALSE
  BY <1>2
<1>4. Inside(b, d, c)
  BY <1>1, <1>2, <1>3, InsideEarlier
<1>5. PICK k \in NodesOf(b) : Child(b, d, k) /\ k <= c
  <2>1. CASE Child(b, d, c)
    BY <1>2, <2>1
  <2>2. CASE \E k \in NodesOf(b) : Child(b, d, k) /\ Inside(b, k, c)
    BY <1>2, <2>2, InsideIsBelow
  <2> QED
    BY <1>2, <1>4, <2>1, <2>2 DEF HasParents
<1>6. r < k /\ k \in Nat
  <2>1. k \in Nat
    BY <1>5 DEF NodesOf
  <2> QED
    BY <1>2, <1>5, <2>1 DEF PropsFirst
<1> QED
  BY <1>1, <1>2, <1>5, <1>6

LEMMA EveryPropHasANode ==
  ASSUME BlobOk, TreeOk, state # "build", NEW p \in PropsOf(blob)
  PROVE  \E n \in NodesOf(blob) : Child(blob, n, p)
<1>1. /\ p \in 1 .. Len(blob) /\ Tag(p) = "Prop" /\ Len(blob) \in Nat
      /\ Complete(blob) /\ blob[Root].tag = "BeginNode"
      /\ HasParents(blob, Len(blob))
  BY DEF BlobOk, TreeOk, PropsOf, Tag
<1>2. p # Root /\ p # Len(blob)
  BY <1>1 DEF Complete, Tag
<1>3. p \in 2 .. Len(blob) - 1 /\ p \in 2 .. Len(blob)
  BY <1>1, <1>2 DEF Root
<1> QED
  BY <1>1, <1>3 DEF Complete, HasParents

LEMMA CompatibleHitIsFound ==
  ASSUME WalkInv, SearchInv, state = "walk", query.fn = "find_compatible", Top.fn # "skip",
         Top.ptr \in Hits(blob, query), NEW lines
  PROVE  Found(blob, query, Top.node, lines)
<1> DEFINE S == {AnswerAt(blob, query, h) : h \in Hits(blob, query)}
           c == Top.node
<1>1. /\ blob \in Seq(Tokens) /\ HasParents(blob, Len(blob)) /\ PropsFirst(blob)
      /\ Child(blob, c, Top.ptr) /\ Top.ptr \in Nat /\ c \in Nat
      /\ \A h \in Hits(blob, query) : h \in PropsOf(blob)
  BY TreeHere, CallHere, HitsAre
<1>2. AnswerAt(blob, query, Top.ptr) = c
  BY <1>1, OverAChild DEF AnswerAt
<1>3. ASSUME NEW h \in Hits(blob, query)
      PROVE  AnswerAt(blob, query, h) \in Nat /\ c <= AnswerAt(blob, query, h)
  <2>1. PICK d \in NodesOf(blob) : Child(blob, d, h)
    BY <1>1, EveryPropHasANode DEF WalkInv, SearchInv
  <2>2. h \in Nat /\ Top.ptr <= h /\ d \in Nat
    BY HitsAreTokens, HitsAhead DEF NodesOf
  <2>3. AnswerAt(blob, query, h) = d
    BY <1>1, <2>1, <2>2, OverAChild DEF AnswerAt
  <2>4. c <= d
    BY <1>1, <2>1, <2>2, FirstHasFirst
  <2> QED
    BY <2>2, <2>3, <2>4
<1>4. S \in SUBSET Nat /\ c \in S /\ \A y \in S : c <= y
  BY <1>2, <1>3
<1> HIDE DEF S
<1>5. FirstOf(S) = c
  BY <1>4, LeastIsMin
<1> QED
  BY <1>5 DEF S, Found, Answered

\* What find_compatible sees is in the node that was asked.
LEMMA ComparingInside ==
  ASSUME WalkInv, SearchInv, state = "walk", query.fn = "find_compatible"
  PROVE  Inside(blob, query.node, Top.ptr)
<1>1. /\ Len(stack) \in Nat /\ Len(stack) > 0 /\ Top = stack[Len(stack)]
      /\ Inside(blob, Top.node, Top.ptr) /\ Top.ptr \in Nat /\ blob \in Seq(Tokens)
  BY CallHere, TreeHere
<1>2. Len(stack) = 1 \/ Len(stack) \in 2 .. Len(stack)
  BY <1>1, OneOrMore
<1>3. Comparing(blob, query, stack)
  BY TreeHere DEF Searching
<1>4. Top.node = query.node \/ Inside(blob, query.node, Top.node)
  BY <1>1, <1>2, <1>3 DEF Comparing
<1> QED
  BY <1>1, <1>4, InsideTransitive

LEMMA CompatibleFinds ==
  ASSUME WalkInv, SearchInv, CompatibleProp \/ CompatibleNode \/ CompatibleNothing
  PROVE  \/ Stays /\ Searching(blob, query, stack', printed)
         \/ \E value : Return(value) /\ Found(blob, query, value, printed)
<1>1. CASE CompatibleProp
  <2>1. Running("find_compatible", "Prop")
    BY <1>1 DEF CompatibleProp
  <2>2. /\ state = "walk" /\ Tag(Top.ptr) = "Prop" /\ Top.fn = "find_compatible"
        /\ query.fn = "find_compatible"
    BY <2>1, RunningOk
  <2>3. Top.ptr \in PropsOf(blob) /\ Inside(blob, query.node, Top.ptr)
    BY <2>2, CallHere, ComparingInside
  <2>4. blob[Top.ptr] = Prop("compatible", query.str)
          <=> blob[Top.ptr].name = "compatible" /\ blob[Top.ptr].value = query.str
    <3>1. blob[Top.ptr] \in Tokens /\ blob[Top.ptr].tag = "Prop"
      BY <2>2, TreeHere, CallHere DEF Tag
    <3> DEFINE t == blob[Top.ptr]
    <3> HIDE DEF t
    <3>2. t \in Tokens /\ t.tag = "Prop"
      BY <3>1 DEF t
    <3>3. PICK p \in PropNames, v \in Values \cup {"cells"} : t = Prop(p, v)
      BY <3>2 DEF Tokens, BeginNode, EndNode, Nop, Finish
    <3>4. t = Prop("compatible", query.str)
            <=> t.name = "compatible" /\ t.value = query.str
      BY <3>3 DEF Prop
    <3> QED
      BY <3>4 DEF t
  <2>5. Top.ptr \in Hits(blob, query)
          <=> blob[Top.ptr].name = "compatible" /\ blob[Top.ptr].value = query.str
    BY <2>2, <2>3, <2>4, HitsAre DEF CompatibleAt
  <2>6. CASE Top.ptr \in Hits(blob, query)
    <3>1. Return(Top.node)
      BY <1>1, <2>5, <2>6 DEF CompatibleProp, Token
    <3>2. Found(blob, query, Top.node, printed)
      BY <2>2, <2>6, CompatibleHitIsFound
    <3> QED
      BY <3>1, <3>2
  <2>7. CASE Top.ptr \notin Hits(blob, query)
    <3>1. MoveTo(Top.ptr + 1) /\ Stays
      BY <1>1, <2>5, <2>7 DEF CompatibleProp, Token
    <3> QED
      BY <2>2, <2>7, <3>1, MoveOnSearches
  <2> QED
    BY <2>6, <2>7
<1>2. CASE CompatibleNode
  <2>1. Running("find_compatible", "BeginNode") /\ Call("find_compatible", Top.ptr) /\ Stays
    BY <1>2 DEF CompatibleNode
  <2>2. /\ state = "walk" /\ Tag(Top.ptr) = "BeginNode" /\ Top.fn = "find_compatible"
        /\ query.fn = "find_compatible"
    BY <2>1, RunningOk
  <2>3. Top.ptr \notin Hits(blob, query)
    <3>1. Top.ptr \notin PropsOf(blob)
      BY <2>2, CallHere
    <3> QED
      BY <2>2, <3>1, HitsAre
  <2>4. Ahead(blob, Hits(blob, query), stack')
    BY <2>1, <2>2, <2>3, CallKeepsAhead
  <2> QED
    BY <2>1, <2>2, <2>4, NextCallSearches
<1>3. CASE CompatibleNothing
  <2>1. PICK tag \in {"EndNode", "End"} : Running("find_compatible", tag)
    BY <1>3 DEF CompatibleNothing
  <2>2. /\ state = "walk" /\ Tag(Top.ptr) = "EndNode" /\ Top.fn = "find_compatible"
        /\ query.fn = "find_compatible"
    BY <2>1, RunningOk
  <2>3. Comparing(blob, query, stack)
    BY <2>2, TreeHere DEF Searching
  <2>4. CASE Len(stack) = 1
    <3>1. Return(Nothing)
      BY <1>3, <2>4 DEF CompatibleNothing
    <3>2. Top.node = query.node
      BY <2>2, <2>3, <2>4, CallHere DEF Comparing
    <3>3. Hits(blob, query) = {}
      <4>1. \A h \in Hits(blob, query) : Inside(blob, Top.node, h)
        BY <2>2, <3>2, HitsAre DEF CompatibleAt
      <4> QED
        BY <2>2, <4>1, NoHitAtEnd
    <3> QED
      BY <2>2, <3>1, <3>3, NothingIsFound
  <2>5. CASE Len(stack) # 1
    <3>1. SkipTried /\ Stays
      BY <1>3, <2>5 DEF CompatibleNothing, SkipTried
    <3>2. Ahead(blob, Hits(blob, query), stack')
      BY <2>2, <3>1, SkipKeepsAhead
    <3> DEFINE n == Len(stack)
    <3>3. n \in Nat /\ n > 1 /\ Top = stack[n]
      BY <2>2, <2>5, SomeIsNested, CallHere
    <3>4. /\ Len(stack') = n /\ \A k \in 1 .. n - 1 : stack'[k] = stack[k]
          /\ stack'[n].node = Top.node
      BY <2>2, <3>1, SkippedCalls
    <3>5. \A k \in 1 .. n : k = n \/ k \in 1 .. n - 1
      BY <3>3
    <3>6. \A k \in 1 .. n : stack'[k].node = stack[k].node
      BY <3>3, <3>4, <3>5
    <3>7. 1 \in 1 .. n /\ \A k \in 2 .. n : k \in 1 .. n
      BY <3>3
    <3>8. Comparing(blob, query, stack')
      BY <2>3, <3>4, <3>6, <3>7 DEF Comparing
    <3> QED
      BY <2>2, <3>1, <3>2, <3>8 DEF Searching
  <2> QED
    BY <2>4, <2>5
<1> QED
  BY <1>1, <1>2, <1>3

-----------------------------------------------------------------------------
(***************************************************************************)
(* find_property.                                                          *)
(***************************************************************************)
LEMMA PropertyFinds ==
  ASSUME WalkInv, SearchInv, PropertyProp \/ PropertyNothing
  PROVE  \/ Stays /\ Searching(blob, query, stack', printed)
         \/ \E value : Return(value) /\ Found(blob, query, value, printed)
<1>1. PICK tag : Running("find_property", tag)
  BY DEF PropertyProp, PropertyNothing
<1>2. state = "walk" /\ Top.fn = "find_property" /\ query.fn = "find_property"
  BY <1>1, RunningOk
<1>3. Top.node = query.node /\ Child(blob, query.node, Top.ptr)
  <2>1. LookingUp(blob, query, stack)
    BY <1>2, TreeHere DEF Searching
  <2> QED
    BY <1>2, <2>1, CallHere DEF LookingUp
<1>4. \A h \in Hits(blob, query) : Child(blob, query.node, h) /\ h \in PropsOf(blob)
  BY <1>2, HitsAre DEF PropertyAt
<1>5. CASE PropertyProp
  <2>1. Running("find_property", "Prop")
    BY <1>5 DEF PropertyProp
  <2>2. Tag(Top.ptr) = "Prop"
    BY <2>1, RunningOk
  <2>3. Top.ptr \in Hits(blob, query) <=> blob[Top.ptr].name = query.name
    BY <1>2, <1>3, <2>2, CallHere, HitsAre DEF PropertyAt
  <2>4. CASE Top.ptr \in Hits(blob, query)
    <3>1. Return(Top.ptr)
      BY <1>5, <2>3, <2>4 DEF PropertyProp, Token
    <3>2. Found(blob, query, Top.ptr, printed)
      BY <1>2, <2>4, HitIsFound
    <3> QED
      BY <3>1, <3>2
  <2>5. CASE Top.ptr \notin Hits(blob, query)
    <3>1. MoveTo(Top.ptr + 1) /\ Stays
      BY <1>5, <2>3, <2>5 DEF PropertyProp, Token
    <3> QED
      BY <1>2, <2>5, <3>1, MoveOnSearches
  <2> QED
    BY <2>4, <2>5
<1>6. CASE PropertyNothing
  <2>1. PICK last \in {"BeginNode", "EndNode", "End"} : Running("find_property", last)
    BY <1>6 DEF PropertyNothing
  <2>2. Tag(Top.ptr) \in {"BeginNode", "EndNode"}
    BY <2>1, RunningOk
  <2>3. Hits(blob, query) = {}
    <3>1. SUFFICES ASSUME NEW h \in Hits(blob, query) PROVE FALSE
      OBVIOUS
    <3>2. CASE Tag(Top.ptr) = "EndNode"
      BY <1>2, <1>3, <1>4, <3>2, NoHitAtEnd DEF Child
    <3>3. CASE Tag(Top.ptr) = "BeginNode"
      <4>1. Top.ptr \in NodesOf(blob) /\ query.node \in NodesOf(blob) /\ Top.ptr \in Nat
        BY <1>2, <1>3, <3>3, CallHere, TreeHere
      <4>2. h < Top.ptr
        BY <1>2, <1>3, <1>4, <4>1, TreeHere DEF PropsFirst
      <4>3. h >= Top.ptr /\ h \in Nat
        BY <1>2, HitsAhead, HitsAreTokens
      <4> QED
        BY <4>1, <4>2, <4>3
    <3> QED
      BY <2>2, <3>2, <3>3
  <2> QED
    BY <1>2, <1>6, <2>3, NothingIsFound DEF PropertyNothing
<1> QED
  BY <1>5, <1>6

-----------------------------------------------------------------------------
(***************************************************************************)
(* print.                                                                  *)
(***************************************************************************)
\* A line for the token that is reached.
LEMMA LineIsNext ==
  ASSUME NEW b \in Seq(Tokens), NEW i \in NodesOf(b) \cup PropsOf(b),
         NEW lines \in Seq(Nat \X Nat), InOrder(lines), Range(lines) = LinesTo(b, i),
         NEW new, new = Append(lines, <<i, Depths(b, i)>>)
  PROVE  /\ new \in Seq(Nat \X Nat) /\ InOrder(new)
         /\ Range(new) = LinesTo(b, i + 1)
<1> DEFINE line == <<i, Depths(b, i)>>
           n == Len(lines)
<1>1. i \in Nat /\ NodesOf(b) \cup PropsOf(b) \subseteq Nat
  BY DEF NodesOf, PropsOf
<1>2. line \in Nat \X Nat /\ line[1] = i
  BY <1>1, OverIsFinite DEF Depths
<1>3. LinesTo(b, i + 1) = LinesTo(b, i) \cup {line}
  <2>1. {j \in NodesOf(b) \cup PropsOf(b) : j < i + 1}
          = {j \in NodesOf(b) \cup PropsOf(b) : j < i} \cup {i}
    BY <1>1
  <2> QED
    BY <2>1 DEF LinesTo
<1> HIDE DEF line
<1>4. /\ new \in Seq(Nat \X Nat) /\ n \in Nat /\ DOMAIN lines = 1 .. n
      /\ DOMAIN new = 1 .. n + 1 /\ new[n + 1] = line
      /\ \A k \in 1 .. n : new[k] = lines[k]
  BY <1>2 DEF line
<1>5. \A k \in 1 .. n + 1 : k = n + 1 \/ k \in 1 .. n
  BY <1>4
<1>6. Range(new) = Range(lines) \cup {line}
  <2>1. \A x \in Range(new) : x \in Range(lines) \cup {line}
    BY <1>4, <1>5 DEF Range
  <2>2. \A x \in Range(lines) : x \in Range(new)
    <3>1. \A k \in 1 .. n : k \in 1 .. n + 1
      BY <1>4
    <3> QED
      BY <1>4, <3>1 DEF Range
  <2>3. line \in Range(new)
    <3>1. n + 1 \in 1 .. n + 1
      BY <1>4
    <3> QED
      BY <1>4, <3>1 DEF Range
  <2> QED
    BY <2>1, <2>2, <2>3
<1>7. \A k \in 1 .. n : lines[k][1] < i
  <2> TAKE k \in 1 .. n
  <2>1. lines[k] \in LinesTo(b, i)
    BY <1>4 DEF Range
  <2> QED
    BY <2>1 DEF LinesTo
<1>8. InOrder(new)
  <2> SUFFICES ASSUME NEW j \in 1 .. n + 1, NEW k \in 1 .. n + 1, j < k
               PROVE  new[j][1] < new[k][1]
    BY <1>4 DEF InOrder
  <2>1. CASE k = n + 1
    <3>1. j \in 1 .. n
      BY <1>4, <2>1
    <3> QED
      BY <1>2, <1>4, <1>7, <2>1, <3>1
  <2>2. CASE k \in 1 .. n
    <3>1. j \in 1 .. n
      BY <1>4, <2>2
    <3> QED
      BY <1>4, <2>2, <3>1 DEF InOrder
  <2> QED
    BY <1>5, <2>1, <2>2
<1> QED
  BY <1>3, <1>4, <1>6, <1>8

\* A token that is not printed.
LEMMA NoLineIsNext ==
  ASSUME NEW b \in Seq(Tokens), NEW i \in Nat, i \notin NodesOf(b) \cup PropsOf(b)
  PROVE  LinesTo(b, i + 1) = LinesTo(b, i)
<1>1. NodesOf(b) \cup PropsOf(b) \subseteq Nat
  BY DEF NodesOf, PropsOf
<1>2. {j \in NodesOf(b) \cup PropsOf(b) : j < i + 1} = {j \in NodesOf(b) \cup PropsOf(b) : j < i}
  BY <1>1
<1> QED
  BY <1>2 DEF LinesTo

LEMMA PrintingHere ==
  ASSUME WalkInv, SearchInv, state = "walk", query.fn = "print"
  PROVE  /\ Printing(blob, stack, printed) /\ Hits(blob, query) = {}
         /\ Top.fn = "print" /\ Depths(blob, Top.ptr) = Len(stack)
         /\ Range(printed) = LinesTo(blob, Top.ptr)
<1>1. /\ Len(stack) \in Nat /\ Len(stack) > 0 /\ Top = stack[Len(stack)]
      /\ Child(blob, Top.node, Top.ptr) /\ blob \in Seq(Tokens) /\ Top.ptr \in Nat
  BY CallHere, TreeHere
<1>2. Printing(blob, stack, printed) /\ Hits(blob, query) = {}
  BY TreeHere, HitsAre DEF Searching
<1>3. Top.fn = "print" /\ Depths(blob, Top.node) = Len(stack) - 1
  <2>1. Len(stack) \in 1 .. Len(stack)
    BY <1>1
  <2> QED
    BY <1>1, <1>2, <2>1 DEF Printing
<1>4. Depths(blob, Top.ptr) = Depths(blob, Top.node) + 1
  BY <1>1, OverAChild
<1> QED
  BY <1>1, <1>2, <1>3, <1>4 DEF Printing

\* The same calls, or fewer, at the token that is printed next.
LEMMA SameNodesPrint ==
  ASSUME WalkInv, SearchInv, state = "walk", query.fn = "print", NEW lines,
         Len(stack') \in Nat, 1 <= Len(stack'), Len(stack') <= Len(stack),
         \A k \in 1 .. Len(stack') : /\ stack'[k].fn = stack[k].fn
                                     /\ stack'[k].node = stack[k].node,
         lines \in Seq(Nat \X Nat), InOrder(lines),
         Range(lines) = LinesTo(blob, stack'[Len(stack')].ptr)
  PROVE  Searching(blob, query, stack', lines)
<1>1. Printing(blob, stack, printed) /\ Hits(blob, query) = {} /\ Len(stack) \in Nat
  BY PrintingHere, CallHere
<1>2. 1 \in 1 .. Len(stack') /\ \A k \in 1 .. Len(stack') : k \in 1 .. Len(stack)
  BY <1>1
<1>3. Printing(blob, stack', lines)
  BY <1>1, <1>2 DEF Printing
<1> QED
  BY <1>1, <1>3 DEF Searching, Ahead

LEMMA MoveOnPrints ==
  ASSUME WalkInv, SearchInv, state = "walk", query.fn = "print", MoveTo(Top.ptr + 1), NEW lines,
         lines \in Seq(Nat \X Nat), InOrder(lines), Range(lines) = LinesTo(blob, Top.ptr + 1)
  PROVE  Searching(blob, query, stack', lines)
<1> DEFINE n == Len(stack)
<1>1. n \in Nat /\ n > 0 /\ Top = stack[n]
  BY CallHere
<1>2. /\ Len(stack') = n /\ \A k \in 1 .. n - 1 : stack'[k] = stack[k]
      /\ stack'[n].fn = Top.fn /\ stack'[n].node = Top.node /\ stack'[n].ptr = Top.ptr + 1
  BY MovedCalls
<1>3. \A k \in 1 .. n : k = n \/ k \in 1 .. n - 1
  BY <1>1
<1>4. \A k \in 1 .. n : stack'[k].fn = stack[k].fn /\ stack'[k].node = stack[k].node
  BY <1>1, <1>2, <1>3
<1> QED
  BY <1>1, <1>2, <1>4, SameNodesPrint

LEMMA StepNopSearches ==
  ASSUME WalkInv, SearchInv, StepNop
  PROVE  Stays /\ Searching(blob, query, stack', printed)
<1>1. PICK fn : Running(fn, "Nop")
  BY DEF StepNop
<1>2. state = "walk" /\ Tag(Top.ptr) = "Nop" /\ MoveTo(Top.ptr + 1) /\ Stays
  BY <1>1, RunningOk DEF StepNop, AfterNop
<1>3. Top.ptr \notin NodesOf(blob) \cup PropsOf(blob)
  BY <1>2, CallHere
<1>4. CASE query.fn # "print"
  <2>1. Top.ptr \notin Hits(blob, query)
    BY <1>3, HitsAre
  <2> QED
    BY <1>2, <1>4, <2>1, MoveOnSearches
<1>5. CASE query.fn = "print"
  <2>1. Printing(blob, stack, printed) /\ Range(printed) = LinesTo(blob, Top.ptr)
    BY <1>2, <1>5, PrintingHere
  <2>2. LinesTo(blob, Top.ptr + 1) = LinesTo(blob, Top.ptr)
    BY <1>2, <1>3, NoLineIsNext, TreeHere, CallHere
  <2> QED
    BY <1>2, <1>5, <2>1, <2>2, MoveOnPrints DEF Printing
<1> QED
  BY <1>4, <1>5

LEMMA PrintNodePrints ==
  ASSUME WalkInv, SearchInv, PrintNode
  PROVE  UNCHANGED <<blob, query, result, state>> /\ Searching(blob, query, stack', printed')
<1> DEFINE n == Len(stack)
           m == Top.ptr
<1>1. /\ Running("print", "BeginNode") /\ Line /\ Call("print", m)
      /\ UNCHANGED <<blob, query, result, state>>
  BY DEF PrintNode
<1>2. state = "walk" /\ Tag(m) = "BeginNode" /\ query.fn = "print"
  BY <1>1, RunningOk
<1>3. /\ Printing(blob, stack, printed) /\ Hits(blob, query) = {} /\ Depths(blob, m) = n
      /\ Range(printed) = LinesTo(blob, m)
  BY <1>2, PrintingHere
<1>4. n \in Nat /\ n > 0 /\ m \in NodesOf(blob) /\ m \in Nat /\ blob \in Seq(Tokens)
  BY <1>2, CallHere, TreeHere
<1>5. printed' = Append(printed, <<m, Depths(blob, m)>>)
  BY <1>1, <1>3 DEF Line, Depth
<1>6. printed' \in Seq(Nat \X Nat) /\ InOrder(printed') /\ Range(printed') = LinesTo(blob, m + 1)
  BY <1>3, <1>4, <1>5, LineIsNext DEF Printing
<1>7. /\ Len(stack') = n + 1 /\ \A k \in 1 .. n : stack'[k] = stack[k]
      /\ stack'[n + 1].fn = "print" /\ stack'[n + 1].node = m /\ stack'[n + 1].ptr = m + 1
  BY <1>1, <1>2, MadeCall
<1>8. /\ \A k \in 1 .. n + 1 : k = n + 1 \/ k \in 1 .. n
      /\ 1 \in 1 .. n /\ (n + 1) - 1 = n
  BY <1>4
<1>9. Printing(blob, stack', printed')
  <2>1. \A k \in 1 .. n + 1 : stack'[k].fn = "print" /\ Depths(blob, stack'[k].node) = k - 1
    BY <1>3, <1>7, <1>8 DEF Printing
  <2>2. stack'[1].node = Root
    BY <1>3, <1>7, <1>8 DEF Printing
  <2> QED
    BY <1>6, <1>7, <2>1, <2>2 DEF Printing
<1> QED
  BY <1>1, <1>2, <1>3, <1>9 DEF Searching, Ahead

LEMMA PrintPropPrints ==
  ASSUME WalkInv, SearchInv, PrintProp
  PROVE  UNCHANGED <<blob, query, result, state>> /\ Searching(blob, query, stack', printed')
<1> DEFINE n == Len(stack)
           m == Top.ptr
<1>1. /\ Running("print", "Prop") /\ Line /\ MoveTo(m + 1)
      /\ UNCHANGED <<blob, query, result, state>>
  BY DEF PrintProp
<1>2. state = "walk" /\ Tag(m) = "Prop" /\ query.fn = "print"
  BY <1>1, RunningOk
<1>3. /\ Printing(blob, stack, printed) /\ Depths(blob, m) = n
      /\ Range(printed) = LinesTo(blob, m)
  BY <1>2, PrintingHere
<1>4. m \in PropsOf(blob) /\ m \in Nat /\ blob \in Seq(Tokens)
  BY <1>2, CallHere, TreeHere
<1>5. printed' = Append(printed, <<m, Depths(blob, m)>>)
  BY <1>1, <1>3 DEF Line, Depth
<1>6. printed' \in Seq(Nat \X Nat) /\ InOrder(printed') /\ Range(printed') = LinesTo(blob, m + 1)
  BY <1>3, <1>4, <1>5, LineIsNext DEF Printing
<1> QED
  BY <1>1, <1>2, <1>6, MoveOnPrints

\* Behind the end of the root is the last token of all.
LEMMA RootEndsLast ==
  ASSUME WalkInv, SearchInv, state = "walk", Top.node = Root, Tag(Top.ptr) = "EndNode"
  PROVE  LinesTo(blob, Len(blob) + 1) = LinesTo(blob, Top.ptr)
<1> DEFINE i == Top.ptr
           n == Len(blob)
<1>1. /\ blob \in Seq(Tokens) /\ n \in Nat /\ i \in 1 .. n /\ DOMAIN blob = 1 .. n
      /\ Child(blob, Root, i) /\ Complete(blob) /\ Root < i
  BY TreeHere, CallHere DEF WalkInv, BlobOk, Inside
<1>2. Height(blob, i + 1) = 0
  <2>1. Height(blob, i + 1) = Height(blob, i) - 1
    BY <1>1, HeightStep DEF Tag
  <2>2. Height(blob, i) = 1
    BY <1>1, HeightAtRoot DEF Child
  <2> QED
    BY <2>1, <2>2
<1>3. i # n
  BY <1>1 DEF Complete, Tag
<1>4. i + 1 = n
  <2>1. i + 1 \notin 2 .. n - 1
    BY <1>1, <1>2 DEF Complete
  <2> QED
    BY <1>1, <1>3, <2>1 DEF Root
<1>5. i \notin NodesOf(blob) \cup PropsOf(blob) /\ n \notin NodesOf(blob) \cup PropsOf(blob)
  BY <1>1 DEF Complete, NodesOf, PropsOf, Tag
<1>6. LinesTo(blob, i + 1) = LinesTo(blob, i)
  BY <1>1, <1>5, NoLineIsNext
<1>7. LinesTo(blob, n + 1) = LinesTo(blob, n)
  BY <1>1, <1>5, NoLineIsNext
<1> QED
  BY <1>4, <1>6, <1>7

LEMMA PrintReturnPrints ==
  ASSUME WalkInv, SearchInv, PrintReturn
  PROVE  \/ Stays /\ Searching(blob, query, stack', printed)
         \/ \E value : Return(value) /\ Found(blob, query, value, printed)
<1>1. PICK tag \in {"EndNode", "End"} : Running("print", tag)
  BY DEF PrintReturn
<1>2. state = "walk" /\ Tag(Top.ptr) = "EndNode" /\ query.fn = "print"
  BY <1>1, RunningOk
<1>3. /\ Printing(blob, stack, printed) /\ Hits(blob, query) = {}
      /\ Range(printed) = LinesTo(blob, Top.ptr)
  BY <1>2, PrintingHere
<1>4. CASE Len(stack) = 1
  <2>1. Return(Nothing)
    BY <1>4 DEF PrintReturn
  <2>2. Top.node = Root
    BY <1>2, <1>3, <1>4, CallHere DEF Printing
  <2>3. Range(printed) = LinesTo(blob, Len(blob) + 1)
    BY <1>2, <1>3, <2>2, RootEndsLast
  <2>4. Answered(blob, query, Nothing)
    <3>1. {AnswerAt(blob, query, h) : h \in Hits(blob, query)} = {}
      BY <1>3
    <3> QED
      BY <3>1 DEF Answered, FirstOf
  <2>5. Found(blob, query, Nothing, printed)
    BY <1>3, <2>3, <2>4 DEF Found, Printing
  <2> QED
    BY <2>1, <2>5
<1>5. CASE Len(stack) # 1
  <2>1. ReturnPtr(Top.ptr + 1) /\ Stays
    BY <1>5 DEF PrintReturn
  <2> DEFINE n == Len(stack) - 1
  <2>2. n \in Nat /\ n > 0 /\ n <= Len(stack) /\ \A k \in 1 .. n : k = n \/ k \in 1 .. n - 1
    BY <1>2, <1>5, SomeIsNested, CallHere
  <2>3. /\ Len(stack') = n /\ \A k \in 1 .. n - 1 : stack'[k] = stack[k]
        /\ stack'[n].fn = stack[n].fn /\ stack'[n].node = stack[n].node
        /\ stack'[n].ptr = Top.ptr + 1
    BY <1>2, <1>5, <2>1, SomeIsNested, ReturnedCalls
  <2>4. \A k \in 1 .. n : stack'[k].fn = stack[k].fn /\ stack'[k].node = stack[k].node
    BY <2>2, <2>3
  <2>5. Top.ptr \notin NodesOf(blob) \cup PropsOf(blob)
    BY <1>2, CallHere
  <2>6. LinesTo(blob, Top.ptr + 1) = LinesTo(blob, Top.ptr)
    BY <1>2, <2>5, NoLineIsNext, TreeHere, CallHere
  <2>7. Searching(blob, query, stack', printed)
    BY <1>2, <1>3, <2>2, <2>3, <2>4, <2>6, SameNodesPrint DEF Printing
  <2> QED
    BY <2>1, <2>7
<1> QED
  BY <1>4, <1>5

-----------------------------------------------------------------------------
(***************************************************************************)
(* The call that is asked.                                                 *)
(***************************************************************************)
LEMMA StartSearches ==
  ASSUME WalkInv, SearchInv, NEW q, QueryFits(blob, q), Start(q)
  PROVE  Searching(blob, q, stack', printed')
<1> DEFINE n == q.node
           new == Frame(q.fn, n)
<1>1. /\ state = "ask" /\ stack' = <<new>>
      /\ printed' = IF q.fn = "print" THEN <<<<n, 0>>>> ELSE <<>>
      /\ n \in NodesOf(blob) /\ BlobOk /\ blob \in Seq(Tokens) /\ q.fn # "skip"
  BY DEF Start, QueryFits, WalkInv, BlobOk
<1>2. new.fn = q.fn /\ new.node = n /\ new.ptr = n + 1
  BY DEF Frame
<1> HIDE DEF new
<1>3. Len(stack') = 1 /\ stack'[1] = new
  BY <1>1
<1>4. n \in Nat /\ Child(blob, n, n + 1)
  <2>1. n \in Nodes
    BY <1>1, AroundIsOver
  <2> QED
    BY <1>1, <2>1, EnterNode, ChildIsInNode, NodesAreTokens
<1>5. Depths(blob, n) \in Nat
  BY <1>1, <1>4, OverAChild
<1>6. \A h \in Hits(blob, q) : h \in Nat /\ Inside(blob, n, h)
  <2> TAKE h \in Hits(blob, q)
  <2>1. h \in Nat
    BY <1>1, HitsAre DEF NodesOf, PropsOf
  <2>2. q.fn # "print"
    BY HitsAre
  <2>3. q.fn \in {"find_node", "find_compatible", "find_property"}
    BY <2>2 DEF QueryFits
  <2> QED
    BY <2>1, <2>3, HitsAre DEF NodeAt, CompatibleAt, PropertyAt, Child
<1>7. Ahead(blob, Hits(blob, q), stack')
  <2>1. \A h \in Hits(blob, q) : h >= n + 1
    <3> TAKE h \in Hits(blob, q)
    <3>1. h \in Nat /\ n < h
      BY <1>6 DEF Inside
    <3> QED
      BY <1>4, <3>1
  <2> QED
    BY <1>1, <1>2, <1>3, <2>1 DEF Ahead
<1>8. ASSUME q.fn = "find_node" PROVE Finding(blob, q, stack')
  <2>1. Len(q.path) \in Nat \ {0}
    BY <1>8 DEF QueryFits, Paths
  <2>2. Depths(blob, n) - Depths(blob, n) \in 0 .. Len(q.path) - 1
    BY <1>5, <2>1
  <2>3. \A m \in Over(blob, n) \cup {n} : ~ Inside(blob, n, m)
    <3> TAKE m \in Over(blob, n) \cup {n}
    <3>1. m \in Nat /\ m <= n
      BY <1>1, <1>4, InsideIsBelow DEF Over
    <3> QED
      BY <1>4, <3>1 DEF Inside
  <2>4. \A k \in 2 .. Len(stack') : stack'[k].fn = "skip"
    BY <1>3
  <2> QED
    BY <1>2, <1>3, <1>6, <1>8, <2>2, <2>3, <2>4 DEF Finding
<1>9. Comparing(blob, q, stack')
  <2>1. \A k \in 2 .. Len(stack') : Inside(blob, q.node, stack'[k].node)
    BY <1>3
  <2> QED
    BY <1>2, <1>3, <2>1 DEF Comparing
<1>10. LookingUp(blob, q, stack')
  BY <1>2, <1>3 DEF LookingUp
<1>11. ASSUME q.fn = "print" PROVE Printing(blob, stack', printed')
  <2>1. n = Root
    BY <1>11 DEF QueryFits
  <2>2. NodesOf(blob) \cup PropsOf(blob) \subseteq Nat \ {0}
    BY <1>1 DEF NodesOf, PropsOf
  <2>3. Depths(blob, Root) = 0
    <3>1. Over(blob, Root) = {}
      BY <2>2 DEF Over, Inside, Root
    <3> QED
      BY <3>1, FS_EmptySet DEF Depths
  <2>4. LinesTo(blob, Root + 1) = {<<Root, 0>>}
    <3>1. {j \in NodesOf(blob) \cup PropsOf(blob) : j < Root + 1} = {Root}
      BY <1>1, <2>1, <2>2 DEF Root
    <3> QED
      BY <2>3, <3>1 DEF LinesTo
  <2> DEFINE line == <<Root, 0>>
  <2>5. line \in Nat \X Nat
    BY DEF Root
  <2>6. printed' = <<line>>
    BY <1>1, <1>11, <2>1
  <2> HIDE DEF line
  <2>7. /\ printed' \in Seq(Nat \X Nat) /\ DOMAIN printed' = {1} /\ printed'[1] = line
    BY <2>5, <2>6
  <2>8. InOrder(printed') /\ Range(printed') = {line}
    BY <2>7 DEF InOrder, Range
  <2>9. \A k \in 1 .. Len(stack') : k = 1
    BY <1>3
  <2> QED
    BY <1>2, <1>3, <1>11, <2>1, <2>3, <2>4, <2>7, <2>8, <2>9 DEF Printing, line
<1> QED
  BY <1>7, <1>8, <1>9, <1>10, <1>11 DEF Searching

LEMMA AskSearches ==
  ASSUME WalkInv, SearchInv, Ask
  PROVE  SearchInv'
<1>1. PICK n \in Nodes :
        \/ \E path \in Paths, as_prefix \in BOOLEAN :
             Start([fn |-> "find_node", node |-> n, path |-> path, as_prefix |-> as_prefix])
        \/ \E s \in Values : Start([fn |-> "find_compatible", node |-> n, str |-> s])
        \/ \E p \in PropNames : Start([fn |-> "find_property", node |-> n, name |-> p])
        \/ n = Root /\ Start([fn |-> "print", node |-> n])
  BY DEF Ask
<1>2. n \in NodesOf(blob)
  BY DEF Nodes, NodesOf, Tag
<1>3. PICK q : QueryFits(blob, q) /\ Start(q)
  <2>1. ASSUME NEW path \in Paths, NEW as_prefix,
               Start([fn |-> "find_node", node |-> n, path |-> path, as_prefix |-> as_prefix])
        PROVE  \E q : QueryFits(blob, q) /\ Start(q)
    BY <1>2, <2>1 DEF QueryFits
  <2>2. ASSUME NEW s, Start([fn |-> "find_compatible", node |-> n, str |-> s])
        PROVE  \E q : QueryFits(blob, q) /\ Start(q)
    BY <1>2, <2>2 DEF QueryFits
  <2>3. ASSUME NEW p, Start([fn |-> "find_property", node |-> n, name |-> p])
        PROVE  \E q : QueryFits(blob, q) /\ Start(q)
    BY <1>2, <2>3 DEF QueryFits
  <2>4. ASSUME n = Root, Start([fn |-> "print", node |-> n])
        PROVE  \E q : QueryFits(blob, q) /\ Start(q)
    BY <1>2, <2>4 DEF QueryFits
  <2> QED
    BY <1>1, <2>1, <2>2, <2>3, <2>4
<1>4. blob' = blob /\ query' = q /\ state = "ask" /\ state' = "walk"
  BY <1>3 DEF Start
<1>5. Searching(blob, q, stack', printed')
  BY <1>3, StartSearches
<1>6. TreeOk'
  BY <1>4 DEF SearchInv, TreeOk
<1> QED
  BY <1>3, <1>4, <1>5, <1>6 DEF SearchInv

\* The steps of a walk.
LEMMA WalkSearches ==
  ASSUME WalkInv, SearchInv, Walk
  PROVE  SearchInv'
<1>1. state = "walk"
  BY DEF Walk, FindMatch, FindOther, FindNothing, StepNop, StepProp, SkipNode, SkipReturn,
     CompatibleProp, CompatibleNode, CompatibleNothing, PropertyProp, PropertyNothing,
     PrintNode, PrintProp, PrintReturn, Running
<1>2. QueryFits(blob, query) /\ TreeOk
  BY <1>1 DEF SearchInv
<1>3. ASSUME UNCHANGED <<blob, query, result, state>>, Searching(blob, query, stack', printed')
      PROVE  SearchInv'
  <2>1. blob' = blob /\ query' = query /\ state' = "walk"
    BY <1>1, <1>3
  <2>2. TreeOk'
    BY <1>1, <1>2, <2>1 DEF TreeOk
  <2> QED
    BY <1>2, <1>3, <2>1, <2>2 DEF SearchInv
<1>4. ASSUME Stays, Searching(blob, query, stack', printed)
      PROVE  SearchInv'
  <2>1. UNCHANGED <<blob, query, result, state>> /\ printed' = printed
    BY <1>4 DEF Stays
  <2> QED
    BY <1>3, <1>4, <2>1
<1>5. ASSUME NEW value, Return(value), Found(blob, query, value, printed)
      PROVE  SearchInv'
  <2>1. /\ blob' = blob /\ query' = query /\ state' = "done" /\ result' = value
        /\ printed' = printed
    BY <1>5 DEF Return
  <2>2. TreeOk'
    BY <1>1, <1>2, <2>1 DEF TreeOk
  <2> QED
    BY <1>2, <1>5, <2>1, <2>2 DEF SearchInv
<1>6. \/ UNCHANGED <<blob, query, result, state>> /\ Searching(blob, query, stack', printed')
      \/ Stays /\ Searching(blob, query, stack', printed)
      \/ \E value : Return(value) /\ Found(blob, query, value, printed)
  BY FindMatchFinds, FindOtherFinds, FindNothingFinds, StepNopSearches, StepPropSearches,
     SkipSearches, CompatibleFinds, PropertyFinds, PrintNodePrints, PrintPropPrints,
     PrintReturnPrints DEF Walk
<1> QED
  BY <1>3, <1>4, <1>5, <1>6

LEMMA NextKeepsSearchInv == WalkInv /\ SearchInv /\ [Next]_vars => SearchInv'
<1> SUFFICES ASSUME WalkInv, SearchInv, [Next]_vars PROVE SearchInv'
  OBVIOUS
<1>1. CASE UNCHANGED vars
  BY <1>1 DEF vars, SearchInv, TreeOk
<1>2. CASE Build
  <2>1. TreeOk'
    BY <1>2, BuildKeepsTree DEF WalkInv, SearchInv
  <2>2. state' \in {"build", "ask"}
    BY <1>2 DEF Build, AddNode, AddProp, AddNop, AddEnd, Seal, AddToken, MayAdd
  <2> QED
    BY <2>1, <2>2 DEF SearchInv
<1>3. CASE Ask
  BY <1>3, AskSearches
<1>4. CASE Walk
  BY <1>4, WalkSearches
<1> QED
  BY <1>1, <1>2, <1>3, <1>4 DEF Next

-----------------------------------------------------------------------------
(***************************************************************************)
(* What the walks promise, in the words of the model.                      *)
(***************************************************************************)
LEMMA AnswersAreHits ==
  ASSUME WalkInv, SearchInv, state = "done"
  PROVE  Answers = {AnswerAt(blob, query, h) : h \in Hits(blob, query)}
<1> DEFINE q == query.node
           S == {AnswerAt(blob, query, h) : h \in Hits(blob, query)}
<1>1. /\ BlobOk /\ TreeOk /\ QueryFits(blob, query) /\ blob \in Seq(Tokens)
      /\ q \in NodesOf(blob)
  BY DEF WalkInv, SearchInv, BlobOk, QueryFits
<1>2. /\ Nodes = NodesOf(blob) /\ Props = PropsOf(blob)
      /\ \A i \in Nat : Around(i) = Over(blob, i)
  BY <1>1, AroundIsOver
<1>3. NodesOf(blob) \subseteq Nat /\ PropsOf(blob) \subseteq Nat
  BY <1>1 DEF NodesOf, PropsOf
<1>4. \A i \in Nat : q \in Around(i) <=> Inside(blob, q, i)
  BY <1>1, <1>2 DEF Over
<1>5. CASE query.fn = "find_node"
  <2>1. ASSUME NEW c \in NodesOf(blob)
        PROVE  HasPath(q, c, query.path, query.as_prefix) <=> NodeAt(blob, query, c)
    <3>1. \A m \in Over(blob, c) \cup {c} : m \in Nat
      BY <1>3 DEF Over
    <3>2. \A m \in Nat : Below(q, m) = Depths(blob, m) - Depths(blob, q)
      BY <1>1, <1>2, <1>3 DEF Below, Depths
    <3>3. c \in Nat /\ Around(c) = Over(blob, c)
      BY <1>2, <1>3
    <3> QED
      BY <1>4, <3>1, <3>2, <3>3 DEF HasPath, NodeAt, Asked
  <2>2. S = Hits(blob, query)
    BY <1>5 DEF AnswerAt
  <2>3. Answers = {c \in Nodes : HasPath(q, c, query.path, query.as_prefix)}
    BY <1>5 DEF Answers
  <2>4. \A c : c \in Hits(blob, query) <=> c \in NodesOf(blob) /\ NodeAt(blob, query, c)
    BY <1>5, HitsAre
  <2> QED
    BY <1>2, <2>1, <2>2, <2>3, <2>4
<1>6. CASE query.fn = "find_compatible"
  <2>1. Answers = {Parent(p) : p \in {p \in Props : /\ q \in Around(p)
                                                   /\ blob[p] = Prop("compatible", query.str)}}
    BY <1>6 DEF Answers
  <2>2. {p \in Props : q \in Around(p) /\ blob[p] = Prop("compatible", query.str)}
          = Hits(blob, query)
    BY <1>2, <1>3, <1>4, <1>6 DEF Hits, CompatibleAt
  <2>3. \A p \in Hits(blob, query) : Parent(p) = AnswerAt(blob, query, p)
    <3> TAKE p \in Hits(blob, query)
    <3>1. p \in Nat
      BY <1>3, HitsAre
    <3> QED
      BY <1>2, <1>6, <3>1 DEF Parent, AnswerAt
  <2> QED
    BY <2>1, <2>2, <2>3
<1>7. CASE query.fn = "find_property"
  <2>1. Answers = {p \in Props : Parent(p) = q /\ blob[p].name = query.name}
    BY <1>7 DEF Answers
  <2>2. ASSUME NEW p \in PropsOf(blob)
        PROVE  Parent(p) = q <=> Child(blob, q, p)
    <3>1. p \in Nat /\ Parent(p) = Max(Over(blob, p))
      BY <1>2, <1>3 DEF Parent
    <3>2. PICK n \in NodesOf(blob) : Child(blob, n, p)
      BY <1>1, EveryPropHasANode
    <3>3. Parent(p) = n
      BY <1>1, <3>1, <3>2, OverAChild
    <3>4. Child(blob, q, p) => q = n
      BY <1>1, <3>1, <3>2, OneParent
    <3> QED
      BY <3>2, <3>3, <3>4
  <2>3. S = Hits(blob, query)
    BY <1>7 DEF AnswerAt
  <2>4. \A p : p \in Hits(blob, query) <=> p \in PropsOf(blob) /\ PropertyAt(blob, query, p)
    BY <1>7, HitsAre
  <2> QED
    BY <1>2, <2>1, <2>2, <2>3, <2>4 DEF PropertyAt
<1>8. CASE query.fn = "print"
  <2>1. Answers = {}
    BY <1>8 DEF Answers
  <2>2. Hits(blob, query) = {}
    BY <1>8, HitsAre
  <2> QED
    BY <2>1, <2>2
<1> QED
  BY <1>1, <1>5, <1>6, <1>7, <1>8 DEF QueryFits

LEMMA SearchInvFinds == WalkInv /\ SearchInv => FindsTheFirst
<1> SUFFICES ASSUME WalkInv, SearchInv, state = "done"
             PROVE  result = IF Answers = {} THEN Nothing ELSE Min(Answers)
  BY DEF FindsTheFirst
<1>1. result = FirstOf({AnswerAt(blob, query, h) : h \in Hits(blob, query)})
  BY DEF SearchInv, Found, Answered
<1> QED
  BY <1>1, AnswersAreHits DEF FirstOf

LEMMA SearchInvPrints == WalkInv /\ SearchInv => PrintsTheTree
<1> SUFFICES ASSUME WalkInv, SearchInv, state = "done", query.fn = "print"
             PROVE  /\ \A j, k \in DOMAIN printed : j < k => printed[j][1] < printed[k][1]
                    /\ Range(printed) = {<<i, Cardinality(Around(i))>> : i \in Nodes \cup Props}
  BY DEF PrintsTheTree
<1>1. InOrder(printed) /\ Range(printed) = LinesTo(blob, Len(blob) + 1)
  BY DEF SearchInv, Found
<1>2. BlobOk /\ blob \in Seq(Tokens)
  BY DEF WalkInv, BlobOk
<1>3. /\ Nodes = NodesOf(blob) /\ Props = PropsOf(blob)
      /\ \A i \in Nat : Around(i) = Over(blob, i)
  BY <1>2, AroundIsOver
<1>4. \A i \in Nodes \cup Props : i \in Nat /\ i < Len(blob) + 1
  BY <1>2, <1>3 DEF NodesOf, PropsOf
<1>5. {j \in NodesOf(blob) \cup PropsOf(blob) : j < Len(blob) + 1} = Nodes \cup Props
  BY <1>3, <1>4
<1>6. \A i \in Nodes \cup Props : Depths(blob, i) = Cardinality(Around(i))
  BY <1>3, <1>4 DEF Depths
<1>7. LinesTo(blob, Len(blob) + 1) = {<<i, Cardinality(Around(i))>> : i \in Nodes \cup Props}
  BY <1>5, <1>6 DEF LinesTo
<1> QED
  BY <1>1, <1>7 DEF InOrder

\* Every search returns the first node or property of the tree that has the
\* path, the compatible string or the name asked for, and nothing exactly if
\* there is none, in every tree (dtb.cpp:86-265).
THEOREM SearchesFindTheFirst == Spec => []FindsTheFirst
<1>1. Init => WalkInv /\ SearchInv
  BY InitWalkInv, InitTree DEF Init, SearchInv
<1>2. WalkInv /\ SearchInv /\ [Next]_vars => (WalkInv /\ SearchInv)'
  BY NextKeepsWalkInv, NextKeepsSearchInv
<1>3. WalkInv /\ SearchInv => FindsTheFirst
  BY SearchInvFinds
<1> QED
  BY <1>1, <1>2, <1>3, PTL DEF Spec

\* print writes one line for every node and property of every tree, in the order
\* of the blob, each with its depth (dtb.hpp:92-148).
THEOREM PrintWritesTheTree == Spec => []PrintsTheTree
<1>1. Init => WalkInv /\ SearchInv
  BY InitWalkInv, InitTree DEF Init, SearchInv
<1>2. WalkInv /\ SearchInv /\ [Next]_vars => (WalkInv /\ SearchInv)'
  BY NextKeepsWalkInv, NextKeepsSearchInv
<1>3. WalkInv /\ SearchInv => PrintsTheTree
  BY SearchInvPrints
<1> QED
  BY <1>1, <1>2, <1>3, PTL DEF Spec
=============================================================================
