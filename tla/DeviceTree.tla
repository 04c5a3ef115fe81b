----------------------------- MODULE DeviceTree -----------------------------
(***************************************************************************)
(* The walks over the structure block of a flattened device tree           *)
(* (kernel/dtb.cpp, include/kernel/dtb.hpp): find_node, skip,              *)
(* find_compatible, find_property and print, token by token, each call a   *)
(* frame of a stack.                                                       *)
(*                                                                         *)
(* The blob is what the firmware leaves: a sequence of tokens, nodes       *)
(* nested, the properties of a node before its subnodes, no two siblings   *)
(* and no two properties of a node with the same name, and Nops anywhere.  *)
(* A token stands for its tag word with the name or the value after it and *)
(* the padding up to the next tag; the position of a token is its address. *)
(***************************************************************************)
EXTENDS Naturals, Sequences, FiniteSets, SequencesExt, FiniteSetsExt

CONSTANTS
  Names,       \* node names: pairs of a name and a unit address, "" if none
  PropNames,   \* names of properties
  Values,      \* values of "compatible": of its list of strings, the first
  MaxTokens,   \* bound on the tokens from the root's to its end
  MaxPath      \* bound on the components of a path

ASSUME DeviceTreeAssumption ==
  /\ "compatible" \in PropNames
  /\ MaxTokens \in Nat /\ MaxPath \in Nat \ {0}

VARIABLES
  blob,      \* the tokens
  query,     \* the call that was made
  stack,     \* the calls under way, the innermost last
  result,    \* what it returned: the address of a node or property, or Nothing
  printed,   \* the lines print has written: addresses and depths
  state      \* "build", "ask", "walk" or "done"

vars == <<blob, query, stack, result, printed, state>>

Nothing == 0
Root == 1

BeginNode(n) == [tag |-> "BeginNode", name |-> n]
Prop(p, v)   == [tag |-> "Prop", name |-> p, value |-> v]
EndNode      == [tag |-> "EndNode"]
Nop          == [tag |-> "Nop"]
Finish       == [tag |-> "End"]

Tag(i) == blob[i].tag
Nodes == {i \in DOMAIN blob : Tag(i) = "BeginNode"}
Props == {i \in DOMAIN blob : Tag(i) = "Prop"}

\* The nodes that are open before the token at i, and the innermost of them.
EndsOf(n, i)  == Cardinality({j \in n .. i - 1 : Tag(j) = "EndNode"})
BeginsOf(n, i) == Cardinality({j \in n .. i - 1 : Tag(j) = "BeginNode"})
Around(i) == {n \in Nodes : n < i /\ \A k \in n + 1 .. i : BeginsOf(n, k) > EndsOf(n, k)}
Parent(i) == Max(Around(i))

-----------------------------------------------------------------------------
(***************************************************************************)
(* The blob (external).                                                    *)
(***************************************************************************)
Next1 == Len(blob) + 1
Siblings == {i \in DOMAIN blob : Around(i) # {} /\ Parent(i) = Parent(Next1)}

\* Room for n tokens and the ends of the nodes that are open.
Open == Around(Next1)
MayAdd(n) == state = "build" /\ Open # {} /\ Len(blob) + n + Cardinality(Open) <= MaxTokens

AddToken(t) ==
  /\ blob' = Append(blob, t)
  /\ UNCHANGED <<query, stack, result, printed, state>>

AddNode ==
  /\ MayAdd(2)
  /\ \E n \in Names :
       /\ \A s \in Siblings \cap Nodes : blob[s].name # n
       /\ AddToken(BeginNode(n))

AddProp ==
  /\ MayAdd(1)
  /\ Siblings \cap Nodes = {}
  /\ \E p \in PropNames : \E v \in (IF p = "compatible" THEN Values ELSE {"cells"}) :
       /\ \A s \in Siblings \cap Props : blob[s].name # p
       /\ AddToken(Prop(p, v))

AddNop == MayAdd(1) /\ AddToken(Nop)
AddEnd == MayAdd(0) /\ AddToken(EndNode)

Seal ==
  /\ state = "build"
  /\ Open = {}
  /\ blob' = Append(blob, Finish)
  /\ state' = "ask"
  /\ UNCHANGED <<query, stack, result, printed>>

Build == AddNode \/ AddProp \/ AddNop \/ AddEnd \/ Seal

-----------------------------------------------------------------------------
Frame(fn, n)     == [fn |-> fn, node |-> n, ptr |-> n + 1]
Top              == Last(stack)
Token            == blob[Top.ptr]
Running(fn, tag) == state = "walk" /\ Top.fn = fn /\ Token.tag = tag

MoveTo(p)  == stack' = [stack EXCEPT ![Len(stack)].ptr = p]
Call(fn, n) == stack' = Append(stack, Frame(fn, n))

Return(value) ==
  /\ result' = value
  /\ stack' = <<>>
  /\ state' = "done"
  /\ UNCHANGED <<blob, query, printed>>

\* The caller goes on at p.
ReturnPtr(p) ==
  stack' = [Front(stack) EXCEPT ![Len(stack) - 1].ptr = p]

Stays == UNCHANGED <<blob, query, result, printed, state>>

Start(q) ==
  /\ state = "ask"
  /\ query' = q
  /\ stack' = <<Frame(q.fn, q.node)>>
  /\ state' = "walk"
  /\ printed' = IF q.fn = "print" THEN <<<<q.node, 0>>>> ELSE <<>>
  /\ UNCHANGED <<blob, result>>

Paths == UNION {[1 .. n -> Names] : n \in 1 .. MaxPath}

Ask ==
  \E n \in Nodes :
    \/ \E path \in Paths, as_prefix \in BOOLEAN :
         Start([fn |-> "find_node", node |-> n, path |-> path, as_prefix |-> as_prefix])
    \/ \E s \in Values : Start([fn |-> "find_compatible", node |-> n, str |-> s])
    \/ \E p \in PropNames : Start([fn |-> "find_property", node |-> n, name |-> p])
    \/ n = Root /\ Start([fn |-> "print", node |-> n])

-----------------------------------------------------------------------------
\* How many components of the path are matched: find_node calls itself with
\* the rest of the path, in place of the call it was in.
Matched == Cardinality(Around(Top.node)) - Cardinality(Around(query.node))
IsTerminal == Matched + 1 = Len(query.path)

\* memcmp over the length of the component, and what follows it in the name:
\* the end, or with as_prefix, for the last component, '@'.
MatchesNode(name, asked) ==
  \/ name = asked
  \/ query.as_prefix /\ IsTerminal /\ asked[2] = "" /\ name[1] = asked[1]

Matches == MatchesNode(Token.name, query.path[Matched + 1])

\* FDTNode::find_node
FindMatch ==
  /\ Running("find_node", "BeginNode")
  /\ Matches
  /\ IF IsTerminal
     THEN Return(Top.ptr)
     ELSE stack' = <<Frame("find_node", Top.ptr)>> /\ Stays

FindOther ==
  /\ Running("find_node", "BeginNode")
  /\ ~Matches
  /\ Call("skip", Top.ptr) /\ Stays

FindNothing ==
  /\ \/ Running("find_node", "EndNode")
     \/ Running("find_node", "End")
  /\ Return(Nothing)

-----------------------------------------------------------------------------
\* Seeded fault: a Nop is not stepped over.
AfterNop_stuck(p) == p
AfterNop(p) == p + 1

StepNop ==
  /\ \E fn \in {"find_node", "skip", "find_compatible", "find_property", "print"} :
       Running(fn, "Nop")
  /\ MoveTo(AfterNop(Top.ptr)) /\ Stays

StepProp ==
  /\ Running("find_node", "Prop") \/ Running("skip", "Prop")
  /\ MoveTo(Top.ptr + 1) /\ Stays

\* FDTNode::skip
SkipNode ==
  /\ Running("skip", "BeginNode")
  /\ Call("skip", Top.ptr) /\ Stays

\* Seeded fault: skip stops at the end of the node, not after it.
Skipped_atEnd(p) == p
\* Seeded fault: the alignment after it skips one token more.
Skipped_over(p) == p + 2
Skipped(p) == p + 1

SkipReturn ==
  /\ Running("skip", "EndNode") \/ Running("skip", "End")
  /\ ReturnPtr(Skipped(Top.ptr)) /\ Stays

-----------------------------------------------------------------------------
\* FDTNode::find_compatible
CompatibleProp ==
  /\ Running("find_compatible", "Prop")
  /\ IF Token.name = "compatible" /\ Token.value = query.str
     THEN Return(Top.node)
     ELSE MoveTo(Top.ptr + 1) /\ Stays

CompatibleNode ==
  /\ Running("find_compatible", "BeginNode")
  /\ Call("find_compatible", Top.ptr) /\ Stays

\* The caller, if there is one, skips the node it has tried.
CompatibleNothing ==
  /\ Running("find_compatible", "EndNode") \/ Running("find_compatible", "End")
  /\ IF Len(stack) = 1
     THEN Return(Nothing)
     ELSE stack' = [stack EXCEPT ![Len(stack)] = Frame("skip", Top.node)] /\ Stays

-----------------------------------------------------------------------------
\* FDTNode::find_property
PropertyProp ==
  /\ Running("find_property", "Prop")
  /\ IF Token.name = query.name
     THEN Return(Top.ptr)
     ELSE MoveTo(Top.ptr + 1) /\ Stays

PropertyNothing ==
  /\ \E tag \in {"BeginNode", "EndNode", "End"} : Running("find_property", tag)
  /\ Return(Nothing)

-----------------------------------------------------------------------------
\* Seeded fault: the caller's depth is not restored after a node.
Depth_printed == Len(printed)
\* The depth of what is printed next.
Depth == Len(stack)

Line == printed' = Append(printed, <<Top.ptr, Depth>>)

\* FDTNode::print and FDTProperty::print
PrintNode ==
  /\ Running("print", "BeginNode")
  /\ Line /\ Call("print", Top.ptr)
  /\ UNCHANGED <<blob, query, result, state>>

PrintProp ==
  /\ Running("print", "Prop")
  /\ Line /\ MoveTo(Top.ptr + 1)
  /\ UNCHANGED <<blob, query, result, state>>

PrintReturn ==
  /\ Running("print", "EndNode") \/ Running("print", "End")
  /\ IF Len(stack) = 1
     THEN Return(Nothing)
     ELSE ReturnPtr(Top.ptr + 1) /\ Stays

Walk ==
  \/ FindMatch \/ FindOther \/ FindNothing
  \/ StepNop \/ StepProp \/ SkipNode \/ SkipReturn
  \/ CompatibleProp \/ CompatibleNode \/ CompatibleNothing
  \/ PropertyProp \/ PropertyNothing
  \/ PrintNode \/ PrintProp \/ PrintReturn

Init ==
  /\ blob = <<BeginNode(<<"", "">>)>>
  /\ query = <<>> /\ stack = <<>> /\ result = Nothing /\ printed = <<>>
  /\ state = "build"

Next == Build \/ Ask \/ Walk

\* The walk is run by the one thread of boot, which does nothing else.
Spec == Init /\ [][Next]_vars /\ WF_vars(Walk)

-----------------------------------------------------------------------------
\* The calls under way are on nodes, only skip is called from another
\* function, and every tag that is read lies in the structure block
\* (dtb.cpp:107-265, dtb.hpp:114-148).
TypeOK ==
  /\ state \in {"build", "ask", "walk", "done"}
  /\ result \in {Nothing} \cup Nodes \cup Props
  /\ (stack # <<>>) = (state = "walk")
  /\ \A k \in DOMAIN stack :
       /\ stack[k].fn \in {query.fn, "skip"}
       /\ stack[k].node \in Nodes
       /\ stack[k].ptr \in DOMAIN blob

\* Each call stays in its node, from its first token to the one that ends it,
\* and returns into the token its caller stopped at, whatever is nested where
\* (dtb.cpp:107-265, dtb.hpp:114-148).
StaysInItsNode ==
  TypeOK /\ (state = "walk" =>
    /\ \A k \in DOMAIN stack : stack[k].node \in Around(stack[k].ptr)
    /\ \A k \in 1 .. Len(stack) - 1 : stack[k + 1].node = stack[k].ptr)

\* Where the tree has what was asked for: Below counts the nodes from n down to m.
Below(n, m) == Cardinality(Around(m)) - Cardinality(Around(n))

HasPath(n, c, path, as_prefix) ==
  /\ n \in Around(c)
  /\ Below(n, c) = Len(path)
  /\ \A m \in Around(c) \cup {c} : n \in Around(m) =>
       LET asked == path[Below(n, m)]
       IN \/ blob[m].name = asked
          \/ as_prefix /\ m = c /\ asked[2] = "" /\ blob[m].name[1] = asked[1]

Answers ==
  CASE query.fn = "find_node" ->
         {c \in Nodes : HasPath(query.node, c, query.path, query.as_prefix)}
    [] query.fn = "find_compatible" ->
         {Parent(p) : p \in {p \in Props : /\ query.node \in Around(p)
                                          /\ blob[p] = Prop("compatible", query.str)}}
    [] query.fn = "find_property" ->
         {p \in Props : Parent(p) = query.node /\ blob[p].name = query.name}
    [] OTHER -> {}

\* Every search returns the first node or property of the tree that has the
\* path, the compatible string or the name asked for, below the node that was
\* asked, and nothing exactly if there is none (dtb.cpp:86-265).
FindsTheFirst ==
  state = "done" => result = IF Answers = {} THEN Nothing ELSE Min(Answers)

\* print writes a line for every node and property, in order, with its depth
\* in the tree (dtb.hpp:92-148).
PrintsTheTree ==
  state = "done" /\ query.fn = "print" =>
    /\ \A j, k \in DOMAIN printed : j < k => printed[j][1] < printed[k][1]
    /\ Range(printed) = {<<i, Cardinality(Around(i))>> : i \in Nodes \cup Props}

\* Every walk ends (dtb.cpp:116, 166, 201, 242; dtb.hpp:122).
WalkEnds == state = "walk" ~> state = "done"
=============================================================================
