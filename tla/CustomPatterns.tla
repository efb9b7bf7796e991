--------------------------- MODULE CustomPatterns ---------------------------
(***************************************************************************)
(* The custom redaction patterns of a configuration                        *)
(* (src/privacy/redact.ts): a pattern is parsed into a tree, and is        *)
(* refused when the tree may match a word in too many ways.  The trees are *)
(* judged by their syntax alone; the properties below compare the verdict  *)
(* with what the patterns match.                                           *)
(*                                                                         *)
(* A pattern is a sequence of tokens, typed one by one.  A character class *)
(* is one token; escapes, anchors and case variants are left out: they     *)
(* only make other domains, or empty nodes.                                *)
(***************************************************************************)
EXTENDS Naturals, Sequences, FiniteSets, FiniteSetsExt, SequencesExt

CONSTANTS
  MaxTokens,  \* bound on the tokens of a pattern
  MaxWord     \* bound on the words that are matched

Letter == {"a", "b"}
Quantifier == {"*", "?", "{2}"}
Token == Letter \cup Quantifier \cup {"[ab]", ".", "(", ")", "|"}

VARIABLE pattern
vars == <<pattern>>

-----------------------------------------------------------------------------
(* Trees                                                                   *)

Undefined == {"undefined"}  \* the domain of a character that is not known
Empty == [kind |-> "empty"]
ClassDomain(token) == IF token = "[ab]" THEN Letter ELSE {token}
Character(domain) == [kind |-> "character", domain |-> domain]
Many == MaxWord + 2         \* more often than any word here is long
Repetition(child, token) ==
  [kind |-> "repetition", children |-> <<child>>, minimum |-> IF token = "{2}" THEN 2 ELSE 0,
   maximum |-> CASE token = "*" -> Many [] token = "?" -> 1 [] OTHER -> 2]
Sequence(nodes) ==
  CASE nodes = <<>> -> Empty [] Len(nodes) = 1 -> nodes[1]
    [] OTHER -> [kind |-> "sequence", children |-> nodes]
Alternation(nodes) == IF Len(nodes) = 1 THEN nodes[1] ELSE [kind |-> "alternation", children |-> nodes]

Child(node) == {node.children[i] : i \in DOMAIN node.children}
ChildOf(node) == IF node.kind \in {"empty", "character"} THEN {} ELSE Child(node)
Variable(node) == node.minimum # node.maximum

-----------------------------------------------------------------------------
(* The parser: a node, and where it ends (0: the pattern has no tree)      *)

Peek(p, i) == IF i \in 1..Len(p) THEN p[i] ELSE "end"
NoTree == [node |-> Empty, next |-> 0]

\* A quantifier may be lazy.
AfterQuantifier(p, i) == IF Peek(p, i + 1) = "?" THEN i + 2 ELSE i + 1

RECURSIVE ParseAlternation(_, _, _)
ParseAtom(p, i) ==
  CASE Peek(p, i) = "(" ->
         LET group == ParseAlternation(p, i + 1, <<>>) IN
           IF Peek(p, group.next) = ")" THEN [group EXCEPT !.next = @ + 1] ELSE NoTree
    [] Peek(p, i) = "." -> [node |-> Character(Undefined), next |-> i + 1]
    [] Peek(p, i) \in Letter \cup {"[ab]"} -> [node |-> Character(ClassDomain(p[i])), next |-> i + 1]
    [] OTHER -> NoTree

ParseQuantifiedAtom(p, i) ==
  LET atom == ParseAtom(p, i) IN
    IF atom.next # 0 /\ Peek(p, atom.next) \in Quantifier
    THEN [node |-> Repetition(atom.node, p[atom.next]), next |-> AfterQuantifier(p, atom.next)]
    ELSE atom

RECURSIVE ParseSequence(_, _, _)
ParseSequence(p, i, nodes) ==
  IF Peek(p, i) \in {"end", "|", ")"} THEN [node |-> Sequence(nodes), next |-> i]
  ELSE LET atom == ParseQuantifiedAtom(p, i) IN
         IF atom.next = 0 THEN NoTree ELSE ParseSequence(p, atom.next, Append(nodes, atom.node))

ParseAlternation(p, i, nodes) ==
  LET branch == ParseSequence(p, i, <<>>) IN
    CASE branch.next = 0 -> NoTree
      [] branch.next # 0 /\ Peek(p, branch.next) = "|" ->
           ParseAlternation(p, branch.next + 1, Append(nodes, branch.node))
      [] OTHER -> [node |-> Alternation(Append(nodes, branch.node)), next |-> branch.next]

\* parseRegexSafetyPattern
Parses(p) == ParseAlternation(p, 1, <<>>).next = Len(p) + 1
Tree(p) == ParseAlternation(p, 1, <<>>).node

-----------------------------------------------------------------------------
(* The verdict                                                             *)

RECURSIVE CanMatchEmpty(_)
CanMatchEmpty(node) ==
  CASE node.kind = "empty" -> TRUE
    [] node.kind = "character" -> FALSE
    [] node.kind = "repetition" -> node.minimum = 0 \/ CanMatchEmpty(node.children[1])
    [] node.kind = "alternation" -> \E child \in ChildOf(node) : CanMatchEmpty(child)
    [] OTHER -> \A child \in ChildOf(node) : CanMatchEmpty(child)

\* mergeRegexCharacterRanges: a domain that is not known hides the others.
MergeDomains(domains) == IF Undefined \in domains THEN Undefined ELSE UNION domains

\* Of a sequence, the nodes up to the first that must match something count.
RECURSIVE FirstDomain(_)
FirstDomain(node) ==
  CASE node.kind = "empty" -> {}
    [] node.kind = "character" -> node.domain
    [] node.kind = "sequence" ->
         LET Counts(i) == \A j \in 1..(i - 1) : CanMatchEmpty(node.children[j]) IN
           MergeDomains({FirstDomain(node.children[i]) : i \in {i \in DOMAIN node.children : Counts(i)}})
    [] OTHER -> MergeDomains({FirstDomain(child) : child \in ChildOf(node)})

ProvablyDisjoint(left, right) == Undefined \notin {left, right} /\ left \cap right = {}

RECURSIVE HasRepetition(_)
HasRepetition(node) == node.kind = "repetition" \/ \E child \in ChildOf(node) : HasRepetition(child)

RECURSIVE HasNestedRepetition(_)
HasNestedRepetition(node) ==
  \E child \in ChildOf(node) : (node.kind = "repetition" /\ HasRepetition(child)) \/ HasNestedRepetition(child)

BranchesOverlap(node) ==
  \/ \E branch \in ChildOf(node) : CanMatchEmpty(branch)
  \/ \E i, j \in DOMAIN node.children :
       i < j /\ ~ProvablyDisjoint(FirstDomain(node.children[i]), FirstDomain(node.children[j]))

RECURSIVE HasAmbiguousAlternationWithin(_)
HasAmbiguousAlternationWithin(node) ==
  \/ node.kind = "alternation" /\ BranchesOverlap(node)
  \/ \E child \in ChildOf(node) : HasAmbiguousAlternationWithin(child)

\* Fault: only an alternation that is repeated itself is looked at.
HasAmbiguousRepeatedAlternation_Shallow(node) ==
  node.kind = "repetition" /\ node.children[1].kind = "alternation" /\ BranchesOverlap(node.children[1])
RECURSIVE HasAmbiguousRepeatedAlternation(_)
HasAmbiguousRepeatedAlternation(node) ==
  \E child \in ChildOf(node) : \/ node.kind = "repetition" /\ HasAmbiguousAlternationWithin(child)
                               \/ HasAmbiguousRepeatedAlternation(child)

RECURSIVE VariableRepetitions(_)
VariableRepetitions(node) ==
  IF node.kind = "repetition" THEN IF Variable(node) THEN {node} ELSE {}
  ELSE UNION {VariableRepetitions(child) : child \in ChildOf(node)}

\* regexSequenceHasAmbiguousRepetition: no two repetitions of a sequence begin alike.
RepetitionsOverlap(left, right) ==
  \E l \in left, r \in right :
    ~ProvablyDisjoint(FirstDomain(l.children[1]), FirstDomain(r.children[1]))

RECURSIVE HasAmbiguousSequentialRepetition(_)
HasAmbiguousSequentialRepetition(node) ==
  \/ \E child \in ChildOf(node) : HasAmbiguousSequentialRepetition(child)
  \/ /\ node.kind = "sequence"
     /\ \E i, j \in DOMAIN node.children :
          i < j /\ RepetitionsOverlap(VariableRepetitions(node.children[i]), VariableRepetitions(node.children[j]))

\* detectUnsafeQuantifiedGroup; a pattern without a tree is left to RegExp.
Unsafe(p) ==
  Parses(p) /\ \/ HasNestedRepetition(Tree(p))
               \/ HasAmbiguousRepeatedAlternation(Tree(p))
               \/ HasAmbiguousSequentialRepetition(Tree(p))

-----------------------------------------------------------------------------
(* What the patterns mean                                                  *)

\* What RegExp takes for a regular expression: groups are closed, and each
\* quantifier follows what it repeats, or makes the one before it lazy.
Ends(p, i) == i > 0 /\ p[i] \in Letter \cup {"[ab]", ".", ")"}
Repeats(p, i) == Ends(p, i - 1)
MakesLazy(p, i) == p[i] = "?" /\ i > 1 /\ p[i - 1] \in Quantifier /\ Repeats(p, i - 1)
Sound(p) ==
  /\ \A i \in DOMAIN p : p[i] \in Quantifier => Repeats(p, i) \/ MakesLazy(p, i)
  /\ \A n \in 0..Len(p) :
       LET Count(token) == Cardinality({i \in 1..n : p[i] = token}) IN Count(")") <= Count("(")
Closed(p) == Cardinality({i \in DOMAIN p : p[i] = "("}) = Cardinality({i \in DOMAIN p : p[i] = ")"})
IsRegExp(p) == Sound(p) /\ Closed(p)

Word == UNION {[1..n -> Letter] : n \in 0..MaxWord}
Total(f(_), S) == FoldSet(LAMBDA x, sum : f(x) + sum, 0, S)
Start(w, n) == SubSeq(w, 1, n)
End(w, n) == SubSeq(w, n + 1, Len(w))

\* In how many ways a node matches a word.  A repetition that has had its minimum
\* does not match the empty word.
RECURSIVE Ways(_, _), SequenceWays(_, _), RepetitionWays(_, _, _)
Ways(node, w) ==
  CASE node.kind = "empty" -> IF w = <<>> THEN 1 ELSE 0
    [] node.kind = "character" -> 
         IF Len(w) = 1 /\ (node.domain = Undefined \/ w[1] \in node.domain) THEN 1 ELSE 0
    [] node.kind = "alternation" ->
         LET InBranch(i) == Ways(node.children[i], w) IN Total(InBranch, DOMAIN node.children)
    [] node.kind = "sequence" -> SequenceWays(node.children, w)
    [] OTHER -> RepetitionWays(node, w, 0)
SequenceWays(nodes, w) ==
  IF nodes = <<>> THEN IF w = <<>> THEN 1 ELSE 0
  ELSE LET Split(n) == Ways(nodes[1], Start(w, n)) * SequenceWays(Tail(nodes), End(w, n))
       IN  Total(Split, 0..Len(w))
RepetitionWays(node, w, done) ==
  LET Split(n) == Ways(node.children[1], Start(w, n)) * RepetitionWays(node, End(w, n), done + 1)
      Least == IF done < node.minimum THEN 0 ELSE 1
  IN  (IF w = <<>> /\ done >= node.minimum THEN 1 ELSE 0)
      + (IF done < node.maximum THEN Total(Split, Least..Len(w)) ELSE 0)

\* validateCustomRedactionPattern: RegExp has the last word, and no pattern may
\* match nothing.
Accepted(p) == ~Unsafe(p) /\ IsRegExp(p) /\ Ways(Tree(p), <<>>) = 0

-----------------------------------------------------------------------------
Init == pattern = <<>>
\* Bound: a pattern that RegExp refuses whatever follows is not continued.
Type ==
  /\ Len(pattern) < MaxTokens /\ Sound(pattern)
  /\ \E token \in Token : pattern' = Append(pattern, token)
Next == Type
Spec == Init /\ [][Next]_vars

-----------------------------------------------------------------------------
(* Properties                                                              *)

RECURSIVE Nodes(_)
Nodes(node) == {node} \cup UNION {Nodes(child) : child \in ChildOf(node)}

\* The parser gives a tree to every pattern that RegExp takes, so that none of
\* them gets around the verdict, and to no other.
EveryRegExpIsJudged == Parses(pattern) <=> IsRegExp(pattern)

\* No repetition of an accepted pattern matches a word in two ways.
RepetitionsAreUnambiguous ==
  Accepted(pattern) =>
    \A node \in Nodes(Tree(pattern)), w \in Word : node.kind = "repetition" => Ways(node, w) <= 1

\* No two variable repetitions in a row compete for a word.
RepetitionsDoNotCompete ==
  Accepted(pattern) =>
    \A node \in Nodes(Tree(pattern)) : node.kind = "sequence" =>
      \A i, j \in DOMAIN node.children : i < j =>
        \A l \in VariableRepetitions(node.children[i]), r \in VariableRepetitions(node.children[j]), w \in Word :
          w = <<>> \/ Ways(l, w) = 0 \/ Ways(r, w) = 0

\* The verdict on a custom pattern: none gets around it, and what it accepts is
\* free of both ambiguities.
AcceptedIsUnambiguous ==
  EveryRegExpIsJudged /\ RepetitionsAreUnambiguous /\ RepetitionsDoNotCompete
=============================================================================
