-------------------------- MODULE AddRevisionProofs --------------------------
(***************************************************************************)
(* Proofs about AddRevision: its types, that what it marks the projects    *)
(* with was true at some moment of the run, and that the document it       *)
(* writes has every include replaced.                                      *)
(***************************************************************************)
EXTENDS AddRevision, SequenceTheorems, WellFoundedInduction, TLAPS

Frames == [children : Seq(Nodes), includes : SUBSET Nodes]
Stages == {"start", "parse", "loop", "move", "project", "tag", "ref",
           "open", "write", "done", "failed"}

(***************************************************************************)
(* The inductive invariant.                                                *)
(***************************************************************************)
\* The types of the disk and the command line.
DiskInv ==
  /\ tree \in Trees /\ heads \in [Paths \ Missing -> Commits] /\ moves \in 0..MaxMoves
  /\ option \in [sinks : SUBSET {"output", "stdio"}, force : BOOLEAN,
                 tags : BOOLEAN, onlyAnnotated : BOOLEAN]
  /\ headsSeen \in [Paths \ Missing -> SUBSET Commits]
  /\ \A p \in Paths \ Missing : heads[p] \in headsSeen[p]

\* The node is an element of a manifest on the disk.
OnDisk(node) == node[1] \in DOMAIN tree /\ node[2] \in DOMAIN tree[node[1]]

\* An include that is still to come is still among the children.
FrameInv(frame) ==
  /\ \A l \in DOMAIN frame.children : OnDisk(frame.children[l])
  /\ \A node \in frame.includes :
       /\ OnDisk(node) /\ Element(node).kind = "include"
       /\ \E l \in DOMAIN frame.children : frame.children[l] = node

\* The types of the parser; a frame that waits for a call has an include in
\* its hands.
ParsingInv ==
  /\ pc \in Stages /\ arg \in Files
  /\ stack \in Seq(Frames) /\ Len(stack) <= MaxDepth
  /\ m \in Seq(Nodes) /\ i \in Nat \ {0}
  /\ \A l \in DOMAIN m : OnDisk(m[l])
  /\ \A k \in DOMAIN stack :
       /\ FrameInv(stack[k])
       /\ k < Len(stack) \/ pc \in {"parse", "move"} => stack[k].includes # {}
  /\ pc = "start" => stack = <<>>
  /\ pc \in Stages \ {"start", "parse", "failed"} => stack # <<>>

\* The types of what the projects are marked with.
MarkTypes ==
  /\ todo \subseteq DOMAIN revision /\ DOMAIN revision \subseteq Nat
  /\ revision \in [DOMAIN revision -> Revisions \cup {Given}]
  /\ comment \in [DOMAIN revision -> Refs \cup {"no comment"}]
  /\ tag \in Refs /\ out \in {"old", "empty", "written"}
  /\ unanswered \cup overtaken \subseteq DOMAIN revision

\* Project k has the revision it should have.
RightRevision(k) ==
  \/ Project(k).revision = Given /\ ~option.force /\ revision[k] = Given
  \/ /\ Project(k).revision = Nothing \/ option.force
     /\ Project(k).path \notin Missing
     /\ \/ revision[k] \in headsSeen[Project(k).path]
        \/ revision[k] \in {Nothing, Word} /\ k \in unanswered

\* git answered each time it was asked about project k, and about one commit.
Quiet(k) == k \notin unanswered \cup overtaken

\* The comment before project k is the one it should have.
RightComment(k) ==
  Quiet(k) =>
    comment[k] = IF option.tags /\ revision[k] \in Commits
                    /\ TagFor(revision[k]) # Nothing
                 THEN TagFor(revision[k]) ELSE "no comment"

\* The projects are known.
Known == pc \in {"project", "tag", "ref", "open", "write", "done"} \/ out # "old"

MarkInv ==
  /\ out # "old" => pc \in {"write", "done", "failed"}
  /\ pc \in {"start", "parse", "loop", "move"} => todo = {} /\ DOMAIN revision = {}
  /\ Known => stack # <<>> /\ DOMAIN revision = Projects
  /\ Complete => todo = {}
  /\ Known => \A k \in Projects \ todo : RightRevision(k) /\ RightComment(k)
  /\ \A k \in todo : comment[k] = "no comment"
  /\ \A k \in todo : \/ revision[k] = Project(k).revision
                     \/ pc \in {"tag", "ref", "failed"} /\ k = Current
  /\ pc \in {"tag", "ref"} =>
       /\ todo # {} /\ RightRevision(Current) /\ Path \notin Missing
       /\ revision[Current] # Given
       /\ Quiet(Current) => /\ revision[Current] = heads[Path]
                            /\ pc = "ref" => tag = TagFor(heads[Path])

Inv == DiskInv /\ ParsingInv /\ MarkTypes /\ MarkInv
-----------------------------------------------------------------------------
(***************************************************************************)
(* The operators of the model.                                             *)
(***************************************************************************)
\* A set of numbers that is not empty has a least one.
LEMMA LeastOf ==
  ASSUME NEW S, S \subseteq Nat, S # {}
  PROVE  \E k \in S : \A j \in S : k <= j
<1>1. \E k \in S : \A j \in S : ~(<<j, k>> \in OpToRel(<, Nat))
  BY NatLessThanWellFounded, WFMin
<1>2. PICK k \in S : \A j \in S : ~(<<j, k>> \in OpToRel(<, Nat))
  BY <1>1
<1>3. ASSUME NEW j \in S
      PROVE  k <= j
  <2>1. ~(<<j, k>> \in {ss \in Nat \X Nat : ss[1] < ss[2]})
    BY <1>2 DEF OpToRel
  <2>2. j \in Nat /\ k \in Nat
    OBVIOUS
  <2>3. ~(j < k)
    BY <2>1, <2>2
  <2> QED BY <2>2, <2>3
<1> QED BY <1>3

\* The loop over the projects is at one of them.
LEMMA CurrentIsOne ==
  ASSUME todo \subseteq Nat, todo # {}
  PROVE  Current \in todo
BY LeastOf DEF Current

\* The loop over the includes is at one of them.
LEMMA NextIsOne ==
  ASSUME Frame.includes \subseteq Nodes, Frame.includes # {}
  PROVE  NextInclude \in Frame.includes
<1>1. \A node \in Nodes : node[2] \in Nat
  BY DEF Nodes
<1>2. PICK k \in {node[2] : node \in Frame.includes} :
        \A j \in {node[2] : node \in Frame.includes} : k <= j
  BY <1>1, LeastOf
<1>3. PICK node \in Frame.includes : \A o \in Frame.includes : node[2] <= o[2]
  BY <1>2
<1> QED BY <1>3 DEF NextInclude

\* InsertAt() makes room for one element and keeps the others.
LEMMA Insertion ==
  ASSUME NEW S, NEW s \in Seq(S), NEW k \in 1..Len(s), NEW e \in S
  PROVE  /\ InsertAt(s, k, e) \in Seq(S)
         /\ Len(InsertAt(s, k, e)) = Len(s) + 1
         /\ \A l \in 1..Len(s) + 1 :
              /\ l < k => InsertAt(s, k, e)[l] = s[l]
              /\ l = k => InsertAt(s, k, e)[l] = e
              /\ l > k => InsertAt(s, k, e)[l] = s[l - 1]
<1> DEFINE head == SubSeq(s, 1, k - 1)
           tail == SubSeq(s, k, Len(s))
<1>1. Len(s) \in Nat /\ k \in Nat /\ \A l \in 1..Len(s) : s[l] \in S
  BY LenProperties, ElementOfSeq
<1>2. /\ head \in Seq(S) /\ Len(head) = k - 1
      /\ \A l \in 1..k - 1 : head[l] = s[l]
  <2>1. \A l \in 1..k - 1 : s[l] \in S
    BY <1>1
  <2>2. /\ head \in Seq(S) /\ Len(head) = IF 1 <= k - 1 THEN k - 1 - 1 + 1 ELSE 0
        /\ \A l \in 1..k - 1 - 1 + 1 : head[l] = s[1 + l - 1]
    BY <1>1, <2>1, SubSeqProperties
  <2> HIDE DEF head
  <2> QED BY <1>1, <2>2
<1>3. /\ tail \in Seq(S) /\ Len(tail) = Len(s) - k + 1
      /\ \A l \in 1..Len(s) - k + 1 : tail[l] = s[k + l - 1]
  <2>1. \A l \in k..Len(s) : s[l] \in S
    BY <1>1
  <2>2. /\ tail \in Seq(S)
        /\ Len(tail) = IF k <= Len(s) THEN Len(s) - k + 1 ELSE 0
        /\ \A l \in 1..Len(s) - k + 1 : tail[l] = s[k + l - 1]
    BY <1>1, <2>1, SubSeqProperties
  <2> HIDE DEF tail
  <2> QED BY <1>1, <2>2
<1>4. InsertAt(s, k, e) = head \o <<e>> \o tail
  BY DEF InsertAt
<1> HIDE DEF head, tail
<1>5. <<e>> \in Seq(S) /\ Len(<<e>>) = 1 /\ <<e>>[1] = e
  OBVIOUS
<1> DEFINE front == head \o <<e>>
<1>6. /\ front \in Seq(S) /\ Len(front) = k
      /\ \A l \in 1..k : front[l] = IF l < k THEN s[l] ELSE e
  BY <1>1, <1>2, <1>5, ConcatProperties
<1>7. InsertAt(s, k, e) = front \o tail
  BY <1>4
<1> HIDE DEF front
<1>8. /\ front \o tail \in Seq(S) /\ Len(front \o tail) = Len(front) + Len(tail)
      /\ \A l \in 1..Len(front) + Len(tail) :
           (front \o tail)[l] = IF l <= Len(front) THEN front[l]
                               ELSE tail[l - Len(front)]
  BY <1>3, <1>6, ConcatProperties
<1>9. Len(front) + Len(tail) = Len(s) + 1
  BY <1>1, <1>3, <1>6
<1>10. ASSUME NEW l \in 1..Len(s) + 1
       PROVE  /\ l <= k => (front \o tail)[l] = front[l]
              /\ l > k => (front \o tail)[l] = s[l - 1]
  <2>1. (front \o tail)[l] = IF l <= k THEN front[l] ELSE tail[l - k]
    BY <1>6, <1>8, <1>9
  <2>2. l > k => l - k \in 1..Len(s) - k + 1 /\ k + (l - k) - 1 = l - 1
    BY <1>1
  <2>3. l > k => tail[l - k] = s[l - 1]
    BY <1>3, <2>2
  <2> QED BY <1>1, <2>1, <2>3
<1>11. ASSUME NEW l \in 1..Len(s) + 1
       PROVE  /\ l < k => (front \o tail)[l] = s[l]
              /\ l = k => (front \o tail)[l] = e
              /\ l > k => (front \o tail)[l] = s[l - 1]
  <2>1. l < k => front[l] = s[l]
    BY <1>1, <1>6
  <2>2. l = k => front[l] = e
    BY <1>1, <1>6
  <2>3. (l < k => l <= k) /\ (l = k => l <= k)
    BY <1>1
  <2> QED BY <1>10, <2>1, <2>2, <2>3
<1> QED BY <1>7, <1>8, <1>9, <1>11

\* RemoveAt() closes the gap and keeps the others.
LEMMA Removal ==
  ASSUME NEW S, NEW s \in Seq(S), NEW k \in 1..Len(s)
  PROVE  /\ RemoveAt(s, k) \in Seq(S)
         /\ Len(RemoveAt(s, k)) = Len(s) - 1
         /\ \A l \in 1..Len(s) - 1 :
              /\ l < k => RemoveAt(s, k)[l] = s[l]
              /\ l >= k => RemoveAt(s, k)[l] = s[l + 1]
<1> DEFINE head == SubSeq(s, 1, k - 1)
           tail == SubSeq(s, k + 1, Len(s))
<1>1. Len(s) \in Nat /\ k \in Nat /\ \A l \in 1..Len(s) : s[l] \in S
  BY LenProperties, ElementOfSeq
<1>2. /\ head \in Seq(S) /\ Len(head) = k - 1
      /\ \A l \in 1..k - 1 : head[l] = s[l]
  <2>1. \A l \in 1..k - 1 : s[l] \in S
    BY <1>1
  <2>2. /\ head \in Seq(S) /\ Len(head) = IF 1 <= k - 1 THEN k - 1 - 1 + 1 ELSE 0
        /\ \A l \in 1..k - 1 - 1 + 1 : head[l] = s[1 + l - 1]
    BY <1>1, <2>1, SubSeqProperties
  <2> HIDE DEF head
  <2> QED BY <1>1, <2>2
<1>3. /\ tail \in Seq(S) /\ Len(tail) = Len(s) - k
      /\ \A l \in 1..Len(s) - k : tail[l] = s[k + l]
  <2>1. \A l \in k + 1..Len(s) : s[l] \in S
    BY <1>1
  <2>2. /\ tail \in Seq(S)
        /\ Len(tail) = IF k + 1 <= Len(s) THEN Len(s) - (k + 1) + 1 ELSE 0
        /\ \A l \in 1..Len(s) - (k + 1) + 1 : tail[l] = s[k + 1 + l - 1]
    BY <1>1, <2>1, SubSeqProperties
  <2> HIDE DEF tail
  <2>3. Len(tail) = Len(s) - k
    BY <1>1, <2>2
  <2>4. ASSUME NEW l \in 1..Len(s) - k
        PROVE  tail[l] = s[k + l]
    <3>1. l \in 1..Len(s) - (k + 1) + 1 /\ k + 1 + l - 1 = k + l
      BY <1>1
    <3> QED BY <2>2, <3>1
  <2> QED BY <2>2, <2>3, <2>4
<1>4. RemoveAt(s, k) = head \o tail
  BY DEF RemoveAt
<1> HIDE DEF head, tail
<1>5. /\ head \o tail \in Seq(S) /\ Len(head \o tail) = Len(head) + Len(tail)
      /\ \A l \in 1..Len(head) + Len(tail) :
           (head \o tail)[l] = IF l <= Len(head) THEN head[l]
                              ELSE tail[l - Len(head)]
  <2>1. head \in Seq(S) /\ tail \in Seq(S)
    BY <1>2, <1>3
  <2> QED BY ONLY <2>1, ConcatProperties
<1>6. Len(head) + Len(tail) = Len(s) - 1
  BY <1>1, <1>2, <1>3
<1>7. ASSUME NEW l \in 1..Len(s) - 1
      PROVE  /\ l < k => (head \o tail)[l] = s[l]
             /\ l >= k => (head \o tail)[l] = s[l + 1]
  <2>1. (head \o tail)[l] = IF l <= k - 1 THEN head[l] ELSE tail[l - (k - 1)]
    BY <1>2, <1>5, <1>6
  <2>2. /\ l < k => l <= k - 1 /\ l \in 1..k - 1
        /\ l >= k => /\ ~(l <= k - 1) /\ l - (k - 1) \in 1..Len(s) - k
                     /\ k + (l - (k - 1)) = l + 1
    BY <1>1
  <2>3. l >= k => tail[l - (k - 1)] = s[l + 1]
    BY <1>3, <2>2
  <2>4. l < k => head[l] = s[l]
    BY <1>2, <2>2
  <2> QED BY <2>1, <2>2, <2>3, <2>4
<1> QED BY <1>4, <1>5, <1>6, <1>7

-----------------------------------------------------------------------------
(***************************************************************************)
(* The elements of the manifests.                                          *)
(***************************************************************************)
\* A node that is on the disk is an element.
LEMMA ElementTypes ==
  ASSUME DiskInv, NEW node \in Nodes, OnDisk(node)
  PROVE  /\ Element(node) \in Elements
         /\ Element(node).kind = "include" => Element(node).file \in Files
         /\ Element(node).kind = "project" =>
              /\ Element(node).path \in Paths
              /\ Element(node).revision \in {Nothing, Given}
<1>1. tree[node[1]] \in Seq(Elements)
  BY AddRevisionAssumption DEF DiskInv, OnDisk
<1>2. Element(node) \in Elements
  BY <1>1, ElementOfSeq, LenProperties DEF OnDisk, Element
<1> QED BY <1>2 DEF Elements

\* The children of a manifest are on the disk.
LEMMA ChildrenOnDisk ==
  ASSUME DiskInv, NEW f \in DOMAIN tree,
         NEW children, children = [k \in 1..Len(tree[f]) |-> <<f, k>>]
  PROVE  /\ children \in Seq(Nodes)
         /\ \A l \in DOMAIN children : OnDisk(children[l])
<1>1. f \in Files /\ tree[f] \in Seq(Elements)
  BY AddRevisionAssumption DEF DiskInv
<1>2. Len(tree[f]) \in Nat /\ DOMAIN tree[f] = 1..Len(tree[f])
  BY <1>1, LenProperties
<1>3. \A k \in 1..Len(tree[f]) : <<f, k>> \in Nodes
  BY <1>1, <1>2 DEF Nodes
<1>4. children \in Seq(Nodes)
  BY <1>2, <1>3, IsASeq
<1> QED BY <1>2, <1>4 DEF OnDisk

\* The projects of the document, once it is known.
LEMMA ProjectTypes ==
  ASSUME DiskInv, ParsingInv, stack # <<>>, NEW k \in Projects
  PROVE  /\ k \in Nat
         /\ Project(k).path \in Paths
         /\ Project(k).revision \in {Nothing, Given}
<1>1. stack[1] \in Frames /\ 1 \in DOMAIN stack
  BY LenProperties, ElementOfSeq, EmptySeq DEF ParsingInv
<1>2. Document \in Seq(Nodes) /\ \A l \in DOMAIN Document : OnDisk(Document[l])
  BY <1>1 DEF ParsingInv, FrameInv, Document, Frames
<1>3. k \in 1..Len(Document) /\ Len(Document) \in Nat
  BY <1>2, LenProperties DEF Projects
<1>4. Document[k] \in Nodes /\ OnDisk(Document[k])
  BY <1>2, <1>3, ElementOfSeq DEF Projects
<1>5. Element(Document[k]).kind = "project"
  BY DEF Projects
<1> QED BY <1>3, <1>4, <1>5, ElementTypes DEF Project

-----------------------------------------------------------------------------
(***************************************************************************)
(* The steps keep the invariant.                                           *)
(***************************************************************************)
LEMMA InitInv == Init => Inv
<1> SUFFICES ASSUME Init PROVE Inv
  OBVIOUS
<1>1. DiskInv
  BY AddRevisionAssumption DEF Init, DiskInv
<1>2. ParsingInv
  BY AddRevisionAssumption, EmptySeq DEF Init, ParsingInv, Stages
<1>3. MarkTypes
  BY DEF Init, MarkTypes, Refs, Revisions
<1>4. MarkInv
  BY DEF Init, MarkInv, Known, Complete
<1> QED BY <1>1, <1>2, <1>3, <1>4 DEF Inv

\* The repositories keep their revisions on disk, and what is on disk stays in range.
LEMMA DiskStep ==
  ASSUME Inv, [Next]_vars
  PROVE  DiskInv'
<1>1. CASE UNCHANGED <<disk, option>>
  BY <1>1 DEF Inv, DiskInv, disk
<1>2. CASE World
  <2>1. PICK p \in Paths \ Missing, c \in Commits :
          /\ heads' = [heads EXCEPT ![p] = c]
          /\ headsSeen' = [headsSeen EXCEPT ![p] = @ \cup {c}]
    BY <1>2 DEF World
  <2>2. /\ heads' \in [Paths \ Missing -> Commits]
        /\ headsSeen' \in [Paths \ Missing -> SUBSET Commits]
        /\ \A q \in Paths \ Missing : heads'[q] \in headsSeen'[q]
    BY <2>1 DEF Inv, DiskInv
  <2>3. moves' \in 0..MaxMoves /\ UNCHANGED <<tree, option>>
    BY <1>2, AddRevisionAssumption DEF World, Inv, DiskInv
  <2> QED BY <2>2, <2>3 DEF Inv, DiskInv
<1>3. Next => World \/ UNCHANGED <<disk, option>>
  BY DEF Next, BadUsage, Begin, Raise, ParseManifest, CannotParse, Parse,
         ParseInclude, Return, Move, RemoveInclude, Mark, Parsed, KeepRevision,
         MissingRepository, CannotRunGit, FindRev, FindTag, FindRef, EndProjects,
         OpenOutput, Write, WriteFails, disk
<1> QED BY <1>1, <1>2, <1>3 DEF vars, disk

\* What holds of the innermost frame.
LEMMA FrameTypes ==
  ASSUME ParsingInv, stack # <<>>
  PROVE  /\ Len(stack) \in Nat \ {0} /\ DOMAIN stack = 1..Len(stack)
         /\ Len(stack) \in DOMAIN stack
         /\ Frame = stack[Len(stack)] /\ Frame \in Frames
         /\ Frame.children \in Seq(Nodes) /\ Frame.includes \subseteq Nodes
<1>1. Len(stack) \in Nat \ {0} /\ DOMAIN stack = 1..Len(stack)
  BY LenProperties, EmptySeq DEF ParsingInv
<1>2. Frame = stack[Len(stack)]
  BY DEF Frame, Last
<1>3. Frame \in Frames
  BY <1>1, <1>2, ElementOfSeq DEF ParsingInv
<1> QED BY <1>1, <1>2, <1>3 DEF Frames

\* A frame is judged by the disk alone.
LEMMA FrameRests ==
  ASSUME UNCHANGED tree, NEW k, FrameInv(stack'[k])
  PROVE  FrameInv(stack[k])'
BY DEF FrameInv, OnDisk, Element

\* A step that leaves the parser alone.
LEMMA ParserRests ==
  ASSUME ParsingInv, UNCHANGED <<tree, arg, stack, m, i>>, pc' \in Stages,
         pc' \in {"parse", "move"} => pc \in {"parse", "move"} \/ stack = <<>>,
         pc' = "start" => pc = "start",
         pc' \notin {"start", "parse", "failed"} => stack # <<>>
  PROVE  ParsingInv'
<1>1. \A k \in DOMAIN stack' : FrameInv(stack[k])'
  BY FrameRests DEF ParsingInv
<1>2. (pc' \in {"parse", "move"}) => \A k \in DOMAIN stack :
          k < Len(stack) \/ pc' \in {"parse", "move"} => stack[k].includes # {}
  BY DEF ParsingInv
<1>3. \A k \in DOMAIN stack :
          k < Len(stack) \/ pc' \in {"parse", "move"} => stack[k].includes # {}
  BY <1>2 DEF ParsingInv
<1> QED BY <1>1, <1>3 DEF ParsingInv, OnDisk

\* Opening a manifest, or failing to, keeps the stack of frames in order.
LEMMA ParseStep ==
  ASSUME Inv, Parse
  PROVE  ParsingInv'
<1> DEFINE children == [k \in 1..Len(tree[arg]) |-> <<arg, k>>]
           includes == {node \in ToSet(children) : Element(node).kind = "include"}
           frame == [children |-> children, includes |-> includes]
<1>0. stack' = Append(stack, frame)
  BY DEF Parse
<1>1. frame.children = children /\ frame.includes = includes
  OBVIOUS
<1>2. children \in Seq(Nodes) /\ \A l \in DOMAIN children : OnDisk(children[l])
  BY ChildrenOnDisk DEF Inv, Parse
<1> HIDE DEF children
<1>3. includes \subseteq {children[l] : l \in DOMAIN children}
  BY DEF ToSet
<1>4. \A node \in includes : Element(node).kind = "include"
  OBVIOUS
<1> HIDE DEF includes
<1>5. includes \subseteq Nodes /\ FrameInv(frame) /\ frame \in Frames
  <2>1. \A l \in DOMAIN children : children[l] \in Nodes
    BY <1>2, LenProperties, ElementOfSeq
  <2>2. includes \subseteq Nodes
    BY <1>3, <2>1
  <2>3. FrameInv(frame)
    BY <1>1, <1>2, <1>3, <1>4 DEF FrameInv
  <2>4. frame \in Frames
    BY <1>2, <2>2 DEF Frames
  <2> QED BY <2>2, <2>3, <2>4
<1> HIDE DEF frame
<1>6. stack \in Seq(Frames) /\ Len(stack) \in Nat /\ DOMAIN stack = 1..Len(stack)
  BY LenProperties DEF Inv, ParsingInv
<1>7. /\ stack' \in Seq(Frames) /\ stack' # <<>> /\ Len(stack') = Len(stack) + 1
      /\ \A k \in 1..Len(stack) : stack'[k] = stack[k]
      /\ stack'[Len(stack) + 1] = frame
  BY <1>0, <1>5, <1>6, AppendProperties
<1>8. DOMAIN stack' = 1..Len(stack) + 1
  BY <1>7, LenProperties
<1>9. /\ pc' = "loop" /\ pc = "parse" /\ UNCHANGED <<tree, arg, m, i>>
      /\ Len(stack) # MaxDepth
  BY DEF Parse, TooDeep, disk
<1>11. ASSUME NEW k \in DOMAIN stack'
       PROVE  FrameInv(stack'[k]) /\ (k < Len(stack') => stack'[k].includes # {})
  <2>1. CASE k = Len(stack) + 1
    BY <1>5, <1>6, <1>7, <2>1
  <2>2. CASE k # Len(stack) + 1
    <3>1. k \in DOMAIN stack /\ stack'[k] = stack[k]
      BY <1>6, <1>7, <1>8, <2>2
    <3>2. FrameInv(stack[k]) /\ stack[k].includes # {}
      BY <1>9, <3>1 DEF Inv, ParsingInv
    <3> QED BY <3>1, <3>2
  <2> QED BY <2>1, <2>2
<1>12. Len(stack') <= MaxDepth
  <2>1. Len(stack) <= MaxDepth
    BY DEF Inv, ParsingInv
  <2>2. MaxDepth \in Nat
    BY AddRevisionAssumption
  <2>3. Len(stack') = Len(stack) + 1 /\ Len(stack) # MaxDepth /\ Len(stack) \in Nat
    BY <1>6, <1>7, <1>9
  <2> QED BY <2>1, <2>2, <2>3
<1>13. \A k \in DOMAIN stack' : FrameInv(stack[k])'
  BY <1>9, <1>11, FrameRests
<1> QED BY <1>7, <1>9, <1>11, <1>12, <1>13 DEF Inv, ParsingInv, OnDisk, Stages

\* Entering an included manifest keeps the stack of frames in order.
LEMMA ParseIncludeStep ==
  ASSUME Inv, ParseInclude
  PROVE  ParsingInv'
<1>1. /\ pc = "loop" /\ pc' = "parse" /\ Frame.includes # {}
      /\ arg' = Element(NextInclude).file /\ UNCHANGED <<tree, stack, m, i>>
  BY DEF ParseInclude, disk
<1>2. stack # <<>>
  BY <1>1 DEF Inv, ParsingInv, Stages
<1>3. NextInclude \in Frame.includes /\ NextInclude \in Nodes
  BY <1>1, <1>2, FrameTypes, NextIsOne DEF Inv
<1>4. OnDisk(NextInclude) /\ Element(NextInclude).kind = "include"
  BY <1>2, <1>3, FrameTypes DEF Inv, ParsingInv, FrameInv
<1>5. arg' \in Files
  BY <1>1, <1>3, <1>4, ElementTypes DEF Inv
<1>6. \A k \in DOMAIN stack : stack[k].includes # {}
  BY <1>1, <1>2, FrameTypes DEF Inv, ParsingInv
<1>7. \A k \in DOMAIN stack' : FrameInv(stack[k])'
  BY <1>1, FrameRests DEF Inv, ParsingInv
<1> QED BY <1>1, <1>2, <1>5, <1>6, <1>7 DEF Inv, ParsingInv, OnDisk, Stages

\* A parse_manifest() that returns leaves its children to the frame below.
LEMMA ReturnStep ==
  ASSUME Inv, Return
  PROVE  ParsingInv'
<1>1. /\ pc = "loop" /\ pc' = "move" /\ Len(stack) > 1
      /\ m' = Frame.children /\ i' = 1 /\ stack' = Front(stack)
      /\ UNCHANGED <<tree, arg>>
  BY DEF Return, disk
<1>2. stack # <<>>
  BY <1>1 DEF Inv, ParsingInv, Stages
<1>3. Len(stack) \in Nat /\ DOMAIN stack = 1..Len(stack)
  BY <1>2, FrameTypes DEF Inv
<1>4. \A k \in 1..Len(stack) - 1 : stack[k] \in Frames
  BY <1>3, ElementOfSeq DEF Inv, ParsingInv
<1>5. /\ stack' \in Seq(Frames)
      /\ Len(stack') = IF 1 <= Len(stack) - 1 THEN Len(stack) - 1 - 1 + 1 ELSE 0
      /\ \A k \in 1..Len(stack) - 1 - 1 + 1 : stack'[k] = stack[1 + k - 1]
  BY <1>1, <1>3, <1>4, SubSeqProperties DEF Front
<1>6. Len(stack') = Len(stack) - 1 /\ DOMAIN stack' = 1..Len(stack) - 1
  <2>1. 1 <= Len(stack) - 1 /\ Len(stack) - 1 - 1 + 1 = Len(stack) - 1
    BY <1>1, <1>3
  <2>2. DOMAIN stack' = 1..Len(stack')
    BY <1>5, LenProperties
  <2> QED BY <1>5, <2>1, <2>2
<1>7. ASSUME NEW k \in DOMAIN stack'
      PROVE  k \in DOMAIN stack /\ k < Len(stack) /\ stack'[k] = stack[k]
  <2>1. /\ k \in 1..Len(stack) - 1 - 1 + 1 /\ 1 + k - 1 = k
        /\ k \in 1..Len(stack) /\ k < Len(stack)
    BY <1>1, <1>3, <1>6
  <2> QED BY <1>3, <1>5, <2>1
<1>8. \A k \in DOMAIN stack' : FrameInv(stack'[k]) /\ stack'[k].includes # {}
  BY <1>7 DEF Inv, ParsingInv
<1>9. m' \in Seq(Nodes) /\ \A l \in DOMAIN m' : OnDisk(m'[l])
  BY <1>1, <1>2, FrameTypes DEF Inv, ParsingInv, FrameInv
<1>10. \A k \in DOMAIN stack' : FrameInv(stack[k])'
  BY <1>1, <1>8, FrameRests
<1>11. stack' # <<>> /\ Len(stack') <= MaxDepth
  BY <1>1, <1>3, <1>6, EmptySeq, AddRevisionAssumption DEF Inv, ParsingInv
<1> QED BY <1>1, <1>5, <1>8, <1>9, <1>10, <1>11 DEF Inv, ParsingInv, OnDisk, Stages

\* The include that is replaced is among the children.
LEMMA PositionTypes ==
  ASSUME Inv, pc = "move"
  PROVE  /\ stack # <<>>
         /\ NextInclude \in Frame.includes
         /\ PositionOfInclude \in 1..Len(Frame.children)
         /\ Frame.children[PositionOfInclude] = NextInclude
<1>1. stack # <<>>
  BY DEF Inv, ParsingInv, Stages
<1>2. FrameInv(Frame) /\ Frame.includes # {}
  BY <1>1, FrameTypes DEF Inv, ParsingInv
<1>3. NextInclude \in Frame.includes
  BY <1>1, <1>2, FrameTypes, NextIsOne DEF Inv
<1>4. \E l \in DOMAIN Frame.children : Frame.children[l] = NextInclude
  BY <1>2, <1>3 DEF FrameInv
<1>5. PositionOfInclude \in DOMAIN Frame.children
      /\ Frame.children[PositionOfInclude] = NextInclude
  BY <1>4 DEF PositionOfInclude
<1> QED BY <1>1, <1>3, <1>5, FrameTypes, LenProperties DEF Inv

\* A step that changes the innermost frame.
LEMMA FrameReplaced ==
  ASSUME Inv, stack # <<>>, UNCHANGED <<tree, arg>>, NEW frame \in Frames,
         stack' = [stack EXCEPT ![Len(stack)] = frame],
         FrameInv(frame), pc' \in {"loop", "move"},
         pc' = "move" => frame.includes # {},
         m' \in Seq(Nodes), \A l \in DOMAIN m' : OnDisk(m'[l]), i' \in Nat \ {0}
  PROVE  ParsingInv'
<1>1. /\ stack \in Seq(Frames) /\ Len(stack) \in 1..Len(stack) /\ Len(stack) \in Nat
      /\ DOMAIN stack = 1..Len(stack)
  BY FrameTypes DEF Inv, ParsingInv
<1>2. /\ stack' \in Seq(Frames) /\ Len(stack') = Len(stack)
      /\ DOMAIN stack' = 1..Len(stack')
  BY <1>1, ExceptSeq, LenProperties
<1>3. ASSUME NEW k \in DOMAIN stack'
      PROVE  /\ FrameInv(stack'[k])
             /\ k < Len(stack') \/ pc' \in {"parse", "move"} => stack'[k].includes # {}
  <2>1. CASE k = Len(stack)
    <3>1. stack'[k] = frame
      BY <1>1, <2>1
    <3> QED BY <1>1, <1>2, <2>1, <3>1
  <2>2. CASE k # Len(stack)
    <3>1. k \in DOMAIN stack /\ stack'[k] = stack[k] /\ k < Len(stack)
      BY <1>1, <1>2, <2>2
    <3>2. FrameInv(stack[k]) /\ stack[k].includes # {}
      BY <3>1 DEF Inv, ParsingInv
    <3> QED BY <3>1, <3>2
  <2> QED BY <2>1, <2>2
<1>4. \A k \in DOMAIN stack' : FrameInv(stack[k])'
  BY <1>3, FrameRests
<1>5. stack' # <<>> /\ Len(stack') <= MaxDepth
  BY <1>1, <1>2, EmptySeq DEF Inv, ParsingInv
<1>6. arg' \in Files /\ pc' \in Stages
  BY DEF Inv, ParsingInv, Stages
<1> QED BY <1>2, <1>3, <1>4, <1>5, <1>6 DEF ParsingInv, OnDisk, Stages

\* Moving one child of an included manifest keeps the two documents disjoint.
LEMMA MoveStep ==
  ASSUME Inv, Move
  PROVE  ParsingInv'
<1> DEFINE p == PositionOfInclude
           children == InsertAt(Frame.children, p, m[i])
           frame == [children |-> children, includes |-> Frame.includes]
<1>1. /\ pc = "move" /\ pc' = "move" /\ i <= Len(m) /\ m' = m /\ i' = i + 1
      /\ UNCHANGED <<tree, arg>>
  BY DEF Move, LoopList, disk
<1>2. /\ stack # <<>> /\ p \in 1..Len(Frame.children)
      /\ Frame.children[p] = NextInclude /\ Frame.includes # {}
  BY <1>1, PositionTypes
<1>3. stack' = [stack EXCEPT ![Len(stack)] = frame]
  <2>1. stack' = [stack EXCEPT ![Len(stack)].children =
                    InsertAt(@, PositionOfInclude, m[i])]
    BY DEF Move
  <2>2. /\ Frame = stack[Len(stack)] /\ Frame \in [children : Seq(Nodes), includes : SUBSET Nodes]
        /\ Len(stack) \in DOMAIN stack
    BY <1>2, FrameTypes DEF Inv, Frames
  <2>3. [Frame EXCEPT !.children = children] = frame
    BY <2>2
  <2> QED BY <2>1, <2>2, <2>3
<1>4. m[i] \in Nodes /\ OnDisk(m[i]) /\ i' \in Nat \ {0}
  <2>1. i \in Nat \ {0} /\ m \in Seq(Nodes) /\ Len(m) \in Nat
    BY LenProperties DEF Inv, ParsingInv
  <2>2. i \in 1..Len(m) /\ i \in DOMAIN m
    BY <1>1, <2>1, LenProperties
  <2> QED BY <1>1, <2>1, <2>2, ElementOfSeq DEF Inv, ParsingInv
<1>5. /\ Frame.children \in Seq(Nodes) /\ Len(Frame.children) \in Nat
      /\ DOMAIN Frame.children = 1..Len(Frame.children)
      /\ Frame.includes \subseteq Nodes /\ FrameInv(Frame)
  BY <1>2, FrameTypes, LenProperties DEF Inv, ParsingInv
<1>6. /\ children \in Seq(Nodes) /\ Len(children) = Len(Frame.children) + 1
      /\ \A l \in 1..Len(Frame.children) + 1 :
           /\ l < p => children[l] = Frame.children[l]
           /\ l = p => children[l] = m[i]
           /\ l > p => children[l] = Frame.children[l - 1]
  <2>2. p \in 1..Len(Frame.children) /\ m[i] \in Nodes /\ Frame.children \in Seq(Nodes)
    BY <1>2, <1>4, <1>5
  <2> HIDE DEF p
  <2>3. PICK s, k, e : s = Frame.children /\ k = p /\ e = m[i]
    OBVIOUS
  <2>4. s \in Seq(Nodes) /\ k \in 1..Len(s) /\ e \in Nodes
    BY <2>2, <2>3
  <2>5. children = InsertAt(s, k, e)
    BY <2>3
  <2> HIDE DEF children
  <2>6. /\ InsertAt(s, k, e) \in Seq(Nodes)
        /\ Len(InsertAt(s, k, e)) = Len(s) + 1
        /\ \A l \in 1..Len(s) + 1 :
             /\ l < k => InsertAt(s, k, e)[l] = s[l]
             /\ l = k => InsertAt(s, k, e)[l] = e
             /\ l > k => InsertAt(s, k, e)[l] = s[l - 1]
    BY <2>4, Insertion
  <2> QED BY <2>3, <2>5, <2>6
<1>7. DOMAIN children = 1..Len(Frame.children) + 1
  BY <1>6, LenProperties
<1> HIDE DEF children, p
<1>8. ASSUME NEW l \in DOMAIN children
      PROVE  OnDisk(children[l])
  <2>1. CASE l = p
    BY <1>4, <1>6, <1>7, <2>1
  <2>2. CASE l < p
    <3>1. children[l] = Frame.children[l] /\ l \in DOMAIN Frame.children
      BY <1>2, <1>5, <1>6, <1>7, <2>2
    <3> QED BY <1>5, <3>1 DEF FrameInv
  <2>3. CASE l > p
    <3>1. children[l] = Frame.children[l - 1] /\ l - 1 \in DOMAIN Frame.children
      BY <1>2, <1>5, <1>6, <1>7, <2>3
    <3> QED BY <1>5, <3>1 DEF FrameInv
  <2> QED BY <1>2, <1>7, <2>1, <2>2, <2>3
<1>9. ASSUME NEW node \in Frame.includes
      PROVE  \E l \in DOMAIN children : children[l] = node
  <2>1. PICK l \in DOMAIN Frame.children : Frame.children[l] = node
    BY <1>5 DEF FrameInv
  <2>2. CASE l < p
    <3>1. l \in DOMAIN children /\ children[l] = node
      BY <1>2, <1>5, <1>6, <1>7, <2>1, <2>2
    <3> QED BY <3>1
  <2>3. CASE l >= p
    <3>1. l + 1 \in 1..Len(Frame.children) + 1 /\ l + 1 > p /\ (l + 1) - 1 = l
      BY <1>2, <1>5, <2>3
    <3>2. l + 1 \in DOMAIN children /\ children[l + 1] = node
      BY <1>6, <1>7, <2>1, <3>1
    <3> QED BY <3>2
  <2> QED BY <1>2, <1>5, <2>2, <2>3
<1>10. frame \in Frames /\ frame.children = children
       /\ frame.includes = Frame.includes
  BY <1>5, <1>6 DEF Frames
<1>11. FrameInv(frame)
  <2>1. \A node \in Frame.includes : OnDisk(node) /\ Element(node).kind = "include"
    BY <1>5 DEF FrameInv
  <2> QED BY <1>8, <1>9, <1>10, <2>1 DEF FrameInv
<1> HIDE DEF frame
<1>12. m' \in Seq(Nodes) /\ \A l \in DOMAIN m' : OnDisk(m'[l])
  BY <1>1 DEF Inv, ParsingInv
<1>13. /\ pc' \in {"loop", "move"} /\ (pc' = "move" => frame.includes # {})
       /\ i' \in Nat \ {0} /\ stack # <<>> /\ UNCHANGED <<tree, arg>>
       /\ frame \in Frames
  BY <1>1, <1>2, <1>4, <1>10
<1> QED BY <1>3, <1>11, <1>12, <1>13, FrameReplaced

\* Taking an include out once its children are in keeps the frames in order.
LEMMA RemoveIncludeStep ==
  ASSUME Inv, RemoveInclude
  PROVE  ParsingInv'
<1> DEFINE p == PositionOfInclude
           children == RemoveAt(Frame.children, p)
           includes == Frame.includes \ {NextInclude}
           frame == [children |-> children, includes |-> includes]
<1>1. /\ pc = "move" /\ pc' = "loop" /\ UNCHANGED <<tree, arg, m, i>>
      /\ stack' = [stack EXCEPT ![Len(stack)] = frame]
  BY DEF RemoveInclude, disk
<1>2. /\ stack # <<>> /\ p \in 1..Len(Frame.children)
      /\ Frame.children[p] = NextInclude
  BY <1>1, PositionTypes
<1>3. /\ Frame.children \in Seq(Nodes) /\ Len(Frame.children) \in Nat
      /\ DOMAIN Frame.children = 1..Len(Frame.children)
      /\ Frame.includes \subseteq Nodes /\ FrameInv(Frame)
  BY <1>2, FrameTypes, LenProperties DEF Inv, ParsingInv
<1>4. /\ children \in Seq(Nodes) /\ Len(children) = Len(Frame.children) - 1
      /\ \A l \in 1..Len(Frame.children) - 1 :
           /\ l < p => children[l] = Frame.children[l]
           /\ l >= p => children[l] = Frame.children[l + 1]
  <2> HIDE DEF p
  <2>1. PICK s, k : s = Frame.children /\ k = p
    OBVIOUS
  <2>2. s \in Seq(Nodes) /\ k \in 1..Len(s)
    BY <1>2, <1>3, <2>1
  <2>3. children = RemoveAt(s, k)
    BY <2>1
  <2>4. /\ RemoveAt(s, k) \in Seq(Nodes)
        /\ Len(RemoveAt(s, k)) = Len(s) - 1
        /\ \A l \in 1..Len(s) - 1 :
             /\ l < k => RemoveAt(s, k)[l] = s[l]
             /\ l >= k => RemoveAt(s, k)[l] = s[l + 1]
    BY <2>2, Removal
  <2> HIDE DEF children
  <2> QED BY <2>1, <2>3, <2>4
<1>5. DOMAIN children = 1..Len(Frame.children) - 1
  BY <1>4, LenProperties
<1> HIDE DEF children, p
<1>6. ASSUME NEW l \in DOMAIN children
      PROVE  OnDisk(children[l])
  <2>1. CASE l < p
    <3>1. children[l] = Frame.children[l] /\ l \in DOMAIN Frame.children
      BY <1>2, <1>3, <1>4, <1>5, <2>1
    <3> QED BY <1>3, <3>1 DEF FrameInv
  <2>2. CASE l >= p
    <3>1. children[l] = Frame.children[l + 1] /\ l + 1 \in DOMAIN Frame.children
      BY <1>2, <1>3, <1>4, <1>5, <2>2
    <3> QED BY <1>3, <3>1 DEF FrameInv
  <2> QED BY <1>2, <1>3, <1>5, <2>1, <2>2
<1>7. ASSUME NEW node \in includes
      PROVE  \E l \in DOMAIN children : children[l] = node
  <2>1. node \in Frame.includes /\ node # NextInclude
    OBVIOUS
  <2>2. PICK l \in DOMAIN Frame.children : Frame.children[l] = node
    BY <1>3, <2>1 DEF FrameInv
  <2>3. l # p
    BY <1>2, <2>1, <2>2
  <2>4. CASE l < p
    <3>1. l \in DOMAIN children /\ children[l] = node
      BY <1>2, <1>3, <1>4, <1>5, <2>2, <2>4
    <3> QED BY <3>1
  <2>5. CASE l > p
    <3>1. l - 1 \in 1..Len(Frame.children) - 1 /\ l - 1 >= p /\ (l - 1) + 1 = l
      BY <1>2, <1>3, <2>5
    <3>2. l - 1 \in DOMAIN children /\ children[l - 1] = node
      BY <1>4, <1>5, <2>2, <3>1
    <3> QED BY <3>2
  <2> QED BY <1>2, <1>3, <2>3, <2>4, <2>5
<1>8. \A node \in includes :
        OnDisk(node) /\ Element(node).kind = "include" /\ node \in Nodes
  BY <1>3 DEF FrameInv
<1> HIDE DEF includes
<1>9. frame \in Frames /\ frame.children = children /\ frame.includes = includes
  BY <1>4, <1>8 DEF Frames
<1>10. FrameInv(frame)
  BY <1>6, <1>7, <1>8, <1>9 DEF FrameInv
<1> HIDE DEF frame
<1>11. m' \in Seq(Nodes) /\ i' \in Nat \ {0} /\ \A l \in DOMAIN m' : OnDisk(m'[l])
  BY <1>1 DEF Inv, ParsingInv
<1>12. /\ pc' \in {"loop", "move"} /\ (pc' = "move" => frame.includes # {})
       /\ stack # <<>> /\ UNCHANGED <<tree, arg>> /\ frame \in Frames
  BY <1>1, <1>2, <1>9
<1> QED BY <1>1, <1>10, <1>11, <1>12, FrameReplaced

\* Every step keeps what is known of the parsing.
LEMMA ParsingStep ==
  ASSUME Inv, [Next]_vars
  PROVE  ParsingInv'
<1> USE DEF Inv
<1>1. CASE UNCHANGED vars
  BY <1>1, ParserRests DEF vars, disk, parsing, ParsingInv, Stages
<1>2. CASE World
  BY <1>2, ParserRests DEF World, parsing, ParsingInv, Stages
<1>3. CASE Parse \/ ParseInclude \/ Return \/ Move \/ RemoveInclude
  BY <1>3, ParseStep, ParseIncludeStep, ReturnStep, MoveStep, RemoveIncludeStep
<1>4. CASE BadUsage \/ CannotParse \/ CannotRunGit \/ WriteFails
  BY <1>4, ParserRests DEF BadUsage, CannotParse, CannotRunGit, WriteFails, Raise,
       disk, parsing, ParsingInv, Stages
<1>5. CASE Begin
  BY <1>5, ParserRests DEF Begin, disk, parsing, ParsingInv, Stages
<1>6. CASE Parsed \/ KeepRevision \/ MissingRepository \/ FindRev
  BY <1>6, ParserRests DEF Parsed, KeepRevision, MissingRepository, FindRev,
       AfterMissing, disk, parsing, ParsingInv, Stages
<1>7. CASE FindTag \/ FindRef \/ EndProjects \/ OpenOutput \/ Write
  BY <1>7, ParserRests DEF FindTag, FindRef, EndProjects, OpenOutput, Write, disk,
       parsing, ParsingInv, Stages
<1> QED BY <1>1, <1>2, <1>3, <1>4, <1>5, <1>6, <1>7 DEF Next, ParseManifest, Mark

-----------------------------------------------------------------------------
(***************************************************************************)
(* The marks.                                                              *)
(***************************************************************************)
\* The projects stay what they are as long as the document does.
LEMMA SameProjects ==
  ASSUME UNCHANGED <<tree, stack>>
  PROVE  /\ Projects' = Projects
         /\ \A k : Project(k)' = Project(k)
BY DEF Projects, Project, Document, Element

\* The project that the loop is at, when it has not come to its end.
LEMMA AtProject ==
  ASSUME Inv, pc \in {"project", "tag", "ref"}, todo # {}
  PROVE  /\ stack # <<>> /\ Current \in todo /\ Current \in Projects
         /\ Current \in DOMAIN revision
         /\ Path = Project(Current).path /\ Path \in Paths
         /\ Project(Current).revision \in {Nothing, Given}
<1>1. todo \subseteq DOMAIN revision /\ DOMAIN revision \subseteq Nat
  BY DEF Inv, MarkTypes
<1>2. Current \in todo
  BY <1>1, CurrentIsOne
<1>3. stack # <<>> /\ DOMAIN revision = Projects
  BY DEF Inv, MarkInv, Known
<1> QED BY <1>1, <1>2, <1>3, ProjectTypes DEF Inv, Path

\* What git describe prints.
LEMMA TagTypes ==
  ASSUME DiskInv, NEW c \in Commits
  PROVE  TagFor(c) \in {Nothing, "light", "annotated"}
<1>1. TagOf[c] \in {"none", "light", "annotated"}
  BY AddRevisionAssumption
<1> QED BY <1>1 DEF TagFor

\* Every step keeps the types of what is written on the projects.
LEMMA MarkTypesStep ==
  ASSUME Inv, [Next]_vars
  PROVE  MarkTypes'
<1>1. CASE UNCHANGED <<marking, overtaken, out>>
  BY <1>1 DEF Inv, MarkTypes, marking
<1>2. CASE OpenOutput \/ Write
  BY <1>2 DEF OpenOutput, Write, Inv, MarkTypes, marking, disk
<1>3. CASE Parsed
  <2>1. /\ todo' = Projects /\ UNCHANGED <<tag, out, unanswered, overtaken>>
        /\ revision' = [k \in Projects |-> Project(k).revision]
        /\ comment' = [k \in Projects |-> "no comment"]
    BY <1>3 DEF Parsed, disk
  <2>2. \A k \in Projects : k \in Nat /\ Project(k).revision \in {Nothing, Given}
    BY <1>3, ProjectTypes DEF Parsed, Inv, ParsingInv, Stages
  <2>3. DOMAIN revision' = Projects /\ unanswered \cup overtaken = {}
    <3>1. pc = "loop"
      BY <1>3 DEF Parsed
    <3>2. DOMAIN revision = {}
      BY <3>1 DEF Inv, MarkInv
    <3> QED BY <2>1, <3>2 DEF Inv, MarkTypes
  <2> QED BY <2>1, <2>2, <2>3 DEF Inv, MarkTypes, Revisions
<1>4. CASE KeepRevision
  BY <1>4 DEF KeepRevision, Inv, MarkTypes, disk
<1>5. CASE FindRev
  <2>1. /\ Current \in DOMAIN revision /\ Path \in Paths \ Missing
        /\ UNCHANGED <<todo, comment, tag, out, overtaken>>
    BY <1>5, AtProject DEF FindRev, disk
  <2>2. heads[Path] \in Commits
    BY <2>1 DEF Inv, DiskInv
  <2>3. PICK rev \in Revisions : revision' = [revision EXCEPT ![Current] = rev]
    BY <1>5, <2>2 DEF FindRev, Revisions
  <2>4. /\ DOMAIN revision' = DOMAIN revision
        /\ revision' \in [DOMAIN revision -> Revisions \cup {Given}]
    BY <2>1, <2>3 DEF Inv, MarkTypes
  <2>5. unanswered' \subseteq DOMAIN revision
    BY <1>5, <2>1 DEF FindRev, Inv, MarkTypes
  <2> QED BY <2>1, <2>4, <2>5 DEF Inv, MarkTypes
<1>6. CASE FindTag
  <2>1. pc = "tag" /\ todo # {} /\ Path \notin Missing
    BY <1>6 DEF FindTag, Inv, MarkInv
  <2>2. Path \in Paths \ Missing /\ Current \in DOMAIN revision
    BY <2>1, AtProject
  <2>3. tag' \in Refs
    BY <1>6, <2>2, TagTypes DEF FindTag, Inv, DiskInv, Refs, Revisions
  <2>4. /\ unanswered' \subseteq DOMAIN revision
        /\ UNCHANGED <<todo, revision, comment, out, overtaken>>
    BY <1>6, <2>2 DEF FindTag, Inv, MarkTypes, disk
  <2> QED BY <2>3, <2>4 DEF Inv, MarkTypes
<1>7. CASE FindRef
  <2>1. pc = "ref" /\ todo # {} /\ Path \notin Missing
    BY <1>7 DEF FindRef, Inv, MarkInv
  <2>2. Path \in Paths \ Missing /\ Current \in DOMAIN revision
    BY <2>1, AtProject
  <2>3. tag \in Refs /\ {heads[Path], Nothing, Word} \subseteq Refs
    BY <2>2 DEF Inv, DiskInv, MarkTypes, Refs, Revisions
  <2>4. PICK ref \in Refs :
          comment' = comment \/ comment' = [comment EXCEPT ![Current] = ref]
    BY <1>7, <2>3 DEF FindRef
  <2>5. comment' \in [DOMAIN revision -> Refs \cup {"no comment"}]
    BY <2>2, <2>4 DEF Inv, MarkTypes
  <2>6. /\ unanswered' \subseteq DOMAIN revision /\ todo' \subseteq todo
        /\ UNCHANGED <<revision, tag, out, overtaken>>
    BY <1>7, <2>2 DEF FindRef, Inv, MarkTypes, disk
  <2> QED BY <2>5, <2>6 DEF Inv, MarkTypes
<1>8. CASE World
  <2>1. /\ pc \in {"project", "tag", "ref"}
        /\ overtaken' \in {overtaken, overtaken \cup {Current}}
        /\ overtaken' # overtaken => pc \in {"tag", "ref"}
        /\ UNCHANGED <<marking, out>>
    BY <1>8 DEF World
  <2>2. pc \in {"tag", "ref"} => Current \in DOMAIN revision
    BY AtProject DEF Inv, MarkInv
  <2> QED BY <2>1, <2>2 DEF Inv, MarkTypes, marking
<1>9. \/ UNCHANGED <<marking, overtaken, out>> \/ OpenOutput \/ Write \/ Parsed
      \/ KeepRevision \/ FindRev \/ FindTag \/ FindRef \/ World
  BY DEF Next, BadUsage, Begin, Raise, ParseManifest, CannotParse, Parse,
         ParseInclude, Return, Move, RemoveInclude, Mark, MissingRepository,
         CannotRunGit, EndProjects, WriteFails, vars, disk
<1> QED BY <1>1, <1>2, <1>3, <1>4, <1>5, <1>6, <1>7, <1>8, <1>9

\* What holds of a project outlasts a step that is about another one.
LEMMA OthersStay ==
  ASSUME UNCHANGED <<tree, stack, option, headsSeen, overtaken>>,
         unanswered \subseteq unanswered', NEW k, revision'[k] = revision[k],
         comment'[k] = comment[k]
  PROVE  /\ RightRevision(k) => RightRevision(k)'
         /\ RightComment(k) => RightComment(k)'
         /\ Quiet(k)' => Quiet(k)
<1>1. Project(k)' = Project(k)
  BY SameProjects
<1>2. Quiet(k)' => Quiet(k)
  BY DEF Quiet
<1>3. RightRevision(k) => RightRevision(k)'
  BY <1>1 DEF RightRevision
<1>4. \A c : TagFor(c)' = TagFor(c)
  BY DEF TagFor
<1>5. RightComment(k) => RightComment(k)'
  BY <1>2, <1>4 DEF RightComment
<1> QED BY <1>2, <1>3, <1>5

\* A step that marks nothing.
LEMMA MarkRests ==
  ASSUME Inv,
         UNCHANGED <<tree, stack, option, heads, headsSeen, overtaken, marking>>,
         out' # "old" => pc' \in {"write", "done", "failed"},
         pc' \in {"start", "parse", "loop", "move"} =>
           pc \in {"start", "parse", "loop", "move"},
         Known' => Known, Complete' => todo = {},
         pc \in {"tag", "ref", "failed"} => pc' \in {pc, "failed"},
         pc' \in {"tag", "ref"} => pc' = pc
  PROVE  MarkInv'
<1>1. /\ UNCHANGED <<todo, revision, comment, tag, unanswered>>
      /\ UNCHANGED <<tree, stack, option, heads, headsSeen, overtaken>>
  BY DEF marking
<1>2. Projects' = Projects /\ \A k : Project(k)' = Project(k)
  BY <1>1, SameProjects
<1>3. Current' = Current /\ Path' = Path
  BY <1>1, <1>2 DEF Current, Path
<1>4. \A k : /\ RightRevision(k) => RightRevision(k)'
             /\ RightComment(k) => RightComment(k)'
             /\ Quiet(k)' => Quiet(k)
  BY <1>1, OthersStay
<1>5. /\ RightRevision(Current) => RightRevision(Current)'
      /\ Quiet(Current)' => Quiet(Current)
  BY <1>1, <1>3, <1>2 DEF RightRevision, Quiet
<1>6. TagFor(heads[Path])' = TagFor(heads[Path])
  BY <1>1, <1>3 DEF TagFor
<1>7. Known' => stack' # <<>> /\ DOMAIN revision' = Projects'
  BY <1>1, <1>2 DEF Inv, MarkInv
<1>8. Known' => \A k \in (Projects \ todo)' : RightRevision(k)' /\ RightComment(k)'
  BY <1>1, <1>2, <1>4 DEF Inv, MarkInv
<1>9. \A k \in todo' : comment'[k] = "no comment"
  BY <1>1 DEF Inv, MarkInv
<1>10. \A k \in todo' : \/ revision'[k] = Project(k)'.revision
                        \/ pc' \in {"tag", "ref", "failed"} /\ k = Current'
  BY <1>1, <1>2, <1>3 DEF Inv, MarkInv
<1>11. pc' \in {"tag", "ref"} =>
         /\ todo' # {} /\ RightRevision(Current)' /\ Path' \notin Missing
         /\ revision'[Current'] # Given
         /\ Quiet(Current)' => /\ revision'[Current'] = heads'[Path']
                               /\ pc' = "ref" => tag' = TagFor(heads[Path])'
  BY <1>1, <1>3, <1>5, <1>6 DEF Inv, MarkInv
<1>12. pc' \in {"start", "parse", "loop", "move"} => todo' = {} /\ DOMAIN revision' = {}
  BY <1>1 DEF Inv, MarkInv
<1>13. Complete' => todo' = {}
  BY <1>1
<1> QED BY <1>7, <1>8, <1>9, <1>10, <1>11, <1>12, <1>13 DEF MarkInv

\* A step of the parser.
LEMMA MarkParsing ==
  ASSUME Inv, UNCHANGED <<marking, out>>,
         pc \in {"start", "parse", "loop", "move"},
         pc' \in {"parse", "loop", "move"}
  PROVE  MarkInv'
<1>1. todo = {} /\ DOMAIN revision = {} /\ out = "old"
  BY DEF Inv, MarkInv
<1>2. todo' = {} /\ DOMAIN revision' = {} /\ out' = "old"
  BY <1>1 DEF marking
<1>3. ~Known' /\ ~Complete'
  BY <1>2 DEF Known, Complete
<1> QED BY <1>2, <1>3 DEF MarkInv

\* When parsing ends, every project is still as the manifests have it.
LEMMA MarkParsed ==
  ASSUME Inv, Parsed
  PROVE  MarkInv'
<1>1. /\ pc = "loop" /\ pc' = "project" /\ UNCHANGED <<tree, stack, out>>
      /\ todo' = Projects /\ revision' = [k \in Projects |-> Project(k).revision]
      /\ comment' = [k \in Projects |-> "no comment"]
  BY DEF Parsed, disk, parsing
<1>2. Projects' = Projects /\ \A k : Project(k)' = Project(k)
  BY <1>1, SameProjects
<1>3. stack' # <<>> /\ out' = "old"
  BY <1>1 DEF Inv, ParsingInv, MarkInv, Stages
<1>4. ~Complete' /\ (Projects \ todo)' = {}
  BY <1>1, <1>2, <1>3 DEF Complete
<1>5. \A k \in todo' : comment'[k] = "no comment" /\ revision'[k] = Project(k)'.revision
  BY <1>1, <1>2
<1> QED BY <1>1, <1>2, <1>3, <1>4, <1>5 DEF MarkInv

\* A project that has its revision already is left as it is.
LEMMA MarkKept ==
  ASSUME Inv, KeepRevision
  PROVE  MarkInv'
<1>1. /\ pc = "project" /\ pc' = "project" /\ todo # {} /\ Keeps
      /\ todo' = todo \ {Current}
      /\ UNCHANGED <<tree, heads, headsSeen, option, stack, revision, comment, tag>>
      /\ UNCHANGED <<unanswered, overtaken, out>>
  BY DEF KeepRevision, disk, parsing
<1>2. Projects' = Projects /\ \A k : Project(k)' = Project(k)
  BY <1>1, SameProjects
<1>3. /\ Current \in todo /\ Current \in Projects
      /\ Project(Current).revision \in {Nothing, Given}
  BY <1>1, AtProject
<1>4. revision[Current] = Project(Current).revision /\ comment[Current] = "no comment"
  BY <1>1, <1>3 DEF Inv, MarkInv
<1>5. RightRevision(Current) /\ RightComment(Current)
  BY <1>1, <1>3, <1>4, AddRevisionAssumption DEF Keeps, RightRevision, RightComment
<1>6. Known /\ out = "old" /\ out' = "old" /\ ~Complete'
  BY <1>1 DEF Known, Complete, Inv, MarkInv
<1>7. \A k \in Projects \ todo' : RightRevision(k) /\ RightComment(k)
  BY <1>1, <1>5, <1>6 DEF Inv, MarkInv
<1>8. \A k \in (Projects \ todo)' : RightRevision(k)' /\ RightComment(k)'
  BY <1>1, <1>2, <1>7, OthersStay
<1>9. stack' # <<>> /\ DOMAIN revision' = Projects'
  BY <1>1, <1>2, <1>6 DEF Inv, MarkInv
<1>10. \A k \in todo' : comment'[k] = "no comment" /\ revision'[k] = Project(k)'.revision
  BY <1>1, <1>2 DEF Inv, MarkInv
<1> QED BY <1>1, <1>6, <1>8, <1>9, <1>10 DEF MarkInv

\* The revision that is found was the head at that moment.
LEMMA MarkFound ==
  ASSUME Inv, FindRev
  PROVE  MarkInv'
<1>1. /\ pc = "project" /\ pc' = "tag" /\ todo # {} /\ ~Keeps /\ Path \notin Missing
      /\ UNCHANGED <<tree, heads, headsSeen, option, stack, todo, comment, tag, out>>
      /\ UNCHANGED overtaken
  BY DEF FindRev, disk, parsing
<1>2. Projects' = Projects /\ \A k : Project(k)' = Project(k)
  BY <1>1, SameProjects
<1>3. /\ Current \in todo /\ Current \in Projects /\ Current \in DOMAIN revision
      /\ Project(Current).revision \in {Nothing, Given}
      /\ Path = Project(Current).path /\ Path \in Paths \ Missing
  BY <1>1, AtProject
<1>4. Current' = Current /\ Path' = Path
  BY <1>1, <1>2 DEF Current, Path
<1>5. heads[Path] \in headsSeen[Path] /\ heads[Path] \in Commits
  BY <1>3 DEF Inv, DiskInv
<1>6. /\ DOMAIN revision' = DOMAIN revision
      /\ \A k \in DOMAIN revision : k # Current => revision'[k] = revision[k]
      /\ unanswered \subseteq unanswered'
      /\ \/ revision'[Current] = heads[Path]
         \/ revision'[Current] \in {Nothing, Word} /\ Current \in unanswered'
  BY <1>3 DEF FindRev, Inv, MarkTypes
<1>7. revision[Current] = Project(Current).revision
  BY <1>1, <1>3 DEF Inv, MarkInv
<1>8. Project(Current).revision = Nothing \/ option.force
  BY <1>1, <1>7 DEF Keeps
<1>9. /\ Project(Current)' = Project(Current)
      /\ option' = option /\ headsSeen' = headsSeen /\ heads' = heads
  BY <1>1, <1>2, <1>4 DEF Project, Document, Element
<1>10. RightRevision(Current)'
  BY <1>3, <1>4, <1>5, <1>6, <1>8, <1>9 DEF RightRevision
<1>11. revision'[Current] # Given
  BY <1>5, <1>6, AddRevisionAssumption DEF Nothing, Given, Word
<1>12. Quiet(Current)' => revision'[Current'] = heads'[Path']
  BY <1>3, <1>4, <1>6, <1>9 DEF Quiet
<1>13. Known /\ out' = "old" /\ ~Complete'
  BY <1>1 DEF Known, Complete, Inv, MarkInv
<1>14. \A k \in Projects \ todo : RightRevision(k) /\ RightComment(k) /\ k # Current
  BY <1>3, <1>13 DEF Inv, MarkInv
<1>15. stack # <<>> /\ DOMAIN revision = Projects
  BY <1>13 DEF Inv, MarkInv
<1>16. \A k \in (Projects \ todo)' : RightRevision(k)' /\ RightComment(k)'
  BY <1>1, <1>2, <1>6, <1>14, <1>15, OthersStay
<1>17. \A k \in todo' : \/ revision'[k] = Project(k)'.revision
                        \/ pc' \in {"tag", "ref", "failed"} /\ k = Current'
  <2>1. todo \subseteq DOMAIN revision
    BY DEF Inv, MarkTypes
  <2> QED BY <1>1, <1>2, <1>4, <1>6, <2>1 DEF Inv, MarkInv
<1>18. \A k \in todo' : comment'[k] = "no comment"
  BY <1>1 DEF Inv, MarkInv
<1> QED BY <1>1, <1>2, <1>4, <1>6, <1>10, <1>11, <1>12, <1>13, <1>15, <1>16, <1>17,
           <1>18 DEF MarkInv

\* The tag of a quiet project is that of its head; without one, there is none.
LEMMA MarkTagged ==
  ASSUME Inv, FindTag
  PROVE  MarkInv'
<1>1. /\ pc = "tag" /\ pc' = "ref"
      /\ UNCHANGED <<tree, heads, headsSeen, option, stack, todo>>
      /\ UNCHANGED <<revision, comment, overtaken, out>>
  BY DEF FindTag, disk, parsing
<1>2. /\ todo # {} /\ RightRevision(Current) /\ Path \notin Missing
      /\ revision[Current] # Given
      /\ Quiet(Current) => revision[Current] = heads[Path]
  BY <1>1 DEF Inv, MarkInv
<1>3. Current \in todo /\ Path = Project(Current).path
  BY <1>1, <1>2, AtProject
<1>4. Projects' = Projects /\ \A k : Project(k)' = Project(k)
  BY <1>1, SameProjects
<1>5. Current' = Current /\ Path' = Path
  BY <1>1, <1>4 DEF Current, Path
<1>6. /\ unanswered \subseteq unanswered'
      /\ tag' = TagFor(heads[Path]) \/ Current \in unanswered'
  BY DEF FindTag
<1>7. Project(Current)' = Project(Current)
  BY <1>1, <1>5 DEF Project, Document, Element
<1>8. RightRevision(Current)' /\ (Quiet(Current)' => Quiet(Current))
  BY <1>1, <1>2, <1>5, <1>6, <1>7 DEF RightRevision, Quiet
<1>9. Quiet(Current)' => tag' = TagFor(heads[Path])
  BY <1>3, <1>5, <1>6, <1>7 DEF Quiet
<1>10. TagFor(heads[Path])' = TagFor(heads[Path])
  BY <1>1, <1>5 DEF TagFor
<1>11. Known /\ out' = "old" /\ ~Complete'
  BY <1>1 DEF Known, Complete, Inv, MarkInv
<1>12. \A k \in (Projects \ todo)' : RightRevision(k)' /\ RightComment(k)'
  BY <1>1, <1>4, <1>6, <1>11, OthersStay DEF Inv, MarkInv
<1>13. \A k \in todo' : \/ revision'[k] = Project(k)'.revision
                        \/ pc' \in {"tag", "ref", "failed"} /\ k = Current'
  BY <1>1, <1>4, <1>5 DEF Inv, MarkInv
<1>14. /\ \A k \in todo' : comment'[k] = "no comment"
       /\ stack' # <<>> /\ DOMAIN revision' = Projects'
  BY <1>1, <1>4, <1>11 DEF Inv, MarkInv
<1> QED BY <1>1, <1>2, <1>5, <1>8, <1>9, <1>10, <1>11, <1>12, <1>13, <1>14 DEF MarkInv

\* The comment compares the last answer with the revision that was written.
LEMMA MarkReferred ==
  ASSUME Inv, FindRef
  PROVE  MarkInv'
<1>1. /\ pc = "ref" /\ pc' = "project" /\ todo' = todo \ {Current}
      /\ UNCHANGED <<tree, heads, headsSeen, option, stack, revision, tag, out>>
      /\ UNCHANGED overtaken
  BY DEF FindRef, disk, parsing
<1>2. /\ todo # {} /\ RightRevision(Current) /\ Path \notin Missing
      /\ revision[Current] # Given
      /\ Quiet(Current) => /\ revision[Current] = heads[Path]
                           /\ tag = TagFor(heads[Path])
  BY <1>1 DEF Inv, MarkInv
<1>3. /\ Current \in todo /\ Current \in Projects /\ Current \in DOMAIN revision
      /\ Path = Project(Current).path /\ Path \in Paths \ Missing
  BY <1>1, <1>2, AtProject
<1>4. Projects' = Projects /\ \A k : Project(k)' = Project(k)
  BY <1>1, SameProjects
<1>5. PICK rev \in {heads[Path], Nothing, Word} :
        LET ref == IF tag # Nothing THEN tag ELSE rev
        IN /\ comment' = IF option.tags /\ IsTag(ref)
                         THEN [comment EXCEPT ![Current] = ref] ELSE comment
           /\ unanswered' = IF rev = heads[Path] THEN unanswered
                            ELSE unanswered \cup {Current}
  BY DEF FindRef
<1> DEFINE failed == rev # heads[Path]
<1>6. /\ unanswered \subseteq unanswered'
      /\ failed => Current \in unanswered'
      /\ \A k \in DOMAIN revision : k # Current => comment'[k] = comment[k]
  BY <1>3, <1>5 DEF Inv, MarkTypes
<1>7. comment[Current] = "no comment" /\ DOMAIN comment = DOMAIN revision
  BY <1>3 DEF Inv, MarkInv, MarkTypes
<1>8. heads[Path] \in Commits
  BY <1>3 DEF Inv, DiskInv
<1>9. TagFor(heads[Path]) \in {Nothing, "light", "annotated"}
  BY <1>8, TagTypes DEF Inv
<1>10. ASSUME Quiet(Current), ~failed
       PROVE  comment'[Current] =
                IF option.tags /\ TagFor(heads[Path]) # Nothing
                THEN TagFor(heads[Path]) ELSE "no comment"
  <2>1. /\ revision[Current] = heads[Path] /\ tag = TagFor(heads[Path])
        /\ rev = heads[Path]
    BY <1>2, <1>10
  <2>2. CASE tag = Nothing
    <3>1. comment' = comment
      BY <1>5, <1>10, <2>1, <2>2 DEF IsTag
    <3> QED BY <1>7, <2>1, <2>2, <3>1
  <2>3. CASE tag # Nothing
    <3>1. tag # revision[Current]
      BY <1>8, <1>9, <2>1, <2>3, AddRevisionAssumption
    <3>2. comment' = IF option.tags THEN [comment EXCEPT ![Current] = tag] ELSE comment
      BY <1>5, <2>3, <3>1 DEF IsTag
    <3> QED BY <1>3, <1>7, <2>1, <2>3, <3>2
  <2> QED BY <2>2, <2>3
<1>11. \A k : TagFor(k)' = TagFor(k)
  BY <1>1 DEF TagFor
<1>12. ASSUME NEW k \in Projects \ todo'
       PROVE  RightRevision(k)' /\ RightComment(k)'
  <2>1. CASE k = Current
    <3>1. Project(k)' = Project(k)
      BY <1>4
    <3>2. RightRevision(k)'
      BY <1>1, <1>2, <1>6, <2>1, <3>1 DEF RightRevision
    <3>3. Quiet(k)' => Quiet(k) /\ ~failed
      BY <1>1, <1>6, <2>1 DEF Quiet
    <3>4. Quiet(k)' =>
            /\ revision[k] = heads[Path]
            /\ comment'[k] = IF option.tags /\ TagFor(heads[Path]) # Nothing
                             THEN TagFor(heads[Path]) ELSE "no comment"
      BY <1>2, <1>10, <2>1, <3>3
    <3>5. RightComment(k)'
      BY <1>1, <1>8, <1>11, <3>4 DEF RightComment
    <3> QED BY <3>2, <3>5
  <2>2. CASE k # Current
    <3>1. k \in Projects \ todo /\ Known
      BY <1>1, <2>2 DEF Known
    <3>2. RightRevision(k) /\ RightComment(k) /\ k \in DOMAIN revision
      BY <3>1 DEF Inv, MarkInv
    <3> QED BY <1>1, <1>6, <2>2, <3>2, OthersStay
  <2> QED BY <2>1, <2>2
<1>13. Known /\ out' = "old" /\ ~Complete'
  BY <1>1 DEF Known, Complete, Inv, MarkInv
<1>14. stack' # <<>> /\ DOMAIN revision' = Projects'
  BY <1>1, <1>4, <1>13 DEF Inv, MarkInv
<1>15. \A k \in todo' : comment'[k] = "no comment" /\ revision'[k] = Project(k)'.revision
  <2>1. todo \subseteq DOMAIN revision
    BY DEF Inv, MarkTypes
  <2> QED BY <1>1, <1>4, <1>6, <2>1 DEF Inv, MarkInv
<1> QED BY <1>1, <1>4, <1>12, <1>13, <1>14, <1>15 DEF MarkInv

\* A checkout changes heads, and nothing that was already written.
LEMMA MarkMoved ==
  ASSUME Inv, World
  PROVE  MarkInv'
<1>1. /\ pc \in {"project", "tag", "ref"} /\ pc' = pc
      /\ UNCHANGED <<tree, option, stack, todo, revision, comment, tag>>
      /\ UNCHANGED <<unanswered, out>>
  BY DEF World, parsing, marking
<1>2. PICK p \in Paths \ Missing, c \in Commits :
        /\ heads' = [heads EXCEPT ![p] = c]
        /\ headsSeen' = [headsSeen EXCEPT ![p] = @ \cup {c}]
        /\ overtaken' = IF pc \in {"tag", "ref"} /\ p = Path
                        THEN overtaken \cup {Current} ELSE overtaken
  BY DEF World
<1>3. ASSUME NEW q \in Paths \ Missing
      PROVE  /\ headsSeen[q] \subseteq headsSeen'[q]
             /\ q # p => heads'[q] = heads[q]
  BY <1>2 DEF Inv, DiskInv
<1>4. Projects' = Projects /\ \A k : Project(k)' = Project(k)
  BY <1>1, SameProjects
<1>5. Current' = Current /\ Path' = Path
  BY <1>1, <1>4 DEF Current, Path
<1>6. Known /\ stack # <<>> /\ DOMAIN revision = Projects
  BY <1>1 DEF Known, Inv, MarkInv
<1>7. ASSUME NEW k \in Projects
      PROVE  /\ RightRevision(k) => RightRevision(k)'
             /\ Quiet(k)' => Quiet(k)
  <2>1. Project(k)' = Project(k) /\ Project(k).path \in Paths
    BY <1>4, <1>6, ProjectTypes DEF Inv
  <2>2. RightRevision(k) => RightRevision(k)'
    BY <1>1, <1>3, <2>1 DEF RightRevision
  <2>3. Quiet(k)' => Quiet(k)
    BY <1>1, <1>2 DEF Quiet
  <2> QED BY <2>2, <2>3
<1>8. \A x : TagFor(x)' = TagFor(x)
  BY <1>1 DEF TagFor
<1>9. ASSUME NEW k \in Projects, RightComment(k)
      PROVE  RightComment(k)'
  BY <1>1, <1>7, <1>8, <1>9 DEF RightComment
<1>10. \A k \in (Projects \ todo)' : RightRevision(k)' /\ RightComment(k)'
  BY <1>1, <1>4, <1>6, <1>7, <1>9 DEF Inv, MarkInv
<1>11. /\ \A k \in todo' : comment'[k] = "no comment"
       /\ \A k \in todo' : \/ revision'[k] = Project(k)'.revision
                           \/ pc' \in {"tag", "ref", "failed"} /\ k = Current'
  BY <1>1, <1>4, <1>5 DEF Inv, MarkInv
<1>12. ASSUME pc \in {"tag", "ref"}
       PROVE  /\ todo' # {} /\ RightRevision(Current)' /\ Path' \notin Missing
              /\ revision'[Current'] # Given
              /\ Quiet(Current)' => /\ revision'[Current'] = heads'[Path']
                                    /\ pc' = "ref" => tag' = TagFor(heads[Path])'
  <2>1. /\ todo # {} /\ RightRevision(Current) /\ Path \notin Missing
        /\ revision[Current] # Given
        /\ Quiet(Current) => /\ revision[Current] = heads[Path]
                             /\ pc = "ref" => tag = TagFor(heads[Path])
    BY <1>12 DEF Inv, MarkInv
  <2>2. Current \in Projects /\ Path \in Paths \ Missing
    BY <1>1, <2>1, AtProject
  <2>3. PICK k : k = Current
    OBVIOUS
  <2>4. /\ RightRevision(k)'
        /\ Quiet(k)' => Quiet(k) /\ p # Path
    BY <1>2, <1>7, <1>12, <2>1, <2>2, <2>3 DEF Quiet
  <2>7. p # Path => heads'[Path] = heads[Path]
    BY <1>3, <2>2
  <2>5. (RightRevision(k)' => RightRevision(Current)') /\ (Quiet(Current)' => Quiet(k)')
    <3>1. Project(Current)' = Project(k)'
      BY <1>5, <2>3 DEF Project
    <3> QED BY <1>5, <2>3, <3>1 DEF RightRevision, Quiet
  <2>6. heads'[Path] = heads[Path] => TagFor(heads[Path])' = TagFor(heads[Path])
    BY <1>1, <1>5 DEF TagFor
  <2> QED BY <1>1, <1>5, <2>1, <2>3, <2>4, <2>5, <2>6, <2>7
<1>13. ~Complete' /\ out' = "old"
  BY <1>1 DEF Complete, Inv, MarkInv
<1> QED BY <1>1, <1>4, <1>6, <1>10, <1>11, <1>12, <1>13 DEF MarkInv

\* Every step keeps what is known of the marks.
LEMMA MarkStep ==
  ASSUME Inv, [Next]_vars
  PROVE  MarkInv'
<1>1. CASE UNCHANGED vars
  <2>1. UNCHANGED <<pc, out, todo, tree, stack, option, heads, headsSeen, overtaken,
                    marking>>
    BY <1>1 DEF vars, disk, parsing, marking
  <2> QED BY <2>1, MarkRests DEF Known, Complete, Inv, MarkInv
<1>2. CASE Begin \/ Parse \/ ParseInclude \/ Return \/ Move \/ RemoveInclude
  BY <1>2, MarkParsing DEF Begin, Parse, ParseInclude, Return, Move, RemoveInclude
<1>3. CASE BadUsage \/ CannotParse \/ WriteFails
  <2>1. /\ pc' = "failed" /\ pc \in {"start", "parse", "open", "write"}
        /\ UNCHANGED <<out, todo, tree, stack, option, heads, headsSeen, overtaken, marking>>
    BY <1>3 DEF BadUsage, CannotParse, WriteFails, Raise, disk, parsing, marking
  <2> QED BY <2>1, MarkRests DEF Known, Complete, Inv, MarkInv
<1>4. CASE MissingRepository \/ CannotRunGit
  <2>1. /\ pc \in {"project", "tag", "ref"} /\ pc' = "failed"
        /\ UNCHANGED <<out, todo, tree, stack, option, heads, headsSeen, overtaken, marking>>
    BY <1>4 DEF MissingRepository, AfterMissing, CannotRunGit, Raise, disk, parsing,
                marking
  <2> QED BY <2>1, MarkRests DEF Known, Complete, Inv, MarkInv
<1>5. CASE EndProjects
  <2>1. /\ pc = "project" /\ pc' \in {"open", "write"} /\ todo = {}
        /\ UNCHANGED <<out, todo, tree, stack, option, heads, headsSeen, overtaken, marking>>
    BY <1>5 DEF EndProjects, disk, parsing, marking
  <2> QED BY <2>1, MarkRests DEF Known, Complete, Inv, MarkInv
<1>6. CASE OpenOutput \/ Write
  <2>1. /\ pc \in {"open", "write"} /\ pc' \in {"write", "done"}
        /\ UNCHANGED <<todo, tree, stack, option, heads, headsSeen, overtaken, marking>>
    BY <1>6 DEF OpenOutput, Write, disk, parsing, marking
  <2> QED BY <2>1, MarkRests DEF Known, Complete, Inv, MarkInv
<1>7. CASE Parsed \/ KeepRevision \/ FindRev \/ FindTag \/ FindRef \/ World
  BY <1>7, MarkParsed, MarkKept, MarkFound, MarkTagged, MarkReferred, MarkMoved
<1> QED BY <1>1, <1>2, <1>3, <1>4, <1>5, <1>6, <1>7 DEF Next, ParseManifest, Mark

-----------------------------------------------------------------------------
\* The invariant of add-revision.py, from the command line to the written output,
\* from which the theorems below follow (add-revision.py:43-135).
THEOREM Invariance == Spec => []Inv
<1>1. Init => Inv
  BY InitInv
<1>2. Inv /\ [Next]_vars => Inv'
  BY DiskStep, ParsingStep, MarkTypesStep, MarkStep DEF Inv
<1> QED BY <1>1, <1>2, PTL DEF Spec

\* The script has the types it should have; in particular it indexes the
\* children of a document and its own marks only where there is something
\* (add-revision.py:66-114).
THEOREM TypeCorrect == Spec => []TypeOK
<1>1. ASSUME Inv
      PROVE  TypeOK
  <2>1. /\ option.sinks \subseteq {"output", "stdio"}
        /\ option.force \in BOOLEAN /\ option.tags \in BOOLEAN
        /\ option.onlyAnnotated \in BOOLEAN
    BY <1>1 DEF Inv, DiskInv
  <2>2. \A k \in DOMAIN stack :
          stack[k].children \in Seq(Nodes) /\ stack[k].includes \subseteq Nodes
    <3>1. \A k \in DOMAIN stack : stack[k] \in Frames
      BY <1>1, LenProperties, ElementOfSeq DEF Inv, ParsingInv
    <3> QED BY <3>1 DEF Frames
  <2>3. /\ tree \in Trees /\ heads \in [Paths \ Missing -> Commits]
        /\ moves \in 0..MaxMoves
        /\ headsSeen \in [Paths \ Missing -> SUBSET Commits]
    BY <1>1 DEF Inv, DiskInv
  <2>4. pc \in Stages /\ arg \in Files /\ Len(stack) <= MaxDepth
        /\ m \in Seq(Nodes) /\ i \in Nat \ {0}
    BY <1>1 DEF Inv, ParsingInv
  <2>5. MarkTypes
    BY <1>1 DEF Inv
  <2> QED BY <2>1, <2>2, <2>3, <2>4, <2>5 DEF TypeOK, MarkTypes, Stages
<1> QED BY <1>1, Invariance, PTL

\* Whatever the manifests are, whenever git fails and whoever checks out
\* other commits meanwhile: the output is touched only when each project has
\* the revision it came with or one that was checked out at its path during
\* the run, or git has failed there (add-revision.py:97-114).
THEOREM OnlyHeads == Spec => []RevisionsAreHeads
<1>1. Inv => RevisionsAreHeads
  <2>1. ASSUME Inv, Complete
        PROVE  \A k \in Projects : RightRevision(k)
    BY <2>1 DEF Inv, MarkInv, Known, Complete
  <2> QED BY <2>1 DEF RevisionsAreHeads, RightRevision
<1> QED BY <1>1, Invariance, PTL

\* A comment tells the tag of the commit its project was given, and is there
\* exactly when --tags asks for it and there is a tag, unless the repository
\* moves or git fails between the commands (add-revision.py:103-109).
THEOREM OnlyTags == Spec => []CommentsTellTags
<1>1. Inv => CommentsTellTags
  <2>1. ASSUME Inv, Complete
        PROVE  \A k \in Projects : RightComment(k)
    BY <2>1 DEF Inv, MarkInv, Known, Complete
  <2> QED BY <2>1 DEF CommentsTellTags, RightComment, Quiet
<1> QED BY <1>1, Invariance, PTL

-----------------------------------------------------------------------------
(***************************************************************************)
(* Sequences: what FlattenSeq() joins, and where one part of it is changed. *)
(***************************************************************************)
\* Induction: a set with 0 and, with each number, the next.
LEMMA InductionUp ==
  ASSUME NEW S, 0 \in S, \A n \in Nat : n \in S => n + 1 \in S
  PROVE  Nat \subseteq S
<1> DEFINE rest == Nat \ S
<1>1. CASE rest = {}
  BY <1>1
<1>2. CASE rest # {}
  <2>1. PICK k \in rest : \A j \in rest : k <= j
    BY <1>2, LeastOf
  <2>2. k # 0 /\ k - 1 \in Nat
    BY <2>1
  <2>3. k - 1 \in S
    BY <2>1, <2>2
  <2>4. (k - 1) + 1 \in S
    BY <2>2, <2>3
  <2> QED BY <2>1, <2>4
<1> QED BY <1>1, <1>2

\* f is made from a first value, one step at a time.
Iterates(f, N, V, first, step) ==
  /\ f \in [0..N -> V] /\ f[0] = first
  /\ \A n \in 1..N : f[n] = step[n][f[n - 1]]

\* There is such a function.
LEMMA IterationExists ==
  ASSUME NEW V, NEW first \in V, NEW step \in [Nat -> [V -> V]], NEW N \in Nat
  PROVE  \E f : Iterates(f, N, V, first, step)
<1> DEFINE S == {k \in Nat : \E f : Iterates(f, k, V, first, step)}
<1>1. 0 \in S
  <2>1. Iterates([j \in 0..0 |-> first], 0, V, first, step)
    BY DEF Iterates
  <2> QED BY <2>1
<1>2. ASSUME NEW k \in Nat, k \in S
      PROVE  k + 1 \in S
  <2>1. PICK f : Iterates(f, k, V, first, step)
    BY <1>2
  <2> DEFINE g == [j \in 0..k + 1 |-> IF j <= k THEN f[j] ELSE step[j][f[j - 1]]]
  <2>2. ASSUME NEW j \in 0..k
        PROVE  f[j] \in V /\ g[j] = f[j]
    BY <2>1 DEF Iterates
  <2>3. g[k + 1] = step[k + 1][f[k]] /\ step[k + 1][f[k]] \in V
    <3>1. k + 1 \in 0..k + 1 /\ ~(k + 1 <= k) /\ k + 1 - 1 = k /\ k \in 0..k
      OBVIOUS
    <3>2. f[k] \in V
      BY <2>2, <3>1
    <3>3. step[k + 1] \in [V -> V]
      OBVIOUS
    <3> QED BY <3>1, <3>2, <3>3
  <2>4. \A j \in 0..k + 1 : j \in 0..k \/ j = k + 1
    OBVIOUS
  <2>5. DOMAIN g = 0..k + 1 /\ g = [j \in 0..k + 1 |-> g[j]]
    OBVIOUS
  <2> HIDE DEF g
  <2>6. g \in [0..k + 1 -> V]
    <3>1. \A j \in 0..k + 1 : g[j] \in V
      BY <2>2, <2>3, <2>4
    <3> QED BY ONLY <2>5, <3>1
  <2>7. ASSUME NEW n \in 1..k + 1
        PROVE  g[n] = step[n][g[n - 1]]
    <3>1. n - 1 \in 0..k /\ g[n - 1] = f[n - 1]
      BY <2>2
    <3>2. CASE n = k + 1
      <4>1. n - 1 = k
        BY <3>2
      <4> QED BY <2>3, <3>1, <3>2, <4>1
    <3>3. CASE n # k + 1
      <4>1. n \in 1..k /\ n \in 0..k
        BY <3>3
      <4>2. f[n] = step[n][f[n - 1]]
        BY <2>1, <4>1 DEF Iterates
      <4> QED BY <2>2, <3>1, <4>1, <4>2
    <3> QED BY <3>2, <3>3
  <2>8. g[0] = first
    BY <2>1, <2>2 DEF Iterates
  <2>9. Iterates(g, k + 1, V, first, step)
    BY <2>6, <2>7, <2>8 DEF Iterates
  <2> QED BY <2>9
<1> HIDE DEF S
<1>3. Nat \subseteq S
  BY <1>1, <1>2, InductionUp
<1> QED BY <1>3 DEF S

-----------------------------------------------------------------------------
\* g[k] is what the first k of the sequences in s make, one after the other.
Joins(g, s, S) ==
  /\ g \in [0..Len(s) -> Seq(S)] /\ g[0] = <<>>
  /\ \A k \in 1..Len(s) : g[k] = g[k - 1] \o s[k]

\* FlattenSeq() joins all of them.
LEMMA Flattening ==
  ASSUME NEW S, NEW s \in Seq(Seq(S))
  PROVE  \E g : Joins(g, s, S) /\ FlattenSeq(s) = g[Len(s)]
<1> DEFINE N == Len(s)
           V == Seq(S)
<1>1. N \in Nat /\ \A k \in 1..N : s[k] \in V
  BY LenProperties, ElementOfSeq
<1>2. <<>> \in V /\ \A v \in V : <<>> \o v = v
  OBVIOUS
<1>3. \A v, w \in V : v \o w \in V
  BY ConcatProperties
<1> DEFINE step == [n \in Nat |-> [v \in V |-> IF n \in 1..N THEN v \o s[n] ELSE v]]
<1>4. step \in [Nat -> [V -> V]] /\ \A n \in 1..N : \A v \in V : step[n][v] = v \o s[n]
  <2> HIDE DEF V, N
  <2>1. \A n \in Nat : \A v \in V : (IF n \in 1..N THEN v \o s[n] ELSE v) \in V
    BY <1>1, <1>3
  <2>2. 1..N \subseteq Nat
    BY <1>1
  <2> QED BY <2>1, <2>2
<1> HIDE DEF step
<1>5. PICK f : Iterates(f, N, V, <<>>, step)
  <2> HIDE DEF N, V
  <2> QED BY <1>1, <1>2, <1>4, IterationExists
<1>6. \A k \in 1..N : f[k] = f[k - 1] \o s[k] /\ f[k - 1] \in V
  <2>1. ASSUME NEW k \in 1..N
        PROVE  f[k] = f[k - 1] \o s[k] /\ f[k - 1] \in V
    <3>1. k - 1 \in 0..N
      BY <1>1
    <3>2. f[k - 1] \in V /\ f[k] = step[k][f[k - 1]]
      BY <1>5, <3>1 DEF Iterates
    <3> QED BY <1>4, <3>2
  <2> QED BY <2>1
<1> DEFINE Body(h) == [j \in 1..N |-> IF j = 1 THEN s[j] ELSE h[j - 1] \o s[j]]
           all == CHOOSE h : h = Body(h)
<1>7. \E h : h = Body(h)
  <2> DEFINE h == [j \in 1..N |-> f[j]]
  <2>1. ASSUME NEW j \in 1..N
        PROVE  h[j] = Body(h)[j]
    <3>1. h[j] = f[j - 1] \o s[j]
      BY <1>6
    <3>2. CASE j = 1
      <4>1. f[j - 1] = <<>>
        BY <1>5, <3>2 DEF Iterates
      <4>2. s[j] \in V
        BY <1>1
      <4>3. h[j] = s[j]
        BY <1>2, <3>1, <4>1, <4>2
      <4>4. Body(h)[j] = s[j]
        BY <3>2 
      <4> QED BY <4>3, <4>4
    <3>3. CASE j # 1
      <4>1. j - 1 \in 1..N
        BY <1>1, <3>3
      <4>2. h[j - 1] = f[j - 1]
        BY <4>1
      <4>3. Body(h)[j] = h[j - 1] \o s[j]
        BY <3>3
      <4> QED BY <3>1, <4>2, <4>3
    <3> QED BY <3>2, <3>3
  <2>2. h = [j \in 1..N |-> h[j]]
    OBVIOUS
  <2>3. Body(h) = [j \in 1..N |-> Body(h)[j]]
    <3> HIDE DEF h, N
    <3> QED OBVIOUS
  <2> HIDE DEF h, Body, N
  <2>4. h = Body(h)
    BY <2>1, <2>2, <2>3
  <2> QED BY <2>4
<1>8. all = Body(all)
  <2> HIDE DEF Body
  <2> QED BY <1>7
<1>9. N # 0 => FlattenSeq(s) = all[N]
  BY Zenon DEF FlattenSeq
<1> HIDE DEF all
<1>10. \A j \in 1..N : all[j] = IF j = 1 THEN s[j] ELSE all[j - 1] \o s[j]
  <2>1. \A j \in 1..N : Body(all)[j] = IF j = 1 THEN s[j] ELSE all[j - 1] \o s[j]
    OBVIOUS
  <2> HIDE DEF Body
  <2> QED BY <1>8, <2>1
<1>11. \A j \in Nat : j \in 1..N => all[j] = f[j]
  <2> DEFINE W == {j \in Nat : j \in 1..N => all[j] = f[j]}
  <2>1. 0 \in W
    OBVIOUS
  <2>2. ASSUME NEW k \in Nat, k \in W
        PROVE  k + 1 \in W
    <3> SUFFICES ASSUME k + 1 \in 1..N
                 PROVE  all[k + 1] = f[k + 1]
      OBVIOUS
    <3> DEFINE j == k + 1
    <3>0. j \in 1..N /\ j - 1 = k
      OBVIOUS
    <3> HIDE DEF j
    <3>1. f[j] = f[k] \o s[j] /\ s[j] \in V
      BY <1>1, <1>6, <3>0
    <3>2. CASE j = 1
      <4>1. f[k] = <<>>
        BY <1>5, <3>0, <3>2 DEF Iterates
      <4>2. all[j] = s[j]
        BY <1>10, <3>0, <3>2
      <4>3. all[j] = f[j]
        BY <1>2, <3>1, <4>1, <4>2
      <4> QED BY <4>3 DEF j
    <3>3. CASE j # 1
      <4>1. k \in 1..N
        BY <1>1, <3>0, <3>3
      <4>2. all[k] = f[k]
        BY <2>2, <4>1
      <4>3. all[j] = all[k] \o s[j]
        BY <1>10, <3>0, <3>3
      <4>4. all[j] = f[j]
        BY <3>1, <4>2, <4>3
      <4> QED BY <4>4 DEF j
    <3> QED BY <3>2, <3>3
  <2> HIDE DEF W
  <2>3. Nat \subseteq W
    BY <2>1, <2>2, InductionUp
  <2> QED BY <2>3 DEF W
<1>12. FlattenSeq(s) = f[N]
  <2>1. CASE N = 0
    <3>1. s = <<>>
      BY <2>1, EmptySeq
    <3>2. FlattenSeq(s) = s
      BY <2>1 DEF FlattenSeq
    <3> QED BY <1>5, <2>1, <3>1, <3>2 DEF Iterates
  <2>2. CASE N # 0
    <3>1. N \in 1..N
      BY <1>1, <2>2
    <3> QED BY <1>1, <1>9, <1>11, <2>2, <3>1
  <2> QED BY <2>1, <2>2
<1>13. Joins(f, s, S)
  BY <1>5, <1>6 DEF Joins, Iterates
<1> QED BY <1>12, <1>13

\* A sequence over a part of a set is one over the set.
LEMMA SeqWidens ==
  ASSUME NEW S, NEW Z \in SUBSET S
  PROVE  Seq(Z) \subseteq Seq(S)
<1>1. ASSUME NEW q \in Seq(Z)
      PROVE  q \in Seq(S)
  <2>1. Len(q) \in Nat /\ DOMAIN q = 1..Len(q) /\ \A k \in 1..Len(q) : q[k] \in Z
    BY LenProperties, ElementOfSeq
  <2>2. q = [k \in 1..Len(q) |-> q[k]]
    BY <2>1
  <2>3. \A k \in 1..Len(q) : q[k] \in S
    BY <2>1
  <2> DEFINE n == Len(q)
  <2>4. [k \in 1..n |-> q[k]] \in Seq(S)
    <3> HIDE DEF n
    <3>1. n \in Nat /\ \A k \in 1..n : q[k] \in S
      BY <2>1, <2>3 DEF n
    <3> QED BY <3>1, IsASeq
  <2> QED BY <2>2, <2>4
<1> QED BY <1>1

\* What FlattenSeq() joins is made of the elements of its parts.
LEMMA FlattenTypes ==
  ASSUME NEW S, NEW s \in Seq(Seq(S))
  PROVE  FlattenSeq(s) \in Seq(S)
<1>1. PICK g : Joins(g, s, S) /\ FlattenSeq(s) = g[Len(s)]
  BY Flattening
<1>2. Len(s) \in 0..Len(s)
  BY LenProperties
<1> QED BY <1>1, <1>2 DEF Joins

\* Single elements are joined to the sequence of them.
LEMMA FlattenSingles ==
  ASSUME NEW S, NEW e \in Seq(S), NEW s \in Seq(Seq(S)), Len(s) = Len(e),
         \A k \in 1..Len(e) : s[k] = <<e[k]>>
  PROVE  FlattenSeq(s) = e
<1> DEFINE N == Len(e)
<1>1. N \in Nat /\ \A k \in 1..N : e[k] \in S
  BY LenProperties, ElementOfSeq
<1>2. PICK g : Joins(g, s, S) /\ FlattenSeq(s) = g[N]
  BY Flattening
<1> DEFINE Good(j) == /\ g[j] \in Seq(S) /\ Len(g[j]) = j
                      /\ \A k \in 1..j : g[j][k] = e[k]
           W == {j \in Nat : j <= N => Good(j)}
<1>3. 0 \in W
  <2>1. g[0] = <<>> /\ <<>> \in Seq(S) /\ Len(<<>>) = 0
    BY <1>2 DEF Joins
  <2>2. Good(0)
    BY <2>1
  <2> QED BY <2>2
<1>4. ASSUME NEW j \in Nat, j \in W
      PROVE  j + 1 \in W
  <2> SUFFICES ASSUME j + 1 <= N
               PROVE  Good(j + 1)
    OBVIOUS
  <2>1. j + 1 \in 1..N /\ j + 1 - 1 = j /\ j <= N
    BY <1>1
  <2>2. Good(j)
    BY <1>4, <2>1
  <2>3. g[j + 1] = g[j] \o s[j + 1] /\ s[j + 1] = <<e[j + 1]>> /\ e[j + 1] \in S
    <3>0. Len(s) = N
      OBVIOUS
    <3>1. \A k \in 1..N : g[k] = g[k - 1] \o s[k]
      BY ONLY <1>2, <3>0 DEF Joins
    <3>2. g[j + 1] = g[j] \o s[j + 1]
      <4>1. PICK k : k = j + 1
        OBVIOUS
      <4>2. k \in 1..N /\ k - 1 = j
        BY <2>1, <4>1
      <4>3. g[k] = g[k - 1] \o s[k]
        BY ONLY <3>1, <4>2
      <4>4. g[k] = g[j] \o s[k]
        BY ONLY <4>2, <4>3
      <4> QED BY ONLY <4>1, <4>4
    <3>3. s[j + 1] = <<e[j + 1]>>
      BY <2>1
    <3> QED BY <1>1, <2>1, <3>2, <3>3
  <2> DEFINE q == g[j]
             x == e[j + 1]
  <2>4. q \o <<x>> = Append(q, x)
    <3>1. q \in Seq(S) /\ x \in S
      BY <2>2, <2>3
    <3> HIDE DEF q, x
    <3> QED BY <3>1, AppendIsConcat
  <2>5. g[j + 1] = Append(q, x)
    BY <2>3, <2>4
  <2>6. q \in Seq(S) /\ x \in S /\ Len(q) = j /\ \A k \in 1..j : q[k] = e[k]
    BY <2>2, <2>3
  <2> HIDE DEF q, x
  <2>7. /\ Append(q, x) \in Seq(S) /\ Len(Append(q, x)) = j + 1
        /\ \A k \in 1..j + 1 : Append(q, x)[k] = e[k]
    <3>1. /\ Append(q, x) \in Seq(S) /\ Len(Append(q, x)) = Len(q) + 1
          /\ \A k \in 1..Len(q) : Append(q, x)[k] = q[k]
          /\ Append(q, x)[Len(q) + 1] = x
      BY <2>6, AppendProperties
    <3>2. \A k \in 1..j + 1 : k \in 1..j \/ k = j + 1
      OBVIOUS
    <3>3. x = e[j + 1]
      BY DEF x
    <3> QED BY <2>6, <3>1, <3>2, <3>3
  <2> QED BY <2>5, <2>7
<1> HIDE DEF W
<1>5. Nat \subseteq W
  BY <1>3, <1>4, InductionUp
<1>6. Good(N)
  BY <1>1, <1>5 DEF W
<1>7. g[N] = e
  BY <1>6, SeqEqual
<1> QED BY <1>2, <1>7

\* Joining sequences is associative.
Regroups(S) == \A q, r, z \in Seq(S) : (q \o r) \o z = q \o (r \o z)

\* It is so for all sequences.
LEMMA Regrouped ==
  ASSUME NEW S
  PROVE  Regroups(S)
<1>1. ASSUME NEW q \in Seq(S), NEW r \in Seq(S), NEW z \in Seq(S)
      PROVE  (q \o r) \o z = q \o (r \o z)
  BY ConcatAssociative
<1> QED BY <1>1 DEF Regroups

\* Two sequences of parts differ in the part at p only, and the others are over Z.
DifferAt(s, t, p, S, Z) ==
  /\ s \in Seq(Seq(S)) /\ t \in Seq(Seq(S)) /\ Len(t) = Len(s)
  /\ p \in 1..Len(s) /\ Z \in SUBSET S
  /\ \A k \in 1..Len(s) : k # p => t[k] = s[k] /\ s[k] \in Seq(Z)

\* Joined, they have the same before and behind that part.
AgreeAround(s, t, p, Z) ==
  \E a, b \in Seq(Z) : /\ FlattenSeq(s) = (a \o s[p]) \o b
                       /\ FlattenSeq(t) = (a \o t[p]) \o b

\* When one of the parts is exchanged, what FlattenSeq() puts before and behind
\* it stays.
LEMMA PartExchanged ==
  ASSUME NEW S, NEW Z, NEW s, NEW t, NEW p, DifferAt(s, t, p, S, Z)
  PROVE  AgreeAround(s, t, p, Z)
<1>0. /\ s \in Seq(Seq(S)) /\ t \in Seq(Seq(S)) /\ Len(t) = Len(s)
      /\ p \in 1..Len(s) /\ Z \in SUBSET S
      /\ \A k \in 1..Len(s) : k # p => t[k] = s[k] /\ s[k] \in Seq(Z)
  BY DEF DifferAt
<1> DEFINE N == Len(s)
<1>1. N \in Nat /\ p \in 1..N /\ p \in Nat
      /\ \A k \in 1..N : s[k] \in Seq(S) /\ t[k] \in Seq(S)
  BY <1>0, LenProperties, ElementOfSeq
<1>2. PICK g : Joins(g, s, S) /\ FlattenSeq(s) = g[N]
  BY <1>0, Flattening
<1>3. PICK h : Joins(h, t, S) /\ FlattenSeq(t) = h[N]
  BY <1>0, Flattening
<1>4. Seq(Z) \subseteq Seq(S) /\ <<>> \in Seq(Z)
  BY <1>0, SeqWidens
<1>5. \A k \in 1..N : k # p => t[k] = s[k] /\ s[k] \in Seq(Z)
  BY <1>0
<1>6. \A k \in 1..N : g[k] = g[k - 1] \o s[k] /\ h[k] = h[k - 1] \o t[k]
  BY <1>0, <1>2, <1>3 DEF Joins
<1>7. g[0] = <<>> /\ h[0] = <<>>
  BY <1>2, <1>3 DEF Joins
<1>12. Regroups(S)
  BY Regrouped
<1> HIDE DEF N
<1> DEFINE Before(j) == g[j] = h[j] /\ g[j] \in Seq(Z)
           Behind(j) == \E a, b \in Seq(Z) : /\ g[j] = (a \o s[p]) \o b
                                             /\ h[j] = (a \o t[p]) \o b
           W == {j \in Nat : j <= N => IF j < p THEN Before(j) ELSE Behind(j)}
<1>8. 0 \in W
  <2>1. Before(0) /\ 0 < p
    BY <1>1, <1>4, <1>7
  <2> QED BY <2>1
<1>9. ASSUME NEW j \in Nat, j \in W
      PROVE  j + 1 \in W
  <2> SUFFICES ASSUME j + 1 <= N
               PROVE  IF j + 1 < p THEN Before(j + 1) ELSE Behind(j + 1)
    <3> HIDE DEF Before, Behind
    <3> QED OBVIOUS
  <2> DEFINE k == j + 1
  <2>1. k \in 1..N /\ k - 1 = j /\ j <= N /\ k \in Nat /\ (j < p <=> k <= p)
    BY <1>1
  <2>2. IF j < p THEN Before(j) ELSE Behind(j)
    <3> HIDE DEF Before, Behind
    <3> QED BY <1>9, <2>1
  <2>3. g[k] = g[j] \o s[k] /\ h[k] = h[j] \o t[k]
    BY <1>6, <2>1
  <2>4. CASE k < p
    <3>1. k # p /\ j < p
      BY <1>1, <2>1, <2>4
    <3>2. t[k] = s[k] /\ s[k] \in Seq(Z)
      BY <1>5, <2>1, <3>1
    <3>3. Before(j)
      BY <2>2, <3>1
    <3>4. g[j] \o s[k] \in Seq(Z)
      BY <3>2, <3>3, ConcatProperties
    <3> QED BY <2>3, <2>4, <3>2, <3>3, <3>4
  <2>5. CASE k = p
    <3>1. Before(j) /\ ~(k < p)
      BY <1>1, <2>1, <2>2, <2>5
    <3> DEFINE a == g[j]
    <3>2. a \in Seq(Z) /\ a \in Seq(S) /\ h[j] = a
      BY <1>4, <3>1
    <3>3. s[p] \in Seq(S) /\ t[p] \in Seq(S)
      BY <1>1
    <3> HIDE DEF a
    <3>4. a \o s[p] \in Seq(S) /\ a \o t[p] \in Seq(S)
      BY <3>2, <3>3, ConcatProperties
    <3>5. (a \o s[p]) \o <<>> = a \o s[p] /\ (a \o t[p]) \o <<>> = a \o t[p]
      BY <3>4, ConcatEmptySeq
    <3>6. g[k] = a \o s[p] /\ h[k] = a \o t[p]
      BY <2>3, <2>5, <3>2 DEF a
    <3>7. Behind(k)
      BY <1>4, <3>2, <3>5, <3>6
    <3> QED BY <3>1, <3>7
  <2>6. CASE k > p
    <3>1. Behind(j) /\ ~(k < p) /\ k # p
      <4> HIDE DEF Before, Behind
      <4> QED BY <1>1, <2>1, <2>2, <2>6
    <3>2. PICK a, b \in Seq(Z) : g[j] = (a \o s[p]) \o b /\ h[j] = (a \o t[p]) \o b
      BY <3>1
    <3>3. t[k] = s[k] /\ s[k] \in Seq(Z)
      BY <1>5, <2>1, <3>1
    <3>4. PICK x \in Seq(Z) : x = s[k] /\ x = t[k]
      BY <3>3
    <3>5. /\ a \in Seq(S) /\ b \in Seq(S) /\ x \in Seq(S)
          /\ s[p] \in Seq(S) /\ t[p] \in Seq(S)
      BY <1>1, <1>4
    <3>6. a \o s[p] \in Seq(S) /\ a \o t[p] \in Seq(S)
      BY <3>5, ConcatProperties
    <3>7. /\ ((a \o s[p]) \o b) \o x = (a \o s[p]) \o (b \o x)
          /\ ((a \o t[p]) \o b) \o x = (a \o t[p]) \o (b \o x)
      <4> DEFINE u == a \o s[p]
                 w == a \o t[p]
      <4>1. u \in Seq(S) /\ w \in Seq(S) /\ b \in Seq(S) /\ x \in Seq(S)
        BY <3>5, <3>6
      <4> HIDE DEF u, w
      <4>2. (u \o b) \o x = u \o (b \o x)
        BY ONLY <1>12, <4>1 DEF Regroups
      <4>3. (w \o b) \o x = w \o (b \o x)
        BY ONLY <1>12, <4>1 DEF Regroups
      <4> QED BY <4>2, <4>3 DEF u, w
    <3>8. b \o x \in Seq(Z)
      BY ConcatProperties
    <3>9. g[k] = (a \o s[p]) \o (b \o x) /\ h[k] = (a \o t[p]) \o (b \o x)
      BY <2>3, <3>2, <3>4, <3>7
    <3>10. Behind(k)
      BY <3>8, <3>9
    <3> QED BY <3>1, <3>10
  <2>7. k < p \/ k = p \/ k > p
    BY <1>1, <2>1
  <2> HIDE DEF Before, Behind
  <2> QED BY <2>4, <2>5, <2>6, <2>7
<1> HIDE DEF W
<1>10. Nat \subseteq W
  BY <1>8, <1>9, InductionUp
<1>11. Behind(N)
  <2>1. N \in W /\ N <= N /\ ~(N < p)
    BY <1>1, <1>10
  <2> QED BY <2>1 DEF W
<1> QED BY <1>2, <1>3, <1>11 DEF AgreeAround

\* A sequence that two make falls into them again.
LEMMA CutAgain ==
  ASSUME NEW S, NEW u \in Seq(S), NEW v \in Seq(S)
  PROVE  /\ Len(u \o v) = Len(u) + Len(v) /\ Len(u) \in Nat
         /\ SubSeq(u \o v, 1, Len(u)) = u
         /\ SubSeq(u \o v, Len(u) + 1, Len(u \o v)) = v
<1> DEFINE c == u \o v
           n == Len(u)
           k == Len(v)
<1>1. n \in Nat /\ k \in Nat
  BY LenProperties
<1>2. /\ c \in Seq(S) /\ Len(c) = n + k
      /\ \A l \in 1..n + k : c[l] = IF l <= n THEN u[l] ELSE v[l - n]
  BY ConcatProperties
<1>3. \A l \in 1..n + k : c[l] \in S
  BY <1>2, ElementOfSeq
<1>4. Len(u) = n /\ Len(v) = k
  OBVIOUS
<1> HIDE DEF c, n, k
<1>5. SubSeq(c, 1, n) = u
  <2>1. \A l \in 1..n : c[l] \in S
    BY <1>1, <1>3
  <2>2. /\ SubSeq(c, 1, n) \in Seq(S)
        /\ Len(SubSeq(c, 1, n)) = IF 1 <= n THEN n - 1 + 1 ELSE 0
        /\ \A l \in 1..n - 1 + 1 : SubSeq(c, 1, n)[l] = c[1 + l - 1]
    BY <1>1, <2>1, SubSeqProperties
  <2> DEFINE w == SubSeq(c, 1, n)
  <2>3. w \in Seq(S) /\ Len(w) = n /\ \A l \in 1..n : w[l] = c[1 + l - 1]
    BY <1>1, <2>2
  <2> HIDE DEF w
  <2>4. ASSUME NEW l \in 1..n
        PROVE  w[l] = u[l]
    <3>1. l \in 1..n + k /\ l <= n /\ 1 + l - 1 = l
      BY <1>1
    <3>2. w[l] = c[l]
      BY <2>3, <3>1
    <3>3. c[l] = u[l]
      BY <1>2, <3>1
    <3> QED BY <3>2, <3>3
  <2>5. w = u
    BY <1>4, <2>3, <2>4, SeqEqual
  <2> QED BY <2>5 DEF w
<1>6. SubSeq(c, n + 1, n + k) = v
  <2>1. \A l \in n + 1..n + k : c[l] \in S
    BY <1>1, <1>3
  <2> DEFINE x == n + 1
             y == n + k
             w == SubSeq(c, x, y)
  <2>2. x \in Int /\ y \in Int /\ \A l \in x..y : c[l] \in S
    BY <1>1, <2>1
  <2>3. x = n + 1 /\ y = n + k
    OBVIOUS
  <2>4. /\ \A l \in 1..y : c[l] = IF l <= n THEN u[l] ELSE v[l - n]
    BY <1>2
  <2> HIDE DEF x, y
  <2>5. w \in Seq(S) /\ Len(w) = IF x <= y THEN y - x + 1 ELSE 0
    BY ONLY <2>2, SubSeqProperties
  <2>6. ASSUME NEW l \in 1..y - x + 1
        PROVE  w[l] = c[x + l - 1]
    BY ONLY <2>2, <2>6, SubSeqProperties
  <2> HIDE DEF w
  <2>7. Len(w) = k
    <3>1. y - x + 1 = k /\ (x <= y <=> k # 0)
      BY <1>1, <2>3
    <3> QED BY <2>5, <3>1
  <2>8. ASSUME NEW l \in 1..k
        PROVE  w[l] = v[l]
    <3>1. PICK z : z = x + l - 1
      OBVIOUS
    <3>2. z \in 1..y /\ ~(z <= n) /\ z - n = l /\ l \in 1..y - x + 1
      BY <1>1, <2>3, <3>1
    <3>3. c[z] = v[z - n]
      BY ONLY <2>4, <3>2
    <3>4. w[l] = c[z]
      BY ONLY <2>6, <3>1, <3>2
    <3> QED BY ONLY <3>2, <3>3, <3>4
  <2>9. w = v
    BY <1>4, <2>5, <2>7, <2>8, SeqEqual
  <2> QED BY <2>9 DEF w, x, y
<1>7. Len(c) = n + k
  BY <1>2
<1> QED BY <1>1, <1>4, <1>5, <1>6, <1>7 DEF c, n

\* The element q is between u and b in c.
Surrounded(c, u, q, b, S) ==
  /\ \A k \in DOMAIN c : c[k] = q => k = Len(u) + 1
  /\ \A e \in S : InsertAt(c, Len(u) + 1, e) = (u \o <<e>>) \o (<<q>> \o b)
  /\ RemoveAt(c, Len(u) + 1) = u \o b

\* Around an element that is nowhere else, only one position is its own; what is
\* inserted there comes before it, and removing it leaves the rest.
LEMMA Around ==
  ASSUME NEW S, NEW q \in S, NEW u \in Seq(S \ {q}), NEW b \in Seq(S \ {q}),
         NEW c, c = u \o (<<q>> \o b)
  PROVE  Surrounded(c, u, q, b, S)
<1> DEFINE Z == S \ {q}
           n == Len(u)
           l == Len(b)
           v == <<q>> \o b
           w == u \o <<q>>
<1>1. u \in Seq(S) /\ b \in Seq(S) /\ <<q>> \in Seq(S) /\ Len(<<q>>) = 1
  <2>1. Seq(Z) \subseteq Seq(S)
    BY SeqWidens
  <2> QED BY <2>1
<1>2. n \in Nat /\ l \in Nat /\ (\A k \in 1..n : u[k] # q) /\ (\A k \in 1..l : b[k] # q)
  <2>1. \A k \in 1..n : u[k] \in Z
    BY ElementOfSeq
  <2>2. \A k \in 1..l : b[k] \in Z
    BY ElementOfSeq
  <2>3. n \in Nat /\ l \in Nat
    BY LenProperties
  <2> QED BY <2>1, <2>2, <2>3
<1>3. /\ v \in Seq(S) /\ Len(v) = 1 + l
      /\ \A k \in 1..1 + l : v[k] = IF k <= 1 THEN <<q>>[k] ELSE b[k - 1]
  BY <1>1, ConcatProperties
<1>4. /\ w \in Seq(S) /\ Len(w) = n + 1
  BY <1>1, ConcatProperties
<1>5. c = u \o v /\ c = w \o b
  <2>1. Regroups(S)
    BY Regrouped
  <2>2. (u \o <<q>>) \o b = u \o (<<q>> \o b)
    BY ONLY <1>1, <2>1 DEF Regroups
  <2> QED BY <2>2
<1>6. /\ SubSeq(c, 1, n) = u /\ SubSeq(c, n + 1, Len(c)) = v
  <2> HIDE DEF v
  <2>1. /\ SubSeq(u \o v, 1, Len(u)) = u
        /\ SubSeq(u \o v, Len(u) + 1, Len(u \o v)) = v
    <3>1. u \in Seq(S) /\ v \in Seq(S)
      BY <1>1, <1>3
    <3> QED BY ONLY <3>1, CutAgain
  <2> QED BY <1>5, <2>1
<1>7. SubSeq(c, (n + 1) + 1, Len(c)) = b
  <2>1. SubSeq(w \o b, Len(w) + 1, Len(w \o b)) = b
    <3> HIDE DEF w
    <3> QED BY <1>1, <1>4, CutAgain
  <2> HIDE DEF w
  <2> QED BY <1>4, <1>5, <2>1
<1>8. (n + 1) - 1 = n
  BY <1>2
<1>9. ASSUME NEW k \in DOMAIN c, c[k] = q
      PROVE  k = n + 1
  <2>1. /\ c \in Seq(S) /\ Len(c) = n + Len(v)
        /\ \A j \in 1..n + Len(v) : c[j] = IF j <= n THEN u[j] ELSE v[j - n]
    <3> HIDE DEF v
    <3> QED BY <1>1, <1>3, <1>5, ConcatProperties
  <2>2. k \in 1..n + (1 + l)
    BY <1>3, <2>1, LenProperties
  <2> HIDE DEF v, n, l
  <2>3. k \in Nat /\ c[k] = IF k <= n THEN u[k] ELSE v[k - n]
    <3>1. Len(v) = 1 + l
      BY <1>3
    <3>2. k \in 1..n + Len(v) /\ k \in Nat
      BY <2>2, <3>1
    <3> QED BY <2>1, <3>2
  <2>4. ~(k <= n)
    <3> SUFFICES ASSUME k <= n PROVE FALSE
      OBVIOUS
    <3>1. k \in 1..n
      BY <1>2, <2>2
    <3>2. u[k] # q
      BY <1>2, <3>1
    <3> QED BY <1>9, <2>3, <3>2
  <2>5. PICK j : j = k - n
    OBVIOUS
  <2>6. j \in 1..1 + l /\ (j <= 1 => k = n + 1) /\ (~(j <= 1) => j - 1 \in 1..l)
    BY <1>2, <2>2, <2>3, <2>4, <2>5
  <2>7. v[j] = q
    BY <1>9, <2>3, <2>4, <2>5
  <2>8. j <= 1
    <3> SUFFICES ASSUME ~(j <= 1) PROVE FALSE
      OBVIOUS
    <3>1. v[j] = b[j - 1]
      BY <1>3, <2>6
    <3>2. b[j - 1] # q
      BY <1>2, <2>6
    <3> QED BY <2>7, <3>1, <3>2
  <2> QED BY <2>6, <2>8
<1>10. ASSUME NEW e \in S
       PROVE  InsertAt(c, n + 1, e) = (u \o <<e>>) \o v
  <2>1. InsertAt(c, n + 1, e) = SubSeq(c, 1, (n + 1) - 1) \o <<e>> \o SubSeq(c, n + 1, Len(c))
    BY DEF InsertAt
  <2> HIDE DEF n, v
  <2> QED BY <1>6, <1>8, <2>1
<1>11. RemoveAt(c, n + 1) = u \o b
  <2>1. RemoveAt(c, n + 1) = SubSeq(c, 1, (n + 1) - 1) \o SubSeq(c, (n + 1) + 1, Len(c))
    BY DEF RemoveAt
  <2> HIDE DEF n
  <2> QED BY <1>6, <1>7, <1>8, <2>1
<1> QED BY <1>9, <1>10, <1>11 DEF Surrounded

\* The first elements of s behind a: none, one more, and all of them.
Beginnings(s, a, S) ==
  /\ a \o SubSeq(s, 1, 1 - 1) = a
  /\ \A k \in 1..Len(s) :
       (a \o SubSeq(s, 1, k - 1)) \o <<s[k]>> = a \o SubSeq(s, 1, (k + 1) - 1)
  /\ a \o SubSeq(s, 1, (Len(s) + 1) - 1) = a \o s
  /\ \A k \in 1..Len(s) + 1 : SubSeq(s, 1, k - 1) \in Seq(S)

\* It is so for all sequences.
LEMMA FirstElements ==
  ASSUME NEW S, NEW s \in Seq(S), NEW a \in Seq(S)
  PROVE  Beginnings(s, a, S)
<1>1. Len(s) \in Nat /\ \A k \in 1..Len(s) : s[k] \in S
  BY LenProperties, ElementOfSeq
<1>2. a \o SubSeq(s, 1, 1 - 1) = a
  <2>1. SubSeq(s, 1, 0) = <<>>
    BY SubSeqEmpty
  <2>2. a \o <<>> = a
    BY ConcatEmptySeq
  <2> QED BY <2>1, <2>2
<1>3. ASSUME NEW k \in 1..Len(s) + 1
      PROVE  SubSeq(s, 1, k - 1) \in Seq(S)
  <2>1. PICK j : j = k - 1
    OBVIOUS
  <2>2. j \in Int /\ \A x \in 1..j : s[x] \in S
    BY <1>1, <2>1
  <2>3. SubSeq(s, 1, j) \in Seq(S)
    BY <2>2, SubSeqProperties
  <2> QED BY <2>1, <2>3
<1>4. ASSUME NEW k \in 1..Len(s)
      PROVE  (a \o SubSeq(s, 1, k - 1)) \o <<s[k]>> = a \o SubSeq(s, 1, (k + 1) - 1)
  <2>1. 1 \in 1..Len(s) /\ k \in Nat /\ (k + 1) - 1 = k /\ k \in 1..Len(s) + 1
    BY <1>1
  <2>2. SubSeq(s, 1, k) = SubSeq(s, 1, k - 1) \o <<s[k]>>
    BY <2>1, SubSeqRecursiveSecond
  <2>3. SubSeq(s, 1, k - 1) \in Seq(S) /\ <<s[k]>> \in Seq(S)
    BY <1>1, <1>3, <2>1
  <2> DEFINE p == SubSeq(s, 1, k - 1)
             r == <<s[k]>>
  <2>4. p \in Seq(S) /\ r \in Seq(S) /\ a \in Seq(S)
    BY <2>3
  <2> HIDE DEF p, r
  <2>5. Regroups(S)
    BY Regrouped
  <2>6. (a \o p) \o r = a \o (p \o r)
    BY ONLY <2>4, <2>5 DEF Regroups
  <2> QED BY <2>1, <2>2, <2>6 DEF p, r
<1>5. a \o SubSeq(s, 1, (Len(s) + 1) - 1) = a \o s
  <2>1. (Len(s) + 1) - 1 = Len(s)
    BY <1>1
  <2>2. SubSeq(s, 1, Len(s)) = s
    BY SubSeqFull
  <2> QED BY <2>1, <2>2
<1> QED BY <1>2, <1>3, <1>4, <1>5 DEF Beginnings

-----------------------------------------------------------------------------
(***************************************************************************)
(* The levels of the includes.                                             *)
(***************************************************************************)
\* The nodes that stay: all but the includes.
Plain == {node \in Nodes : OnDisk(node) /\ Element(node).kind # "include"}

\* The nodes of a file, with those of its includes that are not in rest replaced
\* by what flat has for n levels.
Pieces(t, flat, f, rest, n) ==
  [k \in 1..Len(t[f]) |->
     IF t[f][k].kind = "include" /\ <<f, k>> \notin rest
     THEN flat[n][t[f][k].file] ELSE << <<f, k>> >>]

\* A child of a file is a node, and an include names a file.
LEMMA ChildTypes ==
  ASSUME DiskInv, NEW f \in DOMAIN tree
  PROVE  /\ f \in Files /\ Len(tree[f]) \in Nat /\ DOMAIN tree[f] = 1..Len(tree[f])
         /\ \A k \in 1..Len(tree[f]) :
              /\ <<f, k>> \in Nodes /\ OnDisk(<<f, k>>)
              /\ Element(<<f, k>>) = tree[f][k]
              /\ tree[f][k].kind = "include" => tree[f][k].file \in Files
              /\ tree[f][k].kind # "include" => <<f, k>> \in Plain
<1>1. f \in Files /\ tree[f] \in Seq(Elements)
  BY AddRevisionAssumption DEF DiskInv
<1>2. Len(tree[f]) \in Nat /\ DOMAIN tree[f] = 1..Len(tree[f])
  BY <1>1, LenProperties
<1>3. ASSUME NEW k \in 1..Len(tree[f])
      PROVE  /\ <<f, k>> \in Nodes /\ OnDisk(<<f, k>>)
             /\ Element(<<f, k>>) = tree[f][k]
  BY <1>1, <1>2 DEF Nodes, OnDisk, Element
<1>4. ASSUME NEW k \in 1..Len(tree[f])
      PROVE  /\ tree[f][k].kind = "include" => tree[f][k].file \in Files
             /\ tree[f][k].kind # "include" => <<f, k>> \in Plain
  <2>1. tree[f][k].kind = "include" => tree[f][k].file \in Files
    BY <1>3, ElementTypes
  <2>2. tree[f][k].kind # "include" => <<f, k>> \in Plain
    BY <1>3 DEF Plain
  <2> QED BY <2>1, <2>2
<1> QED BY <1>1, <1>2, <1>3, <1>4

\* Flat is what its definition says, and leaves no includes.
LEMMA FlatRule ==
  ASSUME DiskInv
  PROVE  /\ \A n \in 0..MaxDepth : \A f \in Files : Flat[n][f] \in Seq(Plain)
         /\ \A n \in 1..MaxDepth : \A f \in DOMAIN tree :
              Flat[n][f] = FlattenSeq(Pieces(tree, Flat, f, {}, n - 1))
<1> DEFINE Z == Seq(Plain)
           V == [Files -> Z]
           N == MaxDepth
           Parts(v, f) == [k \in 1..Len(tree[f]) |->
                             IF tree[f][k].kind = "include" THEN v[tree[f][k].file]
                             ELSE << <<f, k>> >>]
           Level(v) == [f \in Files |-> IF f \notin DOMAIN tree THEN <<>>
                                        ELSE FlattenSeq(Parts(v, f))]
           first == [f \in Files |-> <<>>]
           Body(h) == [n \in 0..N |->
                         [f \in Files |->
                            IF n = 0 \/ f \notin DOMAIN tree THEN <<>>
                            ELSE FlattenSeq(Parts(h[n - 1], f))]]
<1>0. N \in Nat
  BY AddRevisionAssumption
<1>1. first \in V /\ <<>> \in Z
  OBVIOUS
<1>2. ASSUME NEW v \in V
      PROVE  Level(v) \in V
  <2>1. ASSUME NEW f \in Files, f \in DOMAIN tree
        PROVE  FlattenSeq(Parts(v, f)) \in Z
    <3> DEFINE n == Len(tree[f])
               e == Parts(v, f)
    <3>1. n \in Nat /\ \A k \in 1..n : e[k] \in Z
      <4>1. ASSUME NEW k \in 1..n
            PROVE  e[k] \in Z
        <5>1. CASE tree[f][k].kind = "include"
          <6>1. tree[f][k].file \in Files
            BY <2>1, <5>1, ChildTypes
          <6>2. e[k] = v[tree[f][k].file]
            BY <5>1
          <6> HIDE DEF e, Z
          <6> QED BY <6>1, <6>2
        <5>2. CASE tree[f][k].kind # "include"
          <6>1. <<f, k>> \in Plain
            BY <2>1, <5>2, ChildTypes
          <6>2. e[k] = << <<f, k>> >>
            BY <5>2
          <6> HIDE DEF e
          <6> DEFINE x == <<f, k>>
          <6>3. x \in Plain
            BY <6>1
          <6> HIDE DEF x
          <6>4. <<x>> \in Seq(Plain)
            BY <6>3
          <6> QED BY <6>2, <6>4 DEF x
        <5> QED BY <5>1, <5>2
      <4>2. n \in Nat
        BY <2>1, ChildTypes
      <4> QED BY <4>1, <4>2
    <3>2. e = [k \in 1..n |-> e[k]]
      OBVIOUS
    <3> HIDE DEF e, n
    <3>3. [k \in 1..n |-> e[k]] \in Seq(Z)
      <4> HIDE DEF Z
      <4> QED BY <3>1, IsASeq
    <3>4. e \in Seq(Seq(Plain))
      BY <3>2, <3>3
    <3>5. FlattenSeq(e) \in Seq(Plain)
      BY <3>4, FlattenTypes
    <3> QED BY <3>5 DEF e
  <2> HIDE DEF Parts, Z
  <2> QED BY <1>1, <2>1
<1> DEFINE step == [n \in Nat |-> [v \in V |-> Level(v)]]
<1>3. step \in [Nat -> [V -> V]] /\ \A n \in Nat : \A v \in V : step[n][v] = Level(v)
  <2> HIDE DEF V, Level
  <2> QED BY <1>2
<1> HIDE DEF step
<1>4. PICK h : Iterates(h, N, V, first, step)
  <2> HIDE DEF V, first, N
  <2> QED BY <1>0, <1>1, <1>3, IterationExists
<1>5. ASSUME NEW g, NEW n \in 0..N
      PROVE  Body(g)[n] = IF n = 0 THEN first ELSE Level(g[n - 1])
  <2> HIDE DEF Parts
  <2>1. CASE n = 0
    <3>1. Body(g)[n] = [f \in Files |-> IF n = 0 \/ f \notin DOMAIN tree THEN <<>>
                                        ELSE FlattenSeq(Parts(g[n - 1], f))]
      OBVIOUS
    <3> QED BY <2>1, <3>1
  <2>2. CASE n # 0
    <3>1. Body(g)[n] = [f \in Files |-> IF n = 0 \/ f \notin DOMAIN tree THEN <<>>
                                        ELSE FlattenSeq(Parts(g[n - 1], f))]
      OBVIOUS
    <3> QED BY <2>2, <3>1
  <2> QED BY <2>1, <2>2
<1>6. Flat = CHOOSE g : g = Body(g)
  BY DEF Flat
<1>7. \E g : g = Body(g)
  <2>1. h \in [0..N -> V] /\ h[0] = first
    BY <1>4 DEF Iterates
  <2>2. ASSUME NEW n \in 0..N
        PROVE  h[n] = Body(h)[n]
    <3> HIDE DEF Body, Level, V, first
    <3>1. CASE n = 0
      BY <1>5, <2>1, <3>1
    <3>2. CASE n # 0
      <4>1. n \in 1..N /\ n - 1 \in 0..N /\ n \in Nat
        BY <1>0, <3>2
      <4>2. h[n] = step[n][h[n - 1]] /\ h[n - 1] \in V
        BY <1>4, <2>1, <4>1 DEF Iterates
      <4>3. h[n] = Level(h[n - 1])
        BY <1>3, <4>1, <4>2
      <4> QED BY <1>5, <3>2, <4>3
    <3> QED BY <3>1, <3>2
  <2>3. h = [n \in 0..N |-> h[n]]
    <3> HIDE DEF V
    <3> QED BY <2>1
  <2>4. Body(h) = [n \in 0..N |-> Body(h)[n]]
    <3> HIDE DEF Parts, N
    <3> QED OBVIOUS
  <2> HIDE DEF Body
  <2>5. h = Body(h)
    BY <2>2, <2>3, <2>4
  <2> QED BY <2>5
<1>8. Flat = Body(Flat)
  <2> HIDE DEF Body
  <2> QED BY <1>6, <1>7
<1>9. /\ Flat[0] = first
      /\ \A n \in 1..N : Flat[n] = Level(Flat[n - 1])
  <2> HIDE DEF Body, first, Level
  <2>1. \A n \in 0..N : Flat[n] = IF n = 0 THEN first ELSE Level(Flat[n - 1])
    BY <1>5, <1>8
  <2>2. 0 \in 0..N /\ \A n \in 1..N : n \in 0..N /\ n # 0
    BY <1>0
  <2> QED BY <2>1, <2>2
<1>10. \A n \in 0..N : Flat[n] \in V
  <2> HIDE DEF V, first, Level
  <2> DEFINE W == {n \in Nat : n <= N => Flat[n] \in V}
  <2>1. 0 \in W
    BY <1>1, <1>9
  <2>2. ASSUME NEW n \in Nat, n \in W
        PROVE  n + 1 \in W
    <3> SUFFICES ASSUME n + 1 <= N
                 PROVE  Flat[n + 1] \in V
      OBVIOUS
    <3>1. PICK k : k = n + 1
      OBVIOUS
    <3>2. k \in 1..N /\ k - 1 = n /\ n <= N
      BY <1>0, <3>1
    <3>3. Flat[n] \in V
      BY <2>2, <3>2
    <3>4. Flat[k] = Level(Flat[n])
      BY <1>9, <3>2
    <3> QED BY <1>2, <3>1, <3>3, <3>4
  <2> HIDE DEF W
  <2>3. Nat \subseteq W
    BY <2>1, <2>2, InductionUp
  <2> QED BY <1>0, <2>3 DEF W
<1>11. ASSUME NEW n \in 1..N, NEW f \in DOMAIN tree
       PROVE  Flat[n][f] = FlattenSeq(Pieces(tree, Flat, f, {}, n - 1))
  <2>1. f \in Files
    BY ChildTypes
  <2>2. Flat[n][f] = FlattenSeq(Parts(Flat[n - 1], f))
    <3> HIDE DEF Parts
    <3> QED BY <1>9, <2>1
  <2>3. Parts(Flat[n - 1], f) = Pieces(tree, Flat, f, {}, n - 1)
    BY DEF Pieces
  <2> QED BY <2>2, <2>3
<1> HIDE DEF Z
<1>12. \A n \in 0..N : \A f \in Files : Flat[n][f] \in Z
  BY <1>10
<1> QED BY <1>11, <1>12 DEF Z

\* The files whose includes, one inside the other, end within n levels.
Ends[n \in 0..MaxDepth] ==
  IF n = 0 THEN {}
  ELSE {f \in DOMAIN tree :
          \A k \in DOMAIN tree[f] : tree[f][k].kind = "include" =>
            tree[f][k].file \in Ends[n - 1]}

\* Ends is what its definition says.
LEMMA EndsRule ==
  /\ Ends[0] = {}
  /\ \A n \in 1..MaxDepth :
       Ends[n] = {f \in DOMAIN tree :
                    \A k \in DOMAIN tree[f] : tree[f][k].kind = "include" =>
                      tree[f][k].file \in Ends[n - 1]}
<1> DEFINE N == MaxDepth
           V == SUBSET DOMAIN tree
           Level(v) == {f \in DOMAIN tree :
                          \A k \in DOMAIN tree[f] : tree[f][k].kind = "include" =>
                            tree[f][k].file \in v}
           Body(h) == [n \in 0..N |-> IF n = 0 THEN {} ELSE Level(h[n - 1])]
           step == [n \in Nat |-> [v \in V |-> Level(v)]]
<1>0. N \in Nat
  BY AddRevisionAssumption
<1>1. {} \in V /\ \A v \in V : Level(v) \in V
  OBVIOUS
<1>2. step \in [Nat -> [V -> V]] /\ \A n \in Nat : \A v \in V : step[n][v] = Level(v)
  <2> HIDE DEF V, Level
  <2> QED BY <1>1
<1> HIDE DEF step
<1>3. PICK h : Iterates(h, N, V, {}, step)
  <2> HIDE DEF V, N
  <2> QED BY <1>0, <1>1, <1>2, IterationExists
<1>4. Ends = CHOOSE g : g = Body(g)
  BY DEF Ends
<1> HIDE DEF Level
<1>5. \E g : g = Body(g)
  <2>1. h \in [0..N -> V] /\ h[0] = {} /\ \A n \in 1..N : h[n] = step[n][h[n - 1]]
    BY <1>3 DEF Iterates
  <2> HIDE DEF V, N
  <2>2. ASSUME NEW n \in 0..N
        PROVE  h[n] = IF n = 0 THEN {} ELSE Level(h[n - 1])
    <3>1. CASE n = 0
      BY <2>1, <3>1
    <3>2. CASE n # 0
      <4>1. n \in 1..N /\ n - 1 \in 0..N /\ n \in Nat
        BY <1>0, <3>2
      <4>2. h[n] = step[n][h[n - 1]] /\ h[n - 1] \in V
        BY <2>1, <4>1
      <4> QED BY <1>2, <3>2, <4>1, <4>2
    <3> QED BY <3>1, <3>2
  <2>3. h = [n \in 0..N |-> h[n]]
    BY <2>1
  <2>4. h = Body(h)
    BY <2>2, <2>3
  <2> QED BY <2>4
<1>6. Ends = Body(Ends)
  <2> HIDE DEF Body
  <2> QED BY <1>4, <1>5
<1>7. \A n \in 0..N : Ends[n] = IF n = 0 THEN {} ELSE Level(Ends[n - 1])
  <2>1. ASSUME NEW n \in 0..N
        PROVE  Body(Ends)[n] = IF n = 0 THEN {} ELSE Level(Ends[n - 1])
    OBVIOUS
  <2> HIDE DEF Body
  <2> QED BY <1>6, <2>1
<1>8. 0 \in 0..N /\ \A n \in 1..N : n \in 0..N /\ n # 0
  BY <1>0
<1> QED BY <1>7, <1>8 DEF Level

\* Reached is what its definition says.
LEMMA ReachedRule ==
  /\ Reached[0] = {Main}
  /\ \A n \in 1..MaxDepth :
       Reached[n] = {f \in Files : \E g \in Reached[n - 1] \cap DOMAIN tree :
                       \E k \in DOMAIN tree[g] :
                         tree[g][k] = [kind |-> "include", file |-> f]}
<1> DEFINE N == MaxDepth
           V == SUBSET Files
           Level(v) == {f \in Files : \E g \in v \cap DOMAIN tree :
                          \E k \in DOMAIN tree[g] :
                            tree[g][k] = [kind |-> "include", file |-> f]}
           Body(h) == [n \in 0..N |-> IF n = 0 THEN {Main} ELSE Level(h[n - 1])]
           step == [n \in Nat |-> [v \in V |-> Level(v)]]
<1>0. N \in Nat
  BY AddRevisionAssumption
<1>1. {Main} \in V /\ \A v \in V : Level(v) \in V
  BY AddRevisionAssumption
<1>2. step \in [Nat -> [V -> V]] /\ \A n \in Nat : \A v \in V : step[n][v] = Level(v)
  <2> HIDE DEF V, Level
  <2> QED BY <1>1
<1> HIDE DEF step
<1>3. PICK h : Iterates(h, N, V, {Main}, step)
  <2> HIDE DEF V, N
  <2> QED BY <1>0, <1>1, <1>2, IterationExists
<1>4. Reached = CHOOSE g : g = Body(g)
  BY DEF Reached
<1> HIDE DEF Level
<1>5. \E g : g = Body(g)
  <2>1. h \in [0..N -> V] /\ h[0] = {Main} /\ \A n \in 1..N : h[n] = step[n][h[n - 1]]
    BY <1>3 DEF Iterates
  <2> HIDE DEF V, N
  <2>2. ASSUME NEW n \in 0..N
        PROVE  h[n] = IF n = 0 THEN {Main} ELSE Level(h[n - 1])
    <3>1. CASE n = 0
      BY <2>1, <3>1
    <3>2. CASE n # 0
      <4>1. n \in 1..N /\ n - 1 \in 0..N /\ n \in Nat
        BY <1>0, <3>2
      <4>2. h[n] = step[n][h[n - 1]] /\ h[n - 1] \in V
        BY <2>1, <4>1
      <4> QED BY <1>2, <3>2, <4>1, <4>2
    <3> QED BY <3>1, <3>2
  <2>3. h = [n \in 0..N |-> h[n]]
    BY <2>1
  <2>4. h = Body(h)
    BY <2>2, <2>3
  <2> QED BY <2>4
<1>6. Reached = Body(Reached)
  <2> HIDE DEF Body
  <2> QED BY <1>4, <1>5
<1>7. \A n \in 0..N : Reached[n] = IF n = 0 THEN {Main} ELSE Level(Reached[n - 1])
  <2>1. ASSUME NEW n \in 0..N
        PROVE  Body(Reached)[n] = IF n = 0 THEN {Main} ELSE Level(Reached[n - 1])
    OBVIOUS
  <2> HIDE DEF Body
  <2> QED BY <1>6, <2>1
<1>8. 0 \in 0..N /\ \A n \in 1..N : n \in 0..N /\ n # 0
  BY <1>0
<1> QED BY <1>7, <1>8 DEF Level

\* When the includes of the manifest on the command line end, all they lead to is
\* there, and it ends as well.
LEMMA ReachedEnds ==
  ASSUME Main \in Ends[MaxDepth]
  PROVE  /\ \A n \in 0..MaxDepth - 1 : Reached[n] \subseteq DOMAIN tree
         /\ Reached[MaxDepth] = {}
<1> DEFINE N == MaxDepth
           W == {n \in Nat : n <= N => Reached[n] \subseteq Ends[N - n]}
<1>0. N \in Nat
  BY AddRevisionAssumption
<1>1. 0 \in W
  BY <1>0, ReachedRule
<1>2. ASSUME NEW n \in Nat, n \in W
      PROVE  n + 1 \in W
  <2> SUFFICES ASSUME n + 1 <= N
               PROVE  Reached[n + 1] \subseteq Ends[N - (n + 1)]
    OBVIOUS
  <2>1. PICK k, l : k = n + 1 /\ l = N - n
    OBVIOUS
  <2>2. k \in 1..N /\ k - 1 = n /\ n <= N /\ l \in 1..N /\ l - 1 = N - (n + 1)
    BY <1>0, <2>1
  <2>3. Reached[n] \subseteq Ends[l]
    BY <1>2, <2>1, <2>2
  <2>4. Reached[k] = {f \in Files : \E g \in Reached[n] \cap DOMAIN tree :
                       \E x \in DOMAIN tree[g] :
                         tree[g][x] = [kind |-> "include", file |-> f]}
    BY <2>2, ReachedRule
  <2>5. Ends[l] = {f \in DOMAIN tree :
                    \A x \in DOMAIN tree[f] : tree[f][x].kind = "include" =>
                      tree[f][x].file \in Ends[l - 1]}
    BY <2>2, EndsRule
  <2>6. ASSUME NEW f \in Reached[k]
        PROVE  f \in Ends[l - 1]
    <3>0. PICK g \in Reached[n] :
            \E x \in DOMAIN tree[g] : tree[g][x] = [kind |-> "include", file |-> f]
      BY <2>4
    <3>1. PICK x \in DOMAIN tree[g] : tree[g][x] = [kind |-> "include", file |-> f]
      BY <3>0
    <3>2. tree[g][x].kind = "include" /\ tree[g][x].file = f
      BY <3>1
    <3>3. g \in Ends[l]
      BY <2>3
    <3> QED BY <2>5, <3>2, <3>3
  <2> QED BY <2>1, <2>2, <2>6
<1> HIDE DEF W
<1>3. Nat \subseteq W
  BY <1>1, <1>2, InductionUp
<1>4. ASSUME NEW n \in 0..N
      PROVE  Reached[n] \subseteq Ends[N - n]
  <2>1. n \in Nat /\ n <= N
    BY <1>0
  <2> QED BY <1>3, <2>1 DEF W
<1>5. ASSUME NEW n \in 0..N - 1
      PROVE  Reached[n] \subseteq DOMAIN tree
  <2>1. PICK l : l = N - n
    OBVIOUS
  <2>2. n \in 0..N /\ l \in 1..N
    BY <1>0, <2>1
  <2>3. Ends[l] \subseteq DOMAIN tree
    BY <2>2, EndsRule
  <2> QED BY <1>4, <2>1, <2>2, <2>3
<1>6. Reached[N] = {}
  <2>1. N \in 0..N /\ N - N = 0
    BY <1>0
  <2>2. Reached[N] \subseteq Ends[N - N]
    BY <1>4, <2>1
  <2> QED BY <2>1, <2>2, EndsRule
<1> QED BY <1>5, <1>6

\* The file that an include names.
FileOf(t, node) == t[node[1]][node[2]].file

\* The include that the loop takes next.
NextOf(nodes) == CHOOSE node \in nodes : \A o \in nodes : node[2] <= o[2]

\* The includes of a file.
IncludesOf(t, f) == {<<f, k>> : k \in {x \in DOMAIN t[f] : t[f][x].kind = "include"}}

\* It is one of those that are left.
LEMMA NextOfIsOne ==
  ASSUME NEW nodes \in SUBSET Nodes, nodes # {}
  PROVE  NextOf(nodes) \in nodes
<1>1. \A node \in Nodes : node[2] \in Nat
  BY DEF Nodes
<1> DEFINE K == {node[2] : node \in nodes}
<1>0. K \subseteq Nat /\ K # {}
  BY <1>1
<1>2. PICK k \in K : \A j \in K : k <= j
  <2> HIDE DEF K
  <2> QED BY <1>0, LeastOf
<1>3. PICK node \in nodes : \A o \in nodes : node[2] <= o[2]
  BY <1>2
<1> QED BY <1>3 DEF NextOf

\* An include of a file is a node, and names a file.
LEMMA IncludeRule ==
  ASSUME DiskInv, NEW f \in DOMAIN tree, NEW q \in IncludesOf(tree, f)
  PROVE  /\ q \in Nodes \ Plain /\ q = <<f, q[2]>> /\ q[2] \in 1..Len(tree[f])
         /\ tree[f][q[2]].kind = "include" /\ FileOf(tree, q) = tree[f][q[2]].file
         /\ FileOf(tree, q) \in Files /\ FileOf(tree, q) = Element(q).file
<1>1. PICK k \in DOMAIN tree[f] : q = <<f, k>> /\ tree[f][k].kind = "include"
  BY DEF IncludesOf
<1>2. q[1] = f /\ q[2] = k
  BY <1>1
<1>3. k \in 1..Len(tree[f])
  BY ChildTypes
<1>4. /\ <<f, k>> \in Nodes /\ Element(<<f, k>>) = tree[f][k] /\ tree[f][k].file \in Files
  BY <1>1, <1>3, ChildTypes
<1>5. FileOf(tree, q) = tree[f][k].file
  BY <1>2 DEF FileOf
<1>6. q \notin Plain
  BY <1>1, <1>4 DEF Plain
<1> QED BY <1>1, <1>2, <1>3, <1>4, <1>5, <1>6

\* The parts of a file are sequences of nodes.
LEMMA PiecesTypes ==
  ASSUME DiskInv, NEW f \in DOMAIN tree, NEW rest, NEW n \in 0..MaxDepth
  PROVE  /\ Pieces(tree, Flat, f, rest, n) \in Seq(Seq(Nodes))
         /\ Len(Pieces(tree, Flat, f, rest, n)) = Len(tree[f])
<1> DEFINE s == Pieces(tree, Flat, f, rest, n)
           l == Len(tree[f])
           Z == Seq(Nodes)
<1>1. l \in Nat
  BY ChildTypes
<1>2. s = [k \in 1..l |-> s[k]]
  BY DEF Pieces
<1>3. ASSUME NEW k \in 1..l
      PROVE  s[k] \in Z
  <2>1. CASE tree[f][k].kind = "include" /\ <<f, k>> \notin rest
    <3>1. s[k] = Flat[n][tree[f][k].file]
      BY <2>1 DEF Pieces
    <3>2. tree[f][k].file \in Files
      BY <2>1, ChildTypes
    <3>3. Flat[n][tree[f][k].file] \in Seq(Plain)
      BY <3>2, FlatRule
    <3>4. Seq(Plain) \subseteq Seq(Nodes)
      <4>1. Plain \in SUBSET Nodes
        BY DEF Plain
      <4> QED BY <4>1, SeqWidens
    <3> QED BY <3>1, <3>3, <3>4
  <2>2. CASE ~(tree[f][k].kind = "include" /\ <<f, k>> \notin rest)
    <3>1. s[k] = << <<f, k>> >>
      BY <2>2 DEF Pieces
    <3>2. PICK x \in Nodes : x = <<f, k>>
      BY ChildTypes
    <3>3. <<x>> \in Seq(Nodes)
      OBVIOUS
    <3> HIDE DEF s
    <3> QED BY <3>1, <3>2, <3>3
  <2> QED BY <2>1, <2>2
<1> HIDE DEF s, l, Z
<1>4. [k \in 1..l |-> s[k]] \in Seq(Z)
  BY <1>1, <1>3, IsASeq
<1>5. Len([k \in 1..l |-> s[k]]) = l
  BY <1>1
<1>6. s \in Seq(Z) /\ Len(s) = l
  BY <1>2, <1>4, <1>5
<1> QED BY <1>6 DEF s, Z, l

\* As long as no include is replaced, the file is as it was parsed.
LEMMA RawPieces ==
  ASSUME DiskInv, NEW f \in DOMAIN tree, NEW n \in 0..MaxDepth
  PROVE  FlattenSeq(Pieces(tree, Flat, f, IncludesOf(tree, f), n))
           = [k \in 1..Len(tree[f]) |-> <<f, k>>]
<1> DEFINE s == Pieces(tree, Flat, f, IncludesOf(tree, f), n)
           e == [k \in 1..Len(tree[f]) |-> <<f, k>>]
<1>1. s \in Seq(Seq(Nodes)) /\ Len(s) = Len(tree[f])
  BY PiecesTypes
<1>2. e \in Seq(Nodes)
  <2> HIDE DEF e
  <2>1. e = [k \in 1..Len(tree[f]) |-> <<f, k>>]
    BY DEF e
  <2> QED BY <2>1, ChildrenOnDisk
<1>3. Len(e) = Len(tree[f])
  BY ChildTypes
<1>4. ASSUME NEW k \in 1..Len(tree[f])
      PROVE  s[k] = <<e[k]>>
  <2>1. tree[f][k].kind = "include" => <<f, k>> \in IncludesOf(tree, f)
    BY ChildTypes DEF IncludesOf
  <2> QED BY <2>1 DEF Pieces
<1> HIDE DEF s, e
<1>5. FlattenSeq(s) = e
  BY <1>1, <1>2, <1>3, <1>4, FlattenSingles
<1> QED BY <1>5 DEF s, e

\* Replacing one more include changes the children at one place.
LEMMA IncludeExchanged ==
  ASSUME DiskInv, NEW f \in DOMAIN tree, NEW rest \in SUBSET IncludesOf(tree, f),
         NEW q \in rest, NEW n \in 0..MaxDepth
  PROVE  \E a, b \in Seq(Nodes \ {q}) :
           /\ FlattenSeq(Pieces(tree, Flat, f, rest, n)) = (a \o <<q>>) \o b
           /\ FlattenSeq(Pieces(tree, Flat, f, rest \ {q}, n))
                = (a \o Flat[n][FileOf(tree, q)]) \o b
<1> DEFINE s == Pieces(tree, Flat, f, rest, n)
           t == Pieces(tree, Flat, f, rest \ {q}, n)
           p == q[2]
           Z == Nodes \ {q}
<1>1. q \in IncludesOf(tree, f)
  OBVIOUS
<1>2. /\ q \in Nodes \ Plain /\ q = <<f, p>> /\ p \in 1..Len(tree[f])
      /\ tree[f][p].kind = "include" /\ FileOf(tree, q) = tree[f][p].file
  BY <1>1, IncludeRule
<1>3. /\ s \in Seq(Seq(Nodes)) /\ Len(s) = Len(tree[f])
      /\ t \in Seq(Seq(Nodes)) /\ Len(t) = Len(tree[f])
  BY PiecesTypes
<1>4. s[p] = <<q>>
  BY <1>2 DEF Pieces
<1>5. t[p] = Flat[n][FileOf(tree, q)]
  BY <1>2 DEF Pieces
<1>6. ASSUME NEW k \in 1..Len(tree[f]), k # p
      PROVE  t[k] = s[k] /\ s[k] \in Seq(Z)
  <2>1. <<f, k>> # q
    BY <1>2, <1>6
  <2>2. <<f, k>> \notin rest \ {q} <=> <<f, k>> \notin rest
    BY <2>1
  <2>3. t[k] = s[k]
    BY <2>2 DEF Pieces
  <2>4. ASSUME tree[f][k].kind = "include" /\ <<f, k>> \notin rest
        PROVE  s[k] \in Seq(Z)
    <3>1. s[k] = Flat[n][tree[f][k].file]
      BY <2>4 DEF Pieces
    <3>2. tree[f][k].file \in Files
      BY <2>4, ChildTypes
    <3>3. Flat[n][tree[f][k].file] \in Seq(Plain)
      BY <3>2, FlatRule
    <3>4. Seq(Plain) \subseteq Seq(Z)
      <4>1. Plain \in SUBSET Z
        BY <1>2 DEF Plain
      <4> HIDE DEF Z
      <4> QED BY <4>1, SeqWidens
    <3> HIDE DEF s, Z
    <3> QED BY <3>1, <3>3, <3>4
  <2>5. ASSUME ~(tree[f][k].kind = "include" /\ <<f, k>> \notin rest)
        PROVE  s[k] \in Seq(Z)
    <3>1. s[k] = << <<f, k>> >>
      BY <2>5 DEF Pieces
    <3>2. PICK x \in Z : x = <<f, k>>
      BY <2>1, ChildTypes
    <3> HIDE DEF Z
    <3>3. <<x>> \in Seq(Z)
      OBVIOUS
    <3> HIDE DEF s
    <3> QED BY <3>1, <3>2, <3>3
  <2>6. s[k] \in Seq(Z)
    <3> HIDE DEF s, Z
    <3> QED BY <2>4, <2>5
  <2> QED BY <2>3, <2>6
<1>7. Z \in SUBSET Nodes
  OBVIOUS
<1> HIDE DEF s, t, p, Z
<1>8. DifferAt(s, t, p, Nodes, Z)
  BY <1>2, <1>3, <1>6, <1>7 DEF DifferAt
<1>9. AgreeAround(s, t, p, Z)
  BY ONLY <1>8, PartExchanged
<1> QED BY <1>4, <1>5, <1>9 DEF AgreeAround, s, t, Z

-----------------------------------------------------------------------------
(***************************************************************************)
(* The steps replace the includes.                                         *)
(***************************************************************************)
\* The file whose children frame j holds.
FileAt(t, frames, j) ==
  IF j = 1 THEN Main ELSE FileOf(t, NextOf(frames[j - 1].includes))

\* Of the includes of that file, some are left; the others have ended.
OpenedAt(t, ends, frames, j) ==
  LET f == FileAt(t, frames, j)
  IN /\ f \in DOMAIN t /\ frames[j].includes \subseteq IncludesOf(t, f)
     /\ \A q \in IncludesOf(t, f) \ frames[j].includes : FileOf(t, q) \in ends[MaxDepth - j]

\* They are replaced, and nothing else is changed.
JoinedAt(t, flat, frames, j) ==
  frames[j].children =
    FlattenSeq(Pieces(t, flat, FileAt(t, frames, j), frames[j].includes, MaxDepth - j))

\* It is so in all frames, but perhaps in the innermost.
Expansion(t, flat, ends, frames, whole) ==
  \A j \in DOMAIN frames :
    /\ OpenedAt(t, ends, frames, j)
    /\ j < Len(frames) \/ whole => JoinedAt(t, flat, frames, j)

\* There the first of the moved nodes, up to the next, stand before the include q;
\* with all of them in its place, it would be so, too.
HalfMoved(children, moved, next, q, whole) ==
  \E a, b \in Seq(Nodes \ {q}) :
    /\ children = (a \o SubSeq(moved, 1, next - 1)) \o (<<q>> \o b)
    /\ whole = (a \o moved) \o b

Replacement(t, flat, ends, frames, moved, next) ==
  LET d == Len(frames)
      q == NextOf(frames[d].includes)
      file == FileOf(t, q)
      n == MaxDepth - d
  IN /\ file \in ends[n] /\ moved = flat[n][file] /\ next \in 1..Len(moved) + 1
     /\ HalfMoved(frames[d].children, moved, next, q,
          FlattenSeq(Pieces(t, flat, FileAt(t, frames, d), frames[d].includes \ {q}, n)))

\* What is replaced so far is replaced as it should be.
FlatInv ==
  /\ pc = "start" => arg = Main
  /\ pc = "parse" => arg = FileAt(tree, stack, Len(stack) + 1)
  /\ pc \in {"parse", "loop", "move"} => Expansion(tree, Flat, Ends, stack, pc # "move")
  /\ pc = "move" => Replacement(tree, Flat, Ends, stack, m, i)
  /\ Flattened

\* They are functions of the manifests.
LEMMA TreeRests ==
  ASSUME UNCHANGED tree
  PROVE  Flat' = Flat /\ Ends' = Ends /\ Reached' = Reached
<1>1. Flat' = Flat
  BY DEF Flat
<1>2. Ends' = Ends
  BY DEF Ends
<1>3. Reached' = Reached
  BY DEF Reached
<1> QED BY <1>1, <1>2, <1>3

\* The file of a frame is known from the frames outside it.
LEMMA SameFiles ==
  ASSUME NEW t, NEW g, NEW h, NEW d \in Nat, \A k \in 1..d : h[k] = g[k]
  PROVE  \A j \in 1..d + 1 : FileAt(t, h, j) = FileAt(t, g, j)
<1>1. ASSUME NEW j \in 1..d + 1
      PROVE  FileAt(t, h, j) = FileAt(t, g, j)
  <2>1. CASE j = 1
    BY <2>1 DEF FileAt
  <2>2. CASE j # 1
    <3>1. j - 1 \in 1..d
      BY <2>2
    <3>2. h[j - 1] = g[j - 1]
      BY <3>1
    <3> QED BY <3>2 DEF FileAt
  <2> QED BY <2>1, <2>2
<1> QED BY <1>1

\* Frames that stay are as they were.
LEMMA FramesStay ==
  ASSUME NEW t, NEW flat, NEW ends, NEW g, NEW h, NEW whole \in BOOLEAN, NEW d \in Nat,
         Expansion(t, flat, ends, g, whole),
         \A k \in 1..d : h[k] = g[k] /\ k \in DOMAIN g /\ (k < Len(g) \/ whole)
  PROVE  \A j \in 1..d : OpenedAt(t, ends, h, j) /\ JoinedAt(t, flat, h, j)
<1>1. ASSUME NEW j \in 1..d
      PROVE  OpenedAt(t, ends, h, j) /\ JoinedAt(t, flat, h, j)
  <2>1. h[j] = g[j] /\ FileAt(t, h, j) = FileAt(t, g, j)
    <3>1. j \in 1..d + 1
      OBVIOUS
    <3> QED BY <3>1, SameFiles
  <2>2. OpenedAt(t, ends, g, j) /\ JoinedAt(t, flat, g, j)
    BY DEF Expansion
  <2> QED BY <2>1, <2>2 DEF OpenedAt, JoinedAt
<1> QED BY <1>1

\* The parser opens a manifest: none of its includes is replaced.
LEMMA ParseFlat ==
  ASSUME Inv, FlatInv, Parse
  PROVE  FlatInv'
<1> DEFINE children == [k \in 1..Len(tree[arg]) |-> <<arg, k>>]
           includes == {node \in ToSet(children) : Element(node).kind = "include"}
           frame == [children |-> children, includes |-> includes]
           d == Len(stack)
           D == d + 1
<1>1. /\ pc = "parse" /\ pc' = "loop" /\ UNCHANGED tree /\ arg \in DOMAIN tree
      /\ stack' = Append(stack, frame) /\ d # MaxDepth
  BY DEF Parse, TooDeep, disk
<1>2. includes = IncludesOf(tree, arg)
  <2>1. ToSet(children) = {<<arg, k>> : k \in 1..Len(tree[arg])}
    BY DEF ToSet
  <2>2. /\ DOMAIN tree[arg] = 1..Len(tree[arg])
        /\ \A k \in 1..Len(tree[arg]) : Element(<<arg, k>>) = tree[arg][k]
    BY <1>1, ChildTypes DEF Inv
  <2> HIDE DEF children
  <2> QED BY <2>1, <2>2 DEF IncludesOf
<1>3. frame \in Frames
  <2>1. children \in Seq(Nodes)
    BY <1>1, ChildrenOnDisk DEF Inv
  <2>2. IncludesOf(tree, arg) \subseteq Nodes
    BY <1>1, IncludeRule DEF Inv
  <2> QED BY <1>2, <2>1, <2>2 DEF Frames
<1>4. frame.children = children /\ frame.includes = IncludesOf(tree, arg)
  BY <1>2
<1> HIDE DEF frame
<1>5. /\ stack \in Seq(Frames) /\ d \in Nat /\ d <= MaxDepth /\ DOMAIN stack = 1..d
      /\ MaxDepth \in Nat
  <2>1. stack \in Seq(Frames) /\ d <= MaxDepth
    BY DEF Inv, ParsingInv
  <2>2. d \in Nat /\ DOMAIN stack = 1..d
    BY <2>1, LenProperties
  <2> QED BY <2>1, <2>2, AddRevisionAssumption
<1>6. d < MaxDepth
  <2>1. d # MaxDepth
    BY <1>1
  <2> HIDE DEF d
  <2> QED BY <1>5, <2>1
<1>7. /\ stack' \in Seq(Frames) /\ Len(stack') = D /\ DOMAIN stack' = 1..D
      /\ \A k \in 1..d : stack'[k] = stack[k]
      /\ stack'[D] = frame
  <2>0. stack \in Seq(Frames) /\ frame \in Frames
    BY <1>3, <1>5
  <2>1. /\ stack' \in Seq(Frames) /\ Len(stack') = Len(stack) + 1
        /\ \A k \in 1..Len(stack) : stack'[k] = stack[k]
        /\ stack'[Len(stack) + 1] = frame
    BY <1>1, <2>0, AppendProperties
  <2> QED BY <2>1, LenProperties
<1>8. Expansion(tree, Flat, Ends, stack, TRUE) /\ arg = FileAt(tree, stack, D)
  BY <1>1 DEF FlatInv
<1> HIDE DEF frame, includes, children, d
<1>9. \A j \in 1..d : OpenedAt(tree, Ends, stack', j) /\ JoinedAt(tree, Flat, stack', j)
  <2>1. \A k \in 1..d : stack'[k] = stack[k] /\ k \in DOMAIN stack /\ (k < Len(stack) \/ TRUE)
    BY <1>5, <1>7
  <2> QED BY <1>5, <1>8, <2>1, FramesStay
<1>10. FileAt(tree, stack', D) = arg
  <2>1. D \in 1..d + 1
    BY <1>5
  <2> QED BY <1>5, <1>7, <1>8, <2>1, SameFiles
<1>11. OpenedAt(tree, Ends, stack', D)
  BY <1>1, <1>4, <1>7, <1>10 DEF OpenedAt
<1>12. JoinedAt(tree, Flat, stack', D)
  <2>1. PICK n : n = MaxDepth - D
    OBVIOUS
  <2>2. n \in 0..MaxDepth
    BY <1>5, <1>6, <2>1
  <2>3. FlattenSeq(Pieces(tree, Flat, arg, IncludesOf(tree, arg), n)) = children
    BY <1>1, <2>2, RawPieces DEF Inv, children
  <2> QED BY <1>4, <1>7, <1>10, <2>1, <2>3 DEF JoinedAt
<1>13. Expansion(tree, Flat, Ends, stack', TRUE)
  <2>1. ASSUME NEW j \in DOMAIN stack'
        PROVE  OpenedAt(tree, Ends, stack', j) /\ JoinedAt(tree, Flat, stack', j)
    <3>1. j \in 1..d \/ j = D
      BY <1>5, <1>7
    <3> QED BY <1>9, <1>11, <1>12, <3>1
  <2> QED BY <2>1 DEF Expansion
<1>14. Flat' = Flat /\ Ends' = Ends
  BY <1>1, TreeRests
<1> QED BY <1>1, <1>13, <1>14 DEF FlatInv, Flattened, Past

\* A stack without its innermost frame.
LEMMA FrontKeeps ==
  ASSUME NEW S, NEW s \in Seq(S), Len(s) > 1
  PROVE  /\ Len(Front(s)) = Len(s) - 1 /\ DOMAIN Front(s) = 1..Len(s) - 1
         /\ \A k \in 1..Len(s) - 1 : Front(s)[k] = s[k]
<1> DEFINE l == Len(s) - 1
           z == SubSeq(s, 1, l)
<1>1. Len(s) \in Nat /\ l \in Nat /\ 1 <= l /\ \A k \in 1..l : s[k] \in S
  BY LenProperties, ElementOfSeq
<1>2. Front(s) = z
  BY DEF Front
<1> HIDE DEF l
<1>3. /\ z \in Seq(S) /\ Len(z) = IF 1 <= l THEN l - 1 + 1 ELSE 0
      /\ \A k \in 1..l - 1 + 1 : z[k] = s[1 + k - 1]
  BY <1>1, SubSeqProperties
<1> HIDE DEF z
<1>4. Len(z) = l
  BY <1>1, <1>3
<1>5. DOMAIN z = 1..l
  BY <1>3, <1>4, LenProperties
<1>6. ASSUME NEW k \in 1..l
      PROVE  z[k] = s[k]
  <2>1. k \in 1..l - 1 + 1 /\ 1 + k - 1 = k
    BY <1>1
  <2> QED BY <1>3, <2>1
<1> QED BY <1>2, <1>4, <1>5, <1>6 DEF l

\* A file whose includes end is one whose includes end a level deeper.
LEMMA EndsMember ==
  ASSUME DiskInv, NEW g \in DOMAIN tree, NEW n \in 1..MaxDepth,
         \A q \in IncludesOf(tree, g) : FileOf(tree, q) \in Ends[n - 1]
  PROVE  g \in Ends[n]
<1>1. ASSUME NEW k \in DOMAIN tree[g], tree[g][k].kind = "include"
      PROVE  tree[g][k].file \in Ends[n - 1]
  <2>1. <<g, k>> \in IncludesOf(tree, g)
    BY <1>1 DEF IncludesOf
  <2>2. FileOf(tree, <<g, k>>) = tree[g][k].file
    BY DEF FileOf
  <2> QED BY <2>1, <2>2
<1> QED BY <1>1, EndsRule

\* A manifest is parsed for the next include.
LEMMA ParseIncludeFlat ==
  ASSUME Inv, FlatInv, ParseInclude
  PROVE  FlatInv'
<1>1. /\ pc = "loop" /\ pc' = "parse" /\ UNCHANGED <<tree, stack>>
      /\ arg' = Element(NextInclude).file
  BY DEF ParseInclude, disk
<1>2. stack # <<>>
  BY <1>1 DEF Inv, ParsingInv, Stages
<1>3. Len(stack) \in Nat \ {0} /\ Frame = stack[Len(stack)]
  BY <1>2, FrameTypes DEF Inv
<1>4. NextInclude = NextOf(stack[Len(stack)].includes)
  BY <1>3 DEF NextInclude, NextOf
<1>5. Element(NextInclude).file = FileOf(tree, NextInclude)
  BY DEF Element, FileOf
<1>6. arg' = FileAt(tree, stack, Len(stack) + 1)
  <2>1. PICK j : j = Len(stack) + 1
    OBVIOUS
  <2>2. j # 1 /\ j - 1 = Len(stack)
    BY <1>3, <2>1
  <2> QED BY <1>1, <1>4, <1>5, <2>1, <2>2 DEF FileAt
<1>7. Flat' = Flat /\ Ends' = Ends
  BY <1>1, TreeRests
<1> QED BY <1>1, <1>6, <1>7 DEF FlatInv, Flattened, Past

\* A manifest with all includes replaced is what the file has, so many levels deep.
LEMMA ReturnFlat ==
  ASSUME Inv, FlatInv, Return
  PROVE  FlatInv'
<1> DEFINE d == Len(stack)
           D == d - 1
           f == FileAt(tree, stack, D)
           g == FileAt(tree, stack, d)
           rest == stack[D].includes
           q == NextOf(rest)
           n == MaxDepth - D
<1>1. /\ pc = "loop" /\ pc' = "move" /\ UNCHANGED tree /\ d > 1
      /\ Frame.includes = {} /\ m' = Frame.children /\ i' = 1
      /\ stack' = Front(stack)
  BY DEF Return, disk
<1>2. /\ stack \in Seq(Frames) /\ d \in Nat /\ d <= MaxDepth /\ DOMAIN stack = 1..d
  <2>1. stack \in Seq(Frames) /\ d <= MaxDepth
    BY DEF Inv, ParsingInv
  <2> QED BY <2>1, LenProperties
<1>3. /\ Len(stack') = D /\ DOMAIN stack' = 1..D
      /\ \A k \in 1..D : stack'[k] = stack[k]
  BY <1>1, <1>2, FrontKeeps
<1>4. /\ D \in 1..d /\ d \in 1..d /\ D \in Nat \ {0} /\ D < d /\ d # 1 /\ d - 1 = D
      /\ n \in 1..MaxDepth /\ n \in 0..MaxDepth /\ MaxDepth - d = n - 1
  <2>1. MaxDepth \in Nat \ {0} /\ d > 1 /\ d \in Nat /\ d <= MaxDepth
    BY <1>1, <1>2, AddRevisionAssumption
  <2> HIDE DEF d
  <2> QED BY <2>1
<1>5. Frame = stack[d]
  BY DEF Frame, Last
<1>6. Expansion(tree, Flat, Ends, stack, TRUE)
  BY <1>1 DEF FlatInv
<1>7. /\ f \in DOMAIN tree /\ rest \in SUBSET IncludesOf(tree, f)
      /\ stack[D].children = FlattenSeq(Pieces(tree, Flat, f, rest, n))
  <2>1. OpenedAt(tree, Ends, stack, D) /\ JoinedAt(tree, Flat, stack, D)
    BY <1>2, <1>4, <1>6 DEF Expansion
  <2> QED BY <2>1 DEF OpenedAt, JoinedAt
<1>8. /\ g \in DOMAIN tree
      /\ \A o \in IncludesOf(tree, g) : FileOf(tree, o) \in Ends[n - 1]
      /\ m' = FlattenSeq(Pieces(tree, Flat, g, {}, n - 1))
  <2>1. OpenedAt(tree, Ends, stack, d) /\ JoinedAt(tree, Flat, stack, d)
    BY <1>2, <1>4, <1>6 DEF Expansion
  <2>2. stack[d].includes = {} /\ m' = stack[d].children
    BY <1>1, <1>5
  <2> QED BY <1>4, <2>1, <2>2 DEF OpenedAt, JoinedAt
<1>9. q \in rest
  <2>1. rest # {}
    BY <1>2, <1>4 DEF Inv, ParsingInv
  <2>2. rest \subseteq Nodes
    BY <1>7, IncludeRule DEF Inv
  <2> HIDE DEF rest
  <2> QED BY <2>1, <2>2, NextOfIsOne
<1>10. g = FileOf(tree, q)
  BY <1>4 DEF FileAt
<1> HIDE DEF f, g, rest, q, n, D, d
<1>11. g \in Ends[n]
  BY <1>4, <1>8, EndsMember DEF Inv
<1>12. m' = Flat[n][g]
  BY <1>4, <1>8, FlatRule DEF Inv
<1>13. m' \in Seq(Nodes) /\ Len(m') \in Nat
  <2>1. stack # <<>>
    BY <1>1 DEF Inv, ParsingInv, Stages
  <2>2. m' \in Seq(Nodes)
    BY <1>1, <2>1, FrameTypes DEF Inv
  <2> QED BY <2>2, LenProperties
<1>14. HalfMoved(stack[D].children, m', 1, q,
         FlattenSeq(Pieces(tree, Flat, f, rest \ {q}, n)))
  <2>1. PICK a, b \in Seq(Nodes \ {q}) :
          /\ FlattenSeq(Pieces(tree, Flat, f, rest, n)) = (a \o <<q>>) \o b
          /\ FlattenSeq(Pieces(tree, Flat, f, rest \ {q}, n))
               = (a \o Flat[n][FileOf(tree, q)]) \o b
    BY <1>4, <1>7, <1>9, IncludeExchanged DEF Inv
  <2>2. a \in Seq(Nodes) /\ b \in Seq(Nodes) /\ <<q>> \in Seq(Nodes)
    <3>1. Seq(Nodes \ {q}) \subseteq Seq(Nodes)
      BY SeqWidens
    <3>2. q \in Nodes
      BY <1>7, <1>9, IncludeRule DEF Inv
    <3> QED BY <3>1, <3>2
  <2>3. a \o SubSeq(m', 1, 1 - 1) = a
    BY <1>13, <2>2, FirstElements DEF Beginnings
  <2>4. (a \o <<q>>) \o b = a \o (<<q>> \o b)
    <3>1. Regroups(Nodes)
      BY Regrouped
    <3> QED BY ONLY <2>2, <3>1 DEF Regroups
  <2>5. /\ stack[D].children = (a \o SubSeq(m', 1, 1 - 1)) \o (<<q>> \o b)
        /\ FlattenSeq(Pieces(tree, Flat, f, rest \ {q}, n)) = (a \o m') \o b
    BY <1>7, <1>10, <1>12, <2>1, <2>3, <2>4
  <2> QED BY <2>5 DEF HalfMoved
<1>15. \A j \in 1..D : OpenedAt(tree, Ends, stack', j) /\ JoinedAt(tree, Flat, stack', j)
  <2>1. D \in Nat /\ \A k \in 1..D : stack'[k] = stack[k] /\ k \in DOMAIN stack
                                     /\ (k < Len(stack) \/ TRUE)
    BY <1>2, <1>3, <1>4
  <2> QED BY <1>6, <2>1, FramesStay
<1>16. Expansion(tree, Flat, Ends, stack', FALSE)
  BY <1>3, <1>15 DEF Expansion
<1>17. FileAt(tree, stack', D) = f
  <2>1. D \in Nat /\ D \in 1..D + 1
    BY <1>4
  <2>2. \A j \in 1..D + 1 : FileAt(tree, stack', j) = FileAt(tree, stack, j)
    BY <1>3, <2>1, SameFiles
  <2> QED BY <2>1, <2>2 DEF f
<1>18. stack'[D].includes = rest /\ stack'[D].children = stack[D].children
  <2>1. D \in 1..D
    BY <1>4
  <2> QED BY <1>3, <2>1 DEF rest
<1>19. Replacement(tree, Flat, Ends, stack', m', 1)
  <2>1. 1 \in 1..Len(m') + 1 /\ MaxDepth - Len(stack') = n /\ NextOf(stack'[D].includes) = q
    BY <1>3, <1>13, <1>18 DEF n, q
  <2> QED BY <1>3, <1>10, <1>11, <1>12, <1>14, <1>17, <1>18, <2>1 DEF Replacement
<1>20. Flat' = Flat /\ Ends' = Ends
  BY <1>1, TreeRests
<1> QED BY <1>1, <1>16, <1>19, <1>20 DEF FlatInv, Flattened, Past

\* What the innermost frame holds around its next include.
LEMMA AtInclude ==
  ASSUME Inv, FlatInv, pc = "move",
         NEW d, d = Len(stack), NEW f, f = FileAt(tree, stack, d),
         NEW q, q = NextInclude, NEW n, n = MaxDepth - d
  PROVE  /\ d \in Nat \ {0} /\ n \in 0..MaxDepth /\ Frame = stack[d]
         /\ stack \in Seq(Frames) /\ DOMAIN stack = 1..d
         /\ f \in DOMAIN tree /\ q \in IncludesOf(tree, f) /\ q \in Frame.includes
         /\ FileOf(tree, q) \in Ends[n] /\ m = Flat[n][FileOf(tree, q)]
         /\ m \in Seq(Nodes \ {q}) /\ i \in 1..Len(m) + 1
         /\ HalfMoved(Frame.children, m, i, q,
              FlattenSeq(Pieces(tree, Flat, f, Frame.includes \ {q}, n)))
         /\ PositionOfInclude \in DOMAIN Frame.children
         /\ Frame.children[PositionOfInclude] = q
<1>1. stack # <<>> /\ q \in Frame.includes
      /\ PositionOfInclude \in 1..Len(Frame.children)
      /\ Frame.children[PositionOfInclude] = q
  BY PositionTypes
<1>2. /\ d \in Nat \ {0} /\ Frame = stack[d] /\ d \in DOMAIN stack
      /\ DOMAIN stack = 1..d /\ Frame.children \in Seq(Nodes)
  BY <1>1, FrameTypes DEF Inv
<1>3. d <= MaxDepth /\ stack \in Seq(Frames)
  BY DEF Inv, ParsingInv
<1>4. n \in 0..MaxDepth
  <2>1. MaxDepth \in Nat
    BY AddRevisionAssumption
  <2> QED BY <1>2, <1>3, <2>1
<1>5. OpenedAt(tree, Ends, stack, d)
  BY <1>2 DEF FlatInv, Expansion
<1>6. f \in DOMAIN tree /\ q \in IncludesOf(tree, f)
  BY <1>1, <1>2, <1>5 DEF OpenedAt
<1>7. q = NextOf(stack[d].includes)
  BY <1>2 DEF NextInclude, NextOf
<1>8. Replacement(tree, Flat, Ends, stack, m, i)
  BY DEF FlatInv
<1>9. /\ FileOf(tree, q) \in Ends[n] /\ m = Flat[n][FileOf(tree, q)]
      /\ i \in 1..Len(m) + 1
      /\ HalfMoved(Frame.children, m, i, q,
           FlattenSeq(Pieces(tree, Flat, f, Frame.includes \ {q}, n)))
  BY <1>2, <1>7, <1>8 DEF Replacement
<1>10. m \in Seq(Nodes \ {q})
  <2>1. FileOf(tree, q) \in Files /\ q \notin Plain
    BY <1>6, IncludeRule DEF Inv
  <2>2. m \in Seq(Plain)
    BY <1>4, <1>9, <2>1, FlatRule DEF Inv
  <2>3. Plain \in SUBSET (Nodes \ {q})
    BY <2>1 DEF Plain
  <2> QED BY <2>2, <2>3, SeqWidens
<1>11. DOMAIN Frame.children = 1..Len(Frame.children)
  BY <1>2, LenProperties
<1> QED BY <1>1, <1>2, <1>3, <1>4, <1>6, <1>9, <1>10, <1>11

\* A step that changes the innermost frame leaves the others.
LEMMA OthersStayFlat ==
  ASSUME Inv, FlatInv, pc = "move", NEW frame,
         stack' = [stack EXCEPT ![Len(stack)] = frame]
  PROVE  /\ Len(stack') = Len(stack) /\ DOMAIN stack' = 1..Len(stack)
         /\ stack'[Len(stack)] = frame
         /\ \A j \in 1..Len(stack) - 1 :
              OpenedAt(tree, Ends, stack', j) /\ JoinedAt(tree, Flat, stack', j)
         /\ FileAt(tree, stack', Len(stack)) = FileAt(tree, stack, Len(stack))
<1> DEFINE d == Len(stack)
           D == d - 1
<1>1. /\ d \in Nat \ {0} /\ stack \in Seq(Frames) /\ DOMAIN stack = 1..d
  BY AtInclude
<1>2. /\ DOMAIN stack' = 1..d /\ stack'[d] = frame
      /\ \A k \in 1..D : stack'[k] = stack[k] /\ k \in DOMAIN stack /\ (k < d \/ FALSE)
  <2>1. d \in DOMAIN stack
    BY <1>1
  <2> HIDE DEF d
  <2>2. stack' = [stack EXCEPT ![d] = frame]
    BY DEF d
  <2> QED BY <1>1, <2>1, <2>2
<1>3. Len(stack') = d
  <2> HIDE DEF d
  <2>1. d \in Nat
    BY <1>1
  <2> QED BY <1>2, <2>1
<1>4. D \in Nat /\ d \in 1..D + 1
  BY <1>1
<1>5. Expansion(tree, Flat, Ends, stack, FALSE)
  BY DEF FlatInv
<1>6. \A j \in 1..D : OpenedAt(tree, Ends, stack', j) /\ JoinedAt(tree, Flat, stack', j)
  BY <1>2, <1>4, <1>5, FramesStay
<1>7. FileAt(tree, stack', d) = FileAt(tree, stack, d)
  <2>1. D \in Nat /\ \A k \in 1..D : stack'[k] = stack[k]
    BY <1>2, <1>4
  <2> HIDE DEF D
  <2>2. \A j \in 1..D + 1 : FileAt(tree, stack', j) = FileAt(tree, stack, j)
    BY ONLY <2>1, SameFiles
  <2> QED BY <1>4, <2>2
<1> QED BY <1>2, <1>3, <1>6, <1>7

\* A node that is moved comes before the include.
LEMMA MoveFlat ==
  ASSUME Inv, FlatInv, Move
  PROVE  FlatInv'
<1> DEFINE d == Len(stack)
           f == FileAt(tree, stack, d)
           q == NextInclude
           n == MaxDepth - d
           p == PositionOfInclude
           rest == Frame.includes
           children == InsertAt(Frame.children, p, m[i])
           frame == [children |-> children, includes |-> rest]
           whole == FlattenSeq(Pieces(tree, Flat, f, rest \ {q}, n))
<1>1. /\ pc = "move" /\ pc' = "move" /\ i <= Len(m) /\ m' = m /\ i' = i + 1
      /\ UNCHANGED tree
  BY DEF Move, LoopList, disk
<1>2. /\ d \in Nat \ {0} /\ Frame = stack[d] /\ DOMAIN stack = 1..d
      /\ f \in DOMAIN tree /\ q \in IncludesOf(tree, f) /\ q \in rest
      /\ FileOf(tree, q) \in Ends[n] /\ m = Flat[n][FileOf(tree, q)]
      /\ m \in Seq(Nodes \ {q}) /\ i \in 1..Len(m) + 1
      /\ HalfMoved(Frame.children, m, i, q, whole)
      /\ p \in DOMAIN Frame.children /\ Frame.children[p] = q
  BY <1>1, AtInclude
<1>3. stack' = [stack EXCEPT ![Len(stack)] = frame]
  <2>1. stack' = [stack EXCEPT ![Len(stack)].children =
                    InsertAt(@, PositionOfInclude, m[i])]
    BY DEF Move
  <2>2. stack # <<>>
    BY <1>1, PositionTypes
  <2>3. /\ Frame = stack[Len(stack)] /\ Len(stack) \in DOMAIN stack
        /\ Frame \in [children : Seq(Nodes), includes : SUBSET Nodes]
    BY <2>2, FrameTypes DEF Inv, Frames
  <2>4. [Frame EXCEPT !.children = children] = frame
    BY <2>3
  <2> QED BY <2>1, <2>3, <2>4
<1>4. frame.children = children /\ frame.includes = rest
  OBVIOUS
<1> HIDE DEF d, f, q, n, p, rest, children, frame, whole
<1>5. /\ Len(stack') = d /\ DOMAIN stack' = 1..d /\ stack'[d] = frame
      /\ \A j \in 1..d - 1 :
           OpenedAt(tree, Ends, stack', j) /\ JoinedAt(tree, Flat, stack', j)
      /\ FileAt(tree, stack', d) = f
  BY <1>1, <1>3, OthersStayFlat DEF d, f
<1>6. q \in Nodes /\ i \in 1..Len(m) /\ i + 1 \in 1..Len(m) + 1
  <2>1. q \in Nodes
    BY <1>2, IncludeRule DEF Inv
  <2>2. Len(m) \in Nat
    BY <1>2, LenProperties
  <2> QED BY <1>1, <1>2, <2>1, <2>2
<1>7. HalfMoved(children, m, i + 1, q, whole)
  <2>1. PICK a, b \in Seq(Nodes \ {q}) :
          /\ Frame.children = (a \o SubSeq(m, 1, i - 1)) \o (<<q>> \o b)
          /\ whole = (a \o m) \o b
    BY <1>2 DEF HalfMoved
  <2> DEFINE u == a \o SubSeq(m, 1, i - 1)
  <2>2. SubSeq(m, 1, i - 1) \in Seq(Nodes \ {q})
    BY <1>2, FirstElements DEF Beginnings
  <2>3. u \in Seq(Nodes \ {q})
    BY <2>2, ConcatProperties
  <2>4. u \o <<m[i]>> = a \o SubSeq(m, 1, (i + 1) - 1)
    <3>1. m \in Seq(Nodes \ {q}) /\ a \in Seq(Nodes \ {q})
      BY <1>2
    <3>2. Beginnings(m, a, Nodes \ {q})
      BY ONLY <3>1, FirstElements
    <3> QED BY <1>6, <3>2 DEF Beginnings
  <2>5. m[i] \in Nodes
    BY <1>2, <1>6, ElementOfSeq
  <2> HIDE DEF u
  <2>6. Frame.children = u \o (<<q>> \o b)
    BY <2>1 DEF u
  <2>7. /\ p = Len(u) + 1
        /\ \A e \in Nodes : InsertAt(Frame.children, Len(u) + 1, e)
                              = (u \o <<e>>) \o (<<q>> \o b)
    <3> DEFINE c == Frame.children
    <3>1. /\ q \in Nodes /\ u \in Seq(Nodes \ {q}) /\ b \in Seq(Nodes \ {q})
          /\ c = u \o (<<q>> \o b)
      BY <1>6, <2>3, <2>6
    <3> HIDE DEF c
    <3>2. /\ \A k \in DOMAIN c : c[k] = q => k = Len(u) + 1
          /\ \A e \in Nodes : InsertAt(c, Len(u) + 1, e) = (u \o <<e>>) \o (<<q>> \o b)
          /\ RemoveAt(c, Len(u) + 1) = u \o b
      <4>1. Surrounded(c, u, q, b, Nodes)
        BY ONLY <3>1, Around
      <4> QED BY <4>1 DEF Surrounded
    <3>3. p \in DOMAIN c /\ c[p] = q
      BY <1>2 DEF c
    <3> QED BY <3>2, <3>3 DEF c
  <2>8. children = (u \o <<m[i]>>) \o (<<q>> \o b)
    BY <2>5, <2>7 DEF children
  <2>9. children = (a \o SubSeq(m, 1, (i + 1) - 1)) \o (<<q>> \o b)
    BY <2>4, <2>8
  <2> QED BY <2>1, <2>9 DEF HalfMoved
<1>8. NextOf(rest) = q
  BY DEF q, rest, NextInclude, NextOf
<1>9. OpenedAt(tree, Ends, stack', d)
  <2>1. OpenedAt(tree, Ends, stack, d)
    <3>1. d \in DOMAIN stack
      BY <1>2
    <3> QED BY <1>1, <3>1 DEF FlatInv, Expansion
  <2>2. stack'[d].includes = stack[d].includes
    BY <1>2, <1>4, <1>5 DEF rest
  <2> QED BY <1>5, <2>1, <2>2 DEF OpenedAt, f
<1>10. Expansion(tree, Flat, Ends, stack', FALSE)
  <2>1. ASSUME NEW j \in DOMAIN stack'
        PROVE  /\ OpenedAt(tree, Ends, stack', j)
               /\ j < Len(stack') => JoinedAt(tree, Flat, stack', j)
    <3>1. j = d \/ j \in 1..d - 1
      BY <1>2, <1>5
    <3>2. j = d => ~(j < Len(stack'))
      BY <1>2, <1>5
    <3> QED BY <1>5, <1>9, <3>1, <3>2
  <2> QED BY <2>1 DEF Expansion
<1>11. Replacement(tree, Flat, Ends, stack', m, i + 1)
  <2>1. /\ stack'[d].children = children /\ stack'[d].includes = rest
    BY <1>4, <1>5
  <2>2. HalfMoved(stack'[d].children, m, i + 1, q,
          FlattenSeq(Pieces(tree, Flat, f, rest \ {q}, n)))
    BY <1>7, <2>1 DEF whole
  <2> QED BY <1>2, <1>5, <1>6, <1>8, <2>1, <2>2 DEF Replacement, n
<1>12. Flat' = Flat /\ Ends' = Ends
  BY <1>1, TreeRests
<1> QED BY <1>1, <1>10, <1>11, <1>12 DEF FlatInv, Flattened, Past

\* Without the include, all that it leads to is in its place.
LEMMA RemoveIncludeFlat ==
  ASSUME Inv, FlatInv, RemoveInclude
  PROVE  FlatInv'
<1> DEFINE d == Len(stack)
           f == FileAt(tree, stack, d)
           q == NextInclude
           n == MaxDepth - d
           p == PositionOfInclude
           rest == Frame.includes
           children == RemoveAt(Frame.children, p)
           frame == [children |-> children, includes |-> rest \ {q}]
           whole == FlattenSeq(Pieces(tree, Flat, f, rest \ {q}, n))
<1>1. /\ pc = "move" /\ pc' = "loop" /\ i > Len(m) /\ UNCHANGED tree
      /\ stack' = [stack EXCEPT ![Len(stack)] = frame]
  BY DEF RemoveInclude, disk
<1>2. /\ d \in Nat \ {0} /\ Frame = stack[d] /\ DOMAIN stack = 1..d
      /\ f \in DOMAIN tree /\ q \in IncludesOf(tree, f) /\ q \in rest
      /\ FileOf(tree, q) \in Ends[n]
      /\ m \in Seq(Nodes \ {q}) /\ i \in 1..Len(m) + 1
      /\ HalfMoved(Frame.children, m, i, q, whole)
      /\ p \in DOMAIN Frame.children /\ Frame.children[p] = q
  BY <1>1, AtInclude
<1>3. frame.children = children /\ frame.includes = rest \ {q}
  OBVIOUS
<1> HIDE DEF d, f, q, n, p, rest, children, frame, whole
<1>4. /\ Len(stack') = d /\ DOMAIN stack' = 1..d /\ stack'[d] = frame
      /\ \A j \in 1..d - 1 :
           OpenedAt(tree, Ends, stack', j) /\ JoinedAt(tree, Flat, stack', j)
      /\ FileAt(tree, stack', d) = f
  BY <1>1, OthersStayFlat DEF d, f
<1>5. q \in Nodes /\ i = Len(m) + 1
  <2>1. q \in Nodes
    BY <1>2, IncludeRule DEF Inv
  <2>2. Len(m) \in Nat
    BY <1>2, LenProperties
  <2> QED BY <1>1, <1>2, <2>1, <2>2
<1>6. children = whole
  <2>1. PICK a, b \in Seq(Nodes \ {q}) :
          /\ Frame.children = (a \o SubSeq(m, 1, i - 1)) \o (<<q>> \o b)
          /\ whole = (a \o m) \o b
    BY <1>2 DEF HalfMoved
  <2> DEFINE u == a \o m
  <2>2. a \o SubSeq(m, 1, i - 1) = u
    BY <1>2, <1>5, FirstElements DEF Beginnings
  <2>3. u \in Seq(Nodes \ {q})
    BY <1>2, ConcatProperties
  <2> HIDE DEF u
  <2>4. Frame.children = u \o (<<q>> \o b)
    BY <2>1, <2>2
  <2>5. p = Len(u) + 1 /\ RemoveAt(Frame.children, Len(u) + 1) = u \o b
    <3> DEFINE c == Frame.children
    <3>1. /\ q \in Nodes /\ u \in Seq(Nodes \ {q}) /\ b \in Seq(Nodes \ {q})
          /\ c = u \o (<<q>> \o b)
      BY <1>5, <2>3, <2>4
    <3> HIDE DEF c
    <3>2. /\ \A k \in DOMAIN c : c[k] = q => k = Len(u) + 1
          /\ \A e \in Nodes : InsertAt(c, Len(u) + 1, e) = (u \o <<e>>) \o (<<q>> \o b)
          /\ RemoveAt(c, Len(u) + 1) = u \o b
      <4>1. Surrounded(c, u, q, b, Nodes)
        BY ONLY <3>1, Around
      <4> QED BY <4>1 DEF Surrounded
    <3>3. p \in DOMAIN c /\ c[p] = q
      BY <1>2 DEF c
    <3> QED BY <3>2, <3>3 DEF c
  <2>6. children = u \o b
    BY <2>5 DEF children
  <2> QED BY <2>1, <2>6 DEF u
<1>7. OpenedAt(tree, Ends, stack', d)
  <2>1. OpenedAt(tree, Ends, stack, d)
    <3>1. d \in DOMAIN stack
      BY <1>2
    <3> QED BY <1>1, <3>1 DEF FlatInv, Expansion
  <2>2. rest \subseteq IncludesOf(tree, f)
        /\ \A o \in IncludesOf(tree, f) \ rest : FileOf(tree, o) \in Ends[n]
    BY <1>2, <2>1 DEF OpenedAt, f, n, rest
  <2>3. stack'[d].includes = rest \ {q}
    BY <1>3, <1>4
  <2> QED BY <1>2, <1>4, <2>2, <2>3 DEF OpenedAt, n
<1>8. JoinedAt(tree, Flat, stack', d)
  BY <1>3, <1>4, <1>6 DEF JoinedAt, whole, n
<1>9. Expansion(tree, Flat, Ends, stack', TRUE)
  <2>1. ASSUME NEW j \in DOMAIN stack'
        PROVE  OpenedAt(tree, Ends, stack', j) /\ JoinedAt(tree, Flat, stack', j)
    <3>1. j = d \/ j \in 1..d - 1
      BY <1>2, <1>4
    <3> QED BY <1>4, <1>7, <1>8, <3>1
  <2> QED BY <2>1 DEF Expansion
<1>10. Flat' = Flat /\ Ends' = Ends
  BY <1>1, TreeRests
<1> QED BY <1>1, <1>9, <1>10 DEF FlatInv, Flattened, Past

\* The command line is right: nothing is replaced yet.
LEMMA BeginFlat ==
  ASSUME Inv, FlatInv, Begin
  PROVE  FlatInv'
<1>1. /\ pc = "start" /\ pc' = "parse" /\ UNCHANGED <<tree, arg, stack>> /\ arg = Main
  BY DEF Begin, FlatInv, disk, parsing
<1>2. stack = <<>>
  BY <1>1 DEF Inv, ParsingInv
<1>3. FileAt(tree, stack, Len(stack) + 1) = Main
  BY <1>2 DEF FileAt
<1>4. Expansion(tree, Flat', Ends', stack, TRUE)
  BY <1>2 DEF Expansion
<1> QED BY <1>1, <1>3, <1>4 DEF FlatInv, Flattened, Past

\* The outermost document has all includes replaced, and they have all ended.
LEMMA ParsedFlat ==
  ASSUME Inv, FlatInv, Parsed
  PROVE  FlatInv'
<1>1. /\ pc = "loop" /\ pc' = "project" /\ UNCHANGED <<tree, stack>>
      /\ Len(stack) = 1 /\ Frame.includes = {}
  BY DEF Parsed, disk, parsing
<1>2. Frame = stack[1] /\ 1 \in DOMAIN stack
  <2>1. stack # <<>>
    BY <1>1 DEF Inv, ParsingInv, Stages
  <2> QED BY <1>1, <2>1, FrameTypes DEF Inv
<1>3. OpenedAt(tree, Ends, stack, 1) /\ JoinedAt(tree, Flat, stack, 1)
  BY <1>1, <1>2 DEF FlatInv, Expansion
<1>4. FileAt(tree, stack, 1) = Main
  BY DEF FileAt
<1>5. /\ Main \in DOMAIN tree
      /\ \A q \in IncludesOf(tree, Main) : FileOf(tree, q) \in Ends[MaxDepth - 1]
      /\ stack[1].children = FlattenSeq(Pieces(tree, Flat, Main, {}, MaxDepth - 1))
  BY <1>1, <1>2, <1>3, <1>4 DEF OpenedAt, JoinedAt
<1>6. MaxDepth \in 1..MaxDepth
  BY AddRevisionAssumption
<1>7. Main \in Ends[MaxDepth]
  BY <1>5, <1>6, EndsMember DEF Inv
<1>8. stack[1].children = Flat[MaxDepth][Main]
  BY <1>5, <1>6, FlatRule DEF Inv
<1>9. Flat' = Flat /\ Reached' = Reached
  BY <1>1, TreeRests
<1>10. Flattened'
  BY <1>1, <1>7, <1>8, <1>9, ReachedEnds DEF Flattened
<1> QED BY <1>1, <1>10 DEF FlatInv

\* The other steps leave the frames.
LEMMA FlatStep ==
  ASSUME Inv, FlatInv, [Next]_vars
  PROVE  FlatInv'
<1>1. CASE UNCHANGED vars
  <2>1. UNCHANGED <<tree, pc, arg, stack, m, i>>
    BY <1>1 DEF vars, disk, parsing
  <2>2. Flat' = Flat /\ Ends' = Ends /\ Reached' = Reached
    BY <2>1, TreeRests
  <2> QED BY <2>1, <2>2 DEF FlatInv, Flattened, Past
<1>2. CASE \/ BadUsage \/ CannotParse \/ WriteFails \/ MissingRepository
           \/ CannotRunGit
  <2>1. pc' = "failed"
    BY <1>2 DEF BadUsage, CannotParse, CannotRunGit, WriteFails, Raise,
                MissingRepository, AfterMissing
  <2> QED BY <2>1 DEF FlatInv, Flattened, Past
<1>3. CASE \/ KeepRevision \/ FindRev \/ FindTag \/ FindRef \/ EndProjects
           \/ OpenOutput \/ Write \/ World
  <2>1. pc \in {"project", "tag", "ref", "open", "write"}
    BY <1>3 DEF KeepRevision, FindRev, FindTag, FindRef, EndProjects, OpenOutput,
                Write, World
  <2>2. pc' \in {"project", "tag", "ref", "open", "write", "done"}
    BY <1>3 DEF KeepRevision, FindRev, FindTag, FindRef, EndProjects, OpenOutput,
                Write, World
  <2>3. UNCHANGED <<tree, stack>>
    BY <1>3 DEF KeepRevision, FindRev, FindTag, FindRef, EndProjects, OpenOutput,
                Write, World, disk, parsing
  <2>4. Flat' = Flat /\ Reached' = Reached
    BY <2>3, TreeRests
  <2>5. Flattened'
    BY <2>1, <2>3, <2>4 DEF FlatInv, Flattened, Past
  <2> QED BY <2>2, <2>5 DEF FlatInv
<1>4. CASE \/ Begin \/ Parse \/ ParseInclude \/ Return \/ Move \/ RemoveInclude
           \/ Parsed
  BY <1>4, BeginFlat, ParseFlat, ParseIncludeFlat, ReturnFlat, MoveFlat,
     RemoveIncludeFlat, ParsedFlat
<1> QED BY <1>1, <1>2, <1>3, <1>4 DEF Next, ParseManifest, Mark

\* Whatever the manifests include: once the projects are looked at, the document is
\* the manifest of the command line with each include, at every depth, replaced by
\* the children of the manifest it names, in their order and nothing else, although
\* the loop changes the list that is walked; and no file was missing and none
\* included itself (add-revision.py:66-86).
THEOREM IncludesReplaced == Spec => []Flattened
<1>1. Init => FlatInv
  BY DEF Init, FlatInv, Flattened, Past
<1>2. Inv /\ FlatInv /\ [Next]_vars => FlatInv'
  BY FlatStep
<1>3. FlatInv => Flattened
  BY DEF FlatInv
<1> QED BY <1>1, <1>2, <1>3, Invariance, PTL DEF Spec
=============================================================================
