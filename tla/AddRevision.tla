----------------------------- MODULE AddRevision -----------------------------
(***************************************************************************)
(* add-revision.py: the manifest is parsed, its includes are replaced by   *)
(* the manifests they name, each project gets the commit that is checked   *)
(* out, and the result is written.  git is asked one command at a time,    *)
(* while someone else may check out other commits.                         *)
(*                                                                         *)
(* A node <<f, k>> is the k-th child of the <manifest> of file f: of an    *)
(* element, only its kind and what the script looks at are kept.  The      *)
(* parser makes new nodes each time; the includes of a document are those  *)
(* of its own file, so that no two of them are equal.                      *)
(***************************************************************************)
EXTENDS Integers, FiniteSets, Sequences, SequencesExt

CONSTANTS
  Files,     \* the names of manifests
  Trees,     \* the manifests to try: files that exist with their elements
  Main,      \* the manifest on the command line
  Paths,     \* the paths of projects
  Missing,   \* those where there is no directory
  Commits,   \* the commits that may be checked out
  TagOf,     \* TagOf[c]: "none", or the kind of tag that c has
  MaxDepth,  \* how deep Python lets parse_manifest() recurse (a bound)
  MaxMoves   \* how often another commit is checked out (a bound)

\* What git prints when it fails: nothing; or, of rev-parse, the word itself,
\* when it cannot tell what HEAD is, as in a repository without commits.
Nothing == "nothing"
Word == "HEAD"
\* A revision attribute of the source manifest.
Given == "given"

Elements == [kind : {"include"}, file : Files]
              \cup [kind : {"project"}, path : Paths, revision : {Nothing, Given}]
              \cup [kind : {"other"}]

ASSUME AddRevisionAssumption ==
  /\ \A tree \in Trees :
       DOMAIN tree \subseteq Files /\ \A f \in DOMAIN tree : tree[f] \in Seq(Elements)
  /\ Main \in Files /\ Missing \subseteq Paths
  /\ TagOf \in [Commits -> {"none", "light", "annotated"}]
  /\ {Nothing, Word, Given, "light", "annotated"} \cap Commits = {}
  /\ MaxDepth \in Nat \ {0} /\ MaxMoves \in Nat

VARIABLES
  tree,      \* the manifests on the disk
  heads,     \* heads[p]: the commit that is checked out at p
  moves,     \* how often one was checked out
  option,    \* the options of the command line
  pc,        \* what the script does next
  arg,       \* the file parse_manifest() is called with
  stack,     \* its frames, the outermost first: the children of a document,
             \* and the includes that the loop has still to come to
  m,         \* the children of the manifest element that was included
  i,         \* the position of the loop over m
  todo,      \* the projects the loop over them has still to come to
  revision,  \* the revision attribute of each project
  comment,   \* what the comment before each project says its tag is
  tag,       \* what find_tag() has returned
  out,       \* the output: "old", "empty" or "written"
  headsSeen, \* history: the commits checked out at each path since the start
  unanswered, \* history: the projects for which a command of git failed
  overtaken  \* history: those where another commit was checked out between the
             \* three commands

disk == <<tree, heads, moves, headsSeen, overtaken>>
parsing == <<arg, stack, m>>
marking == <<todo, revision, comment, tag, unanswered>>
vars == <<disk, option, pc, parsing, i, marking, out>>

Element(node) == tree[node[1]][node[2]]

Nodes == Files \X (Nat \ {0})
Revisions == Commits \cup {Nothing, Word}
Refs == Revisions \cup {"light", "annotated"}  \* a tag is known by its kind

TypeOK ==
  /\ tree \in Trees /\ heads \in [Paths \ Missing -> Commits] /\ moves \in 0..MaxMoves
  /\ option.sinks \subseteq {"output", "stdio"}
  /\ option.force \in BOOLEAN /\ option.tags \in BOOLEAN
  /\ option.onlyAnnotated \in BOOLEAN
  /\ pc \in {"start", "parse", "loop", "move", "project", "tag", "ref",
             "open", "write", "done", "failed"}
  /\ arg \in Files
  /\ Len(stack) <= MaxDepth
  /\ \A k \in DOMAIN stack :
       stack[k].children \in Seq(Nodes) /\ stack[k].includes \subseteq Nodes
  /\ m \in Seq(Nodes) /\ i \in Nat \ {0}
  /\ todo \subseteq DOMAIN revision /\ DOMAIN revision \subseteq Nat
  /\ revision \in [DOMAIN revision -> Revisions \cup {Given}]
  /\ comment \in [DOMAIN revision -> Refs \cup {"no comment"}]
  /\ tag \in Refs /\ out \in {"old", "empty", "written"}
  /\ headsSeen \in [Paths \ Missing -> SUBSET Commits]
  /\ unanswered \cup overtaken \subseteq DOMAIN revision

Init ==
  /\ tree \in Trees /\ heads \in [Paths \ Missing -> Commits] /\ moves = 0
  /\ option \in [sinks : SUBSET {"output", "stdio"}, force : BOOLEAN,
                 tags : BOOLEAN, onlyAnnotated : BOOLEAN]
  /\ pc = "start" /\ arg = Main /\ stack = <<>> /\ m = <<>> /\ i = 1
  /\ todo = {} /\ revision = <<>> /\ comment = <<>> /\ tag = Nothing /\ out = "old"
  /\ headsSeen = [p \in Paths \ Missing |-> {heads[p]}]
  /\ unanswered = {} /\ overtaken = {}

\* An exception that nothing catches, or parser.error().
Raise ==
  /\ pc' = "failed"
  /\ UNCHANGED <<disk, option, parsing, i, marking, out>>

\* main(): exactly one of --output and --stdio.
BadUsage == pc = "start" /\ Cardinality(option.sinks) # 1 /\ Raise

Begin ==
  /\ pc = "start" /\ Cardinality(option.sinks) = 1
  /\ pc' = "parse"
  /\ UNCHANGED <<disk, option, parsing, i, marking, out>>

-----------------------------------------------------------------------------
(***************************************************************************)
(* parse_manifest()                                                        *)
(***************************************************************************)
\* Mistake: one more call than Python allows.
OneTooDeep == Len(stack) > MaxDepth

TooDeep == Len(stack) = MaxDepth

CannotParse == pc = "parse" /\ (arg \notin DOMAIN tree \/ TooDeep) /\ Raise

\* getElementsByTagName() makes a list of its own, which later changes of
\* the document leave alone.
Parse ==
  /\ pc = "parse" /\ arg \in DOMAIN tree /\ ~TooDeep
  /\ LET children == [k \in 1..Len(tree[arg]) |-> <<arg, k>>]
     IN stack' = Append(stack,
                   [children |-> children,
                    includes |-> {node \in ToSet(children) :
                                    Element(node).kind = "include"}])
  /\ pc' = "loop"
  /\ UNCHANGED <<disk, option, arg, m, i, marking, out>>

Frame == Last(stack)

\* The loop takes the includes in their order.
NextInclude ==
  CHOOSE node \in Frame.includes : \A o \in Frame.includes : node[2] <= o[2]

\* The next include is parsed first.
ParseInclude ==
  /\ pc = "loop" /\ Frame.includes # {}
  /\ arg' = Element(NextInclude).file
  /\ pc' = "parse"
  /\ UNCHANGED <<disk, option, stack, m, i, marking, out>>

\* Back in the caller's loop.
Return ==
  /\ pc = "loop" /\ Frame.includes = {} /\ Len(stack) > 1
  /\ m' = Frame.children /\ i' = 1
  /\ stack' = Front(stack)
  /\ pc' = "move"
  /\ UNCHANGED <<disk, option, arg, marking, out>>

\* Mistake: c has still a parent, and insertBefore() takes it from there.
LoopListWithoutC == RemoveAt(m, i)

\* c.parentNode is None: insertBefore() leaves the list of the loop alone.
LoopList == m

PositionOfInclude ==
  CHOOSE k \in DOMAIN Frame.children : Frame.children[k] = NextInclude

Move ==
  /\ pc = "move" /\ i <= Len(m)
  /\ stack' = [stack EXCEPT ![Len(stack)].children =
                 InsertAt(@, PositionOfInclude, m[i])]
  /\ m' = LoopList /\ i' = i + 1
  /\ UNCHANGED <<disk, option, pc, arg, marking, out>>

RemoveInclude ==
  /\ pc = "move" /\ i > Len(m)
  /\ stack' = [stack EXCEPT ![Len(stack)] =
                 [children |-> RemoveAt(Frame.children, PositionOfInclude),
                  includes |-> Frame.includes \ {NextInclude}]]
  /\ pc' = "loop"
  /\ UNCHANGED <<disk, option, arg, m, i, marking, out>>

-----------------------------------------------------------------------------
(***************************************************************************)
(* add_revision()                                                          *)
(***************************************************************************)
Document == stack[1].children
Projects == {k \in DOMAIN Document : Element(Document[k]).kind = "project"}
Project(k) == Element(Document[k])

\* The project that the loop is at.
Current == CHOOSE k \in todo : \A j \in todo : k <= j
Path == Project(Current).path

Parsed ==
  /\ pc = "loop" /\ Frame.includes = {} /\ Len(stack) = 1
  /\ todo' = Projects
  /\ revision' = [k \in Projects |-> Project(k).revision]
  /\ comment' = [k \in Projects |-> "no comment"]
  /\ pc' = "project"
  /\ UNCHANGED <<disk, option, parsing, i, tag, unanswered, out>>

Keeps == revision[Current] # Nothing /\ ~option.force

KeepRevision ==
  /\ pc = "project" /\ todo # {} /\ Keeps
  /\ todo' = todo \ {Current}
  /\ UNCHANGED <<disk, option, pc, parsing, i, revision, comment, tag,
                 unanswered, out>>

\* Mistake: a project without its repository ends the loop.
StopAtMissing == "open"

\* MissingRepositoryException
AfterMissing == "failed"

MissingRepository ==
  /\ pc = "project" /\ todo # {} /\ ~Keeps
  /\ Path \in Missing
  /\ pc' = AfterMissing
  /\ UNCHANGED <<disk, option, parsing, i, marking, out>>

\* git cannot be run at all: OSError, which nothing catches.
CannotRunGit ==
  /\ pc \in {"tag", "ref"} \/ (pc = "project" /\ todo # {} /\ ~Keeps)
  /\ Path \notin Missing
  /\ Raise

\* find_rev(): what git prints, as nobody looks at its status.
FindRev ==
  /\ pc = "project" /\ todo # {} /\ ~Keeps
  /\ Path \notin Missing
  /\ \/ revision' = [revision EXCEPT ![Current] = heads[Path]]
        /\ UNCHANGED unanswered
     \/ \E printed \in {Nothing, Word} :
          revision' = [revision EXCEPT ![Current] = printed]
        /\ unanswered' = unanswered \cup {Current}
  /\ pc' = "tag"
  /\ UNCHANGED <<disk, option, parsing, i, todo, comment, tag, out>>

\* The tag that git describe finds for a commit.
TagFor(c) ==
  IF TagOf[c] = "none" \/ (TagOf[c] = "light" /\ option.onlyAnnotated)
  THEN Nothing ELSE TagOf[c]

\* find_tag(): a commit without a tag is a failure of git describe.
FindTag ==
  /\ pc = "tag"
  /\ \/ tag' = TagFor(heads[Path]) /\ UNCHANGED unanswered
     \/ tag' = Nothing /\ unanswered' = unanswered \cup {Current}
  /\ pc' = "ref"
  /\ UNCHANGED <<disk, option, parsing, i, todo, revision, comment, out>>

\* Mistake: every revision is taken for a tag.
IsAnyRef(ref) == ref # Nothing

IsTag(ref) == ref # revision[Current]

\* The rest of find_ref(), which asks for the revision again, and the comment.
FindRef ==
  /\ pc = "ref"
  /\ \E rev \in {heads[Path], Nothing, Word} :
       LET ref == IF tag # Nothing THEN tag ELSE rev
       IN /\ comment' = IF option.tags /\ IsTag(ref)
                        THEN [comment EXCEPT ![Current] = ref] ELSE comment
          /\ unanswered' = IF rev = heads[Path] THEN unanswered
                           ELSE unanswered \cup {Current}
  /\ todo' = todo \ {Current} /\ pc' = "project"
  /\ UNCHANGED <<disk, option, parsing, i, revision, tag, out>>

EndProjects ==
  /\ pc = "project" /\ todo = {}
  /\ pc' = IF option.sinks = {"output"} THEN "open" ELSE "write"
  /\ UNCHANGED <<disk, option, parsing, i, marking, out>>

\* open() empties the file.
OpenOutput ==
  /\ pc = "open"
  /\ out' = "empty" /\ pc' = "write"
  /\ UNCHANGED <<disk, option, parsing, i, marking>>

Write ==
  /\ pc = "write"
  /\ out' = "written" /\ pc' = "done"
  /\ UNCHANGED <<disk, option, parsing, i, marking>>

WriteFails == pc \in {"open", "write"} /\ Raise

-----------------------------------------------------------------------------
ParseManifest ==
  CannotParse \/ Parse \/ ParseInclude \/ Return \/ Move \/ RemoveInclude

Mark ==
  \/ Parsed \/ KeepRevision \/ MissingRepository \/ CannotRunGit
  \/ FindRev \/ FindTag \/ FindRef \/ EndProjects \/ OpenOutput \/ Write \/ WriteFails

\* Another commit is checked out.
World ==
  /\ pc \in {"project", "tag", "ref"} /\ moves < MaxMoves
  /\ \E p \in Paths \ Missing, c \in Commits :
       /\ heads' = [heads EXCEPT ![p] = c]
       /\ headsSeen' = [headsSeen EXCEPT ![p] = @ \cup {c}]
       /\ overtaken' = IF pc \in {"tag", "ref"} /\ p = Path
                       THEN overtaken \cup {Current} ELSE overtaken
  /\ moves' = moves + 1
  /\ UNCHANGED <<tree, option, pc, parsing, i, marking, out>>

Next == BadUsage \/ Begin \/ ParseManifest \/ Mark \/ World

Spec == Init /\ [][Next]_vars

-----------------------------------------------------------------------------
\* The nodes of a file with its includes replaced, n levels deep.
Flat[n \in 0..MaxDepth] ==
  [f \in Files |->
     IF n = 0 \/ f \notin DOMAIN tree THEN <<>>
     ELSE FlattenSeq([k \in 1..Len(tree[f]) |->
            IF tree[f][k].kind = "include" THEN Flat[n - 1][tree[f][k].file]
                                           ELSE << <<f, k>> >>])]

\* The files that n includes, one inside the other, lead to.
Reached[n \in 0..MaxDepth] ==
  IF n = 0 THEN {Main}
  ELSE {f \in Files : \E g \in Reached[n - 1] \cap DOMAIN tree :
          \E k \in DOMAIN tree[g] : tree[g][k] = [kind |-> "include", file |-> f]}

\* "Any <include name="another.xml"/> elements are replaced with the contents
\* if the specified file" (add-revision.py:68-69): all of them, in their order
\* and at every depth, although the nodes leave the list that is walked; and
\* never when a file is missing or includes itself (add-revision.py:71-86).
Past == pc \in {"project", "tag", "ref", "open", "write", "done"}
Flattened ==
  Past => /\ stack[1].children = Flat[MaxDepth][Main]
          /\ \A n \in 0..MaxDepth - 1 : Reached[n] \subseteq DOMAIN tree
          /\ Reached[MaxDepth] = {}

\* The output is touched only when every project has what it should: the
\* revision it came with, or a commit that was checked out at its path during
\* the run; it is empty, or no more than the word HEAD, only where a git that
\* failed has printed that, which the script does not notice
\* (add-revision.py:97-114).
Complete == pc \in {"open", "write", "done"} \/ out # "old"
RevisionsAreHeads ==
  Complete =>
    \A k \in Projects :
      \/ Project(k).revision = Given /\ ~option.force /\ revision[k] = Given
      \/ /\ Project(k).revision = Nothing \/ option.force
         /\ Project(k).path \notin Missing
         /\ \/ revision[k] \in headsSeen[Project(k).path]
            \/ revision[k] \in {Nothing, Word} /\ k \in unanswered

\* With --tags, a comment stands before each project that was given the
\* commit of a tag, and tells the tag of that very commit, wherever the
\* repositories were before and are later, unless another commit was checked
\* out there between the three commands that ask, or one of the three failed;
\* and there is no other comment (add-revision.py:103-109).
CommentsTellTags ==
  Complete =>
    \A k \in Projects \ (unanswered \cup overtaken) :
      comment[k] = IF option.tags /\ revision[k] \in Commits
                      /\ TagFor(revision[k]) # Nothing
                   THEN TagFor(revision[k]) ELSE "no comment"
=============================================================================
