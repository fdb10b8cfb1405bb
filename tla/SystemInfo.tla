------------------------------ MODULE SystemInfo ------------------------------
(***************************************************************************)
(* The two tables b2g-info prints below that of the processes              *)
(* (b2g-info.cpp:74-256): the memory of the system, from the lines of      *)
(* /proc/meminfo, and the parameters of the low-memory killer, from three  *)
(* files of /sys, each opened and read a system call at a time while       *)
(* someone else rewrites them.                                             *)
(*                                                                         *)
(* A text is a sequence of characters.  Of /proc/meminfo, whose lines the  *)
(* kernel makes at one stroke, a line is a name and a number of kB.        *)
(***************************************************************************)
EXTENDS Utils

CONSTANTS
  B2GSums,   \* what the PSS column may add up to (see B2GInfo)
  Starts,    \* the contents of the three files when the tool starts, and the
             \* lines of /proc/meminfo
  Rewrites,  \* the texts that may be written to adj and to minfree
  MaxWrites, \* how often one is written (a bound of the model)
  Room       \* sizeof(buf) - 1 (a bound of the model)

Params == {"notify_trigger", "adj", "minfree"}
Fields == {"MemTotal", "MemFree", "Buffers", "Cached", "SwapTotal",
           "SwapFree", "SwapCached"}

ASSUME SystemInfoAssumption ==
  /\ B2GSums \subseteq Int
  /\ Starts \subseteq [Params -> Seq(Chars)] \X Seq(STRING \X Nat)
  /\ Rewrites \subseteq Seq(Chars)
  /\ MaxWrites \in Nat /\ Room \in Nat \ {0}

VARIABLES
  setting,  \* setting[f]: the text of the file f
  writes,   \* how often a file was rewritten
  lines,    \* the lines of /proc/meminfo
  at,       \* "meminfo", the file being read or "done"
  part,     \* of read_whole_file(): "open", "read" or "use"
  content,  \* content[f]: the text the kernel made of f, at the first read()
  buf,      \* what has been read of the open file
  memory,   \* the printed table of the memory, a number of kB for each name
  notify,   \* notify_pages in kB, as printed
  oomAdjs,  \* oom_adjs
  minfrees, \* minfrees
  rows,     \* the printed table of the parameters
  broken    \* history: the files that could not be opened or read to the end

files == <<setting, writes, lines>>
reading == <<part, content, buf>>
shown == <<memory, notify, rows>>
systemVars == <<files, at, reading, shown, oomAdjs, minfrees, broken>>

NoTable == <<>>       \* a table that is not printed
None == LongMax + 1   \* an empty cell

MemoryCells == {"Total", "SwapTotal", "Used - cache", "B2G procs (PSS)",
                "Non-B2G procs", "Free + cache", "Free", "Cache", "SwapFree"}

Longs == -LongMax - 1..LongMax

SystemInit ==
  /\ \E start \in Starts : setting = start[1] /\ lines = start[2]
  /\ writes = 0
  /\ at = "meminfo" /\ part = "open" /\ buf = <<>>
  /\ content = [f \in Params |-> <<>>]
  /\ memory = NoTable /\ notify = 0 /\ oomAdjs = <<>> /\ minfrees = <<>>
  /\ rows = <<>>
  /\ broken = {}

-----------------------------------------------------------------------------
(***************************************************************************)
(* print_system_meminfo()                                                  *)
(***************************************************************************)
\* Mistake: the name is looked for anywhere in a line, not at its start.
Mentions(line, field) ==
  line[1] = field \/ (field = "Cached" /\ line[1] = "SwapCached")

\* sscanf(line, "<field>: %d kB", &val) == 1
Matches(line, field) == line[1] = field

\* The fields of the last lines that match, -1 for those that none matches.
Parsed ==
  [field \in Fields |->
     LET found == {i \in 1..Len(lines) : Matches(lines[i], field)}
     IN IF found = {} THEN -1 ELSE lines[Max(found)][2]]

Cache(val) == val["Buffers"] + val["Cached"] + val["SwapCached"]

\* The nine figures; the total of the B2G processes is divided as it is.
Figures(val, b2g) ==
  LET used == val["MemTotal"] - val["MemFree"] - val["Buffers"]
                - val["Cached"] - val["SwapCached"]
  IN [cell \in MemoryCells |->
        CASE cell = "Total" -> KbToMb(val["MemTotal"])
          [] cell = "SwapTotal" -> KbToMb(val["SwapTotal"])
          [] cell = "Used - cache" -> KbToMb(used)
          [] cell = "B2G procs (PSS)" -> b2g
          [] cell = "Non-B2G procs" -> KbToMb(used - b2g)
          [] cell = "Free + cache" -> KbToMb(val["MemFree"] + Cache(val))
          [] cell = "Free" -> KbToMb(val["MemFree"])
          [] cell = "Cache" -> KbToMb(Cache(val))
          [] cell = "SwapFree" -> KbToMb(val["SwapFree"])]

StartLmk ==
  /\ at' = "notify_trigger"
  /\ UNCHANGED <<files, reading, notify, rows, oomAdjs, minfrees, broken>>

\* /proc/meminfo cannot be opened, or lacks a field.
NoMeminfo == at = "meminfo" /\ UNCHANGED memory /\ StartLmk

PrintMeminfo ==
  /\ at = "meminfo"
  /\ \A field \in Fields : Parsed[field] # -1
  /\ \E b2g \in B2GSums : memory' = Figures(Parsed, b2g)
  /\ StartLmk

-----------------------------------------------------------------------------
(***************************************************************************)
(* read_whole_file()                                                       *)
(***************************************************************************)
OpenFails ==
  /\ at \in Params /\ part = "open"
  /\ part' = "use" /\ buf' = <<>> /\ broken' = broken \cup {at}
  /\ UNCHANGED <<files, at, content, shown, oomAdjs, minfrees>>

Open ==
  /\ at \in Params /\ part = "open"
  /\ part' = "read" /\ buf' = <<>>
  /\ UNCHANGED <<files, at, content, shown, oomAdjs, minfrees, broken>>

\* The text an open file of /sys gives: the kernel makes it at the first
\* read() and answers the others from it.
Text == IF buf = <<>> THEN setting[at] ELSE content[at]

Remaining == Room - Len(buf)

\* Mistake: one read() is taken for the whole file.
AfterOneRead == "use"

\* The loop goes on after a read() that gave something.
AfterRead == "read"

\* read() gives at most what there is room for, and may give less.
ReadSome ==
  /\ at \in Params /\ part = "read" /\ Remaining > 0
  /\ \E n \in 1..Min({Remaining, Len(Text) - Len(buf)}) :
       buf' = buf \o SubSeq(Text, Len(buf) + 1, Len(buf) + n)
  /\ content' = [content EXCEPT ![at] = Text]
  /\ part' = AfterRead
  /\ UNCHANGED <<files, at, shown, oomAdjs, minfrees, broken>>

\* No room is left, or read() returns 0.
ReadEnds ==
  /\ at \in Params /\ part = "read"
  /\ Remaining = 0 \/ Len(Text) = Len(buf)
  /\ part' = "use"
  /\ content' = [content EXCEPT ![at] = Text]
  /\ UNCHANGED <<files, at, buf, shown, oomAdjs, minfrees, broken>>

\* Mistake: a read() that fails starts all over.
Retry == "open"

\* A read() that fails ends the loop as the end of the file does.
AfterFailure == "use"

\* What was read before is kept.
ReadFails ==
  /\ at \in Params /\ part = "read" /\ Remaining > 0
  /\ part' = AfterFailure /\ broken' = broken \cup {at}
  /\ UNCHANGED <<files, at, content, buf, shown, oomAdjs, minfrees>>

-----------------------------------------------------------------------------
(***************************************************************************)
(* print_lmk_params()                                                      *)
(***************************************************************************)
\* getline(ss, item, ',') until it fails: nothing follows a last comma.
Items(text) ==
  LET split == FoldRight(LAMBDA c, items :
                           IF c = Comma THEN << <<>> >> \o items
                           ELSE [items EXCEPT ![1] = <<c>> \o @],
                         text, << <<>> >>)
  IN IF Last(split) = <<>> THEN Front(split) ELSE split

Numbers(text) ==
  FoldLeft(LAMBDA numbers, item : Append(numbers, StrToIntOr(item)),
           <<>>, Items(text))
KBs(text) ==
  FoldLeft(LAMBDA kbs, pages : Append(kbs, PagesToKb(pages)),
           <<>>, Numbers(text))

UseNotify ==
  /\ at = "notify_trigger" /\ part = "use"
  /\ notify' = PagesToKb(StrToIntOr(buf))
  /\ at' = "adj" /\ part' = "open" /\ buf' = <<>>
  /\ UNCHANGED <<files, content, memory, rows, oomAdjs, minfrees, broken>>

UseAdj ==
  /\ at = "adj" /\ part = "use"
  /\ oomAdjs' = Numbers(buf)
  /\ at' = "minfree" /\ part' = "open" /\ buf' = <<>>
  /\ UNCHANGED <<files, content, shown, minfrees, broken>>

RowCount(s, t) == Max({Len(s), Len(t)})

CellAt(list, i) == IF i <= Len(list) THEN list[i] ELSE None

UseMinfree ==
  /\ at = "minfree" /\ part = "use"
  /\ LET kbs == KBs(buf) IN
       /\ minfrees' = kbs
       /\ rows' = [i \in 1..RowCount(oomAdjs, kbs) |->
                     <<CellAt(oomAdjs, i), CellAt(kbs, i)>>]
  /\ at' = "done" /\ part' = "open" /\ buf' = <<>>
  /\ UNCHANGED <<files, content, memory, notify, oomAdjs, broken>>

-----------------------------------------------------------------------------
ReadWholeFile == OpenFails \/ Open \/ ReadSome \/ ReadEnds \/ ReadFails

SystemStep ==
  \/ NoMeminfo \/ PrintMeminfo
  \/ ReadWholeFile \/ UseNotify \/ UseAdj \/ UseMinfree

\* Someone sets the thresholds, one file after another, in any order.
SetThresholds ==
  /\ at # "done" /\ writes < MaxWrites
  /\ \E f \in {"adj", "minfree"}, text \in Rewrites :
       setting' = [setting EXCEPT ![f] = text]
  /\ writes' = writes + 1
  /\ UNCHANGED <<lines, at, reading, shown, oomAdjs, minfrees, broken>>

SystemNext == SystemStep \/ SetThresholds

SystemSpec == SystemInit /\ [][SystemNext]_systemVars

\* The tool is scheduled; only its loop over a file could go on for ever.
FairSystemSpec == SystemSpec /\ WF_systemVars(ReadWholeFile)

-----------------------------------------------------------------------------
(***************************************************************************)
(* What a reader of the tables may rely on.                                *)
(***************************************************************************)
\* What is read of a file is a piece of one of its contents, never a mixture
\* of two, never more than the buffer holds beside the zero at its end, and all
\* of it unless it is longer or a call fails (b2g-info.cpp:74-102).
ReadsOneText ==
  at \in Params /\ part # "open" =>
    /\ Len(buf) <= Room
    /\ buf # <<>> => IsPrefix(buf, content[at])
    /\ part = "use" /\ at \notin broken =>
         Len(buf) = Min({Len(content[at]), Room})

\* A text is taken for a number exactly when it is a decimal numeral between
\* blanks, and then for the number it denotes, or the nearest that a long can
\* hold; both families of str_to_int() agree (utils.cpp:105-137).
ReadsNumerals ==
  part = "use" =>
    /\ StrToInt(buf).ok <=> Denoted(buf) # {}
    /\ \A n \in Denoted(buf) : StrToInt(buf).result = Clamp(n)
    /\ StrToIntOr(buf) = IF StrToInt(buf).ok THEN StrToInt(buf).result
                                             ELSE Default

\* The table of the memory is printed only when the kernel reports all that
\* it needs; each figure is one that it reports, whatever other lines there
\* are, and the figures add up, unless one of them is the mark of an unknown
\* number (b2g-info.cpp:129-201, utils.cpp:56-63).
Reported(field) == {line[2] : line \in {l \in ToSet(lines) : l[1] = field}}
FiguresAsReported ==
  memory # NoTable =>
    LET Sum(a, b, c) == \/ memory[a] + memory[b] = memory[c]
                        \/ -Kilo \in {memory[a], memory[b], memory[c]}
    IN /\ \A c \in { <<"Total", "MemTotal">>, <<"Free", "MemFree">>,
                      <<"SwapTotal", "SwapTotal">>, <<"SwapFree", "SwapFree">> } :
            memory[c[1]] \in Reported(c[2])
       /\ \E b \in Reported("Buffers"), c \in Reported("Cached"),
              s \in Reported("SwapCached") : memory["Cache"] = b + c + s
       /\ Sum("Used - cache", "Free + cache", "Total")
       /\ Sum("Free", "Cache", "Free + cache")
       /\ Sum("B2G procs (PSS)", "Non-B2G procs", "Used - cache")

\* The items of a text between its commas, and the number each denotes.
CommasIn(text) == {0} \cup {i \in 1..Len(text) : text[i] = Comma}
ItemsOf(text) ==
  {r \in CommasIn(text) \X (1..Len(text) + 1) :
     /\ r[2] = Len(text) + 1 \/ r[2] \in CommasIn(text)
     /\ \A k \in r[1] + 1..r[2] - 1 : k \notin CommasIn(text)
     /\ r[1] < r[2] /\ (r[1] = Len(text) => r[2] # Len(text) + 1)}
NumberAt(text, n) ==
  LET item == CHOOSE r \in ItemsOf(text) :
                Cardinality({q \in ItemsOf(text) : q[1] < r[1]}) = n - 1
      numbers == Denoted(SubSeq(text, item[1] + 1, item[2] - 1))
  IN IF numbers = {} THEN Default ELSE Clamp(CHOOSE k \in numbers : TRUE)

\* When both lists are read to the end and each as it was last set, the n-th
\* row pairs the n-th adj with the n-th minfree in kB, however many each list
\* has and whatever is written meanwhile; a number of pages is exact as long
\* as its bytes fit a long (b2g-info.cpp:214-251).
RowsPairTheLists ==
  LET adj == content["adj"]
      minfree == content["minfree"]
      Whole(f) == f \notin broken /\ Len(content[f]) <= Room
      InPages(n) == NumberAt(minfree, n) * PageSize
  IN at = "done" /\ Whole("adj") /\ Whole("minfree") =>
       /\ Len(rows) = Max({Cardinality(ItemsOf(adj)),
                           Cardinality(ItemsOf(minfree))})
       /\ \A n \in 1..Len(rows) :
            /\ rows[n][1] = IF n <= Cardinality(ItemsOf(adj))
                            THEN NumberAt(adj, n) ELSE None
            /\ n > Cardinality(ItemsOf(minfree)) => rows[n][2] = None
            /\ n <= Cardinality(ItemsOf(minfree)) /\ InPages(n) \in Longs =>
                 rows[n][2] = IF NumberAt(minfree, n) = Default THEN Default
                              ELSE InPages(n) \div Kilo

\* The reading of a file comes to an end, whatever is written meanwhile and
\* whichever calls fail (b2g-info.cpp:84-98).
ReadingEnds == part = "read" ~> part = "use"
=============================================================================
