----------------------------- MODULE MCPipeline -----------------------------
(* A small instance of Pipeline for TLC: files of every kind, two jobs, two       *)
(* searches that share an Indexer, and a removal.                            *)
EXTENDS Pipeline, TLC

\* Words: a short one, a long one, one that is cut into windows, a rule, a heading and
\* one that is repeated.
Short == 1
Long == 2
Huge == 3
Dashes == 4
Title == 5
Again == 6
Sizes == <<3, 7, 21, 3, 4, 9>>
Titles == {Title}
NoneClose == {}

W(word, sep) == [word |-> word, sep |-> sep]
T(words) == [i \in DOMAIN words |-> W(words[i][1], words[i][2])]
Plain == T(<<<<Short, Space>>, <<Long, Sentence>>, <<Long, None>>>>)
Sections == T(<<<<Title, NewLine>>, <<Long, Sentence>>, <<Long, NewLine>>,
               <<Title, NewLine>>, <<Huge, None>>>>)
Repeats == T(<<<<Again, NewLine>>, <<Long, Para>>, <<Again, NewLine>>, <<Huge, None>>>>)
OnlyRepeats == T(<<<<Again, NewLine>>, <<Again, None>>>>)
Tiny == T(<<<<Short, None>>>>)

File(kind, parts, other, margins) ==
  [kind |-> kind, valid |-> TRUE, parts |-> parts, other |-> other, margins |-> margins,
   nodes |-> {}, alike |-> {}, strategy |-> "recursive", sized |-> TRUE]
By(strategy, nodes, alike) ==
  [File("txt", <<Sections>>, <<>>, <<>>) EXCEPT
     !.strategy = strategy, !.nodes = nodes, !.alike = alike]

Samples ==
  { File("txt", <<Repeats>>, <<>>, <<>>),
    File("txt", <<OnlyRepeats>>, <<>>, <<>>),
    File("txt", <<Tiny>>, <<>>, <<>>),
    File("md", <<Sections>>, <<>>, <<>>),
    File("csv", <<Tiny, NoText, Plain>>, <<>>, <<>>),
    File("json", <<Plain, Unread>>, <<>>, <<>>),
    File("json", <<Unread>>, <<>>, <<>>),
    File("pdf", <<NoText, Plain>>, <<Tiny, NoText>>, <<>>),
    File("pdf", <<NoText>>, <<NoText>>, <<>>),
    File("html", <<Plain, Tiny>>, <<NoText, Tiny>>, <<>>),
    File("html", <<NoText>>, <<Sections, Tiny>>, <<>>),
    File("html", <<NoText>>, <<NoText, Tiny>>, <<>>),
    File("docx", <<Plain>>, <<Tiny>>, <<Tiny, Plain>>),
    File("image", <<Plain>>, <<>>, <<>>),
    File("docx", <<Tiny>>, <<Plain>>, <<NoText>>),
    File("image", <<NoText>>, <<>>, <<>>),
    File("image", <<Unread>>, <<>>, <<>>),
    [File("txt", <<Plain>>, <<>>, <<>>) EXCEPT !.valid = FALSE],
    [File("txt", <<Plain>>, <<>>, <<>>) EXCEPT !.sized = FALSE],
    By("ast", {[from |-> 2, to |-> 3]}, {}), By("ast", {}, {}),
    By("markdown", {}, {}),
    By("semantic", {}, {2}), By("semantic", {}, {}),
    File("md", <<NoText>>, <<>>, <<>>),
    File("other", <<Plain>>, <<>>, <<>>) }

TwoJobs == {"j1", "j2"}
TwoSearches == {"s1", "s2"}
OneRemoval == {"r1"}
FourIndexers == {"j1", "j2", "retriever", "r1"}
OwnIndexer ==
  [t \in {"j1", "j2", "s1", "s2", "r1"} |-> IF t \in TwoSearches THEN "retriever" ELSE t]
\* The file a job has downloaded is not the path a removal asks for.
Temporary == [t \in {"j1", "j2", "r1"} |-> IF t = "r1" THEN "name" ELSE t]
\* Every file by itself, two jobs and a removal, and two searches beside a job.
PlainFile == File("txt", <<Plain>>, <<>>, <<>>)
LongFile == File("txt", <<Sections>>, <<>>, <<>>)
Load(f, g, threads) == [files |-> [j1 |-> f, j2 |-> g], threads |-> threads]
EveryLoad ==
  {Load(f, PlainFile, {"j1"}) : f \in Samples} \cup
  {Load(PlainFile, LongFile, TwoJobs), Load(PlainFile, PlainFile, {"j1", "j2", "r1"}),
   Load(LongFile, PlainFile, {"j1", "s1", "s2"})}
=============================================================================
