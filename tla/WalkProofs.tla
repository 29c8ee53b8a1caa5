------------------------------ MODULE WalkProofs ------------------------------
(***************************************************************************)
(* Two walks that must leave nothing behind. Listing: an adapter walks the  *)
(* pages of a source that changes, and the cursor it leaves loses no file,  *)
(* for any number of files, containers and changes and pages of any size.   *)
(* Chunker: the merge walks the segments of a text, and every segment ends  *)
(* up in a chunk, chunks advance, and Limit bounds them, for texts,         *)
(* segments, chunk sizes and overlaps of any size.                          *)
(***************************************************************************)
EXTENDS Listing, Chunker, FiniteSetTheorems, TLAPS

-----------------------------------------------------------------------------
(* The adapters and their shapes *)

\* The adapters of the connectors directory.
Shipped == {S3, GCS, AzureBlob, Filesystem, Database, Dropbox, OneDrive, SharePoint,
            GoogleDrive, Notion, Confluence, GitHub, Slack}

\* The adapter can list the changes after a token.
Feeds == adapter.feed \in {"delta", "mark"}

Modes == {"key", "first", "once", "delta", "rows", "recent", "offset"}
Item == [f : Files, at : Nat]
Run == [st : {"idle", "read", "hand", "ended", "failed", "dropped"}, n : Nat,
        changes : BOOLEAN, box : Nat \ {0}, pos : Nat, page : SUBSET Item,
        last : BOOLEAN, tries : Nat]

\* What the proofs use of the adapters: only those that list everything skip what fails or
\* read a first page, and those with a token walk one container.
LEMMA AdapterFacts ==
  ASSUME NEW a \in Shipped
  PROVE  /\ a.paging \in Modes \ {"rows"} /\ a.tries \in 1..3
         /\ a.feed \in {"delta", "mark"} => a.flat /\ ~a.collects /\ a.skips = "raise"
         /\ a.collects => a.skips = "raise"
         /\ a.paging = "first" => a.feed = "full"
         /\ a.skips \in {"raise", "box", "page"}
         /\ a.feed \in {"full", "delta", "mark", "broken"}
<1>1. CASE a \in {S3, GCS, AzureBlob}
  <2>1. a.paging = "key" /\ a.tries = 1 /\ a.skips = "raise" /\ a.feed = "full"
    BY <1>1 DEF S3, GCS, AzureBlob, Plain
  <2>2. ~a.flat /\ ~a.collects
    BY <1>1 DEF S3, GCS, AzureBlob, Plain
  <2> QED
    BY <2>1, <2>2 DEF Modes
<1>2. CASE a \in {Filesystem}
  <2>1. a.paging = "once" /\ a.tries = 1 /\ a.skips = "raise" /\ a.feed = "full"
    BY <1>2 DEF Filesystem, Plain
  <2>2. ~a.flat /\ ~a.collects
    BY <1>2 DEF Filesystem, Plain
  <2> QED
    BY <2>1, <2>2 DEF Modes
<1>3. CASE a \in {Database}
  <2>1. a.paging = "once" /\ a.tries = 1 /\ a.skips = "raise" /\ a.feed = "mark"
    BY <1>3 DEF Database, Plain
  <2>2. a.flat /\ ~a.collects
    BY <1>3 DEF Database, Plain
  <2> QED
    BY <2>1, <2>2 DEF Modes
<1>4. CASE a \in {Dropbox}
  <2>1. a.paging = "delta" /\ a.tries = 3 /\ a.skips = "raise" /\ a.feed = "delta"
    BY <1>4 DEF Dropbox, Plain
  <2>2. a.flat /\ ~a.collects
    BY <1>4 DEF Dropbox, Plain
  <2> QED
    BY <2>1, <2>2 DEF Modes
<1>5. CASE a \in {OneDrive}
  <2>1. a.paging = "delta" /\ a.tries = 1 /\ a.skips = "raise" /\ a.feed = "full"
    BY <1>5 DEF OneDrive, Plain
  <2>2. a.flat /\ ~a.collects
    BY <1>5 DEF OneDrive, Plain
  <2> QED
    BY <2>1, <2>2 DEF Modes
<1>6. CASE a \in {SharePoint}
  <2>1. a.paging = "delta" /\ a.tries = 1 /\ a.skips = "raise" /\ a.feed = "full"
    BY <1>6 DEF SharePoint, Plain
  <2>2. ~a.flat /\ ~a.collects
    BY <1>6 DEF SharePoint, Plain
  <2> QED
    BY <2>1, <2>2 DEF Modes
<1>7. CASE a \in {GoogleDrive}
  <2>1. a.paging = "recent" /\ a.tries = 1 /\ a.skips = "raise" /\ a.feed = "broken"
    BY <1>7 DEF GoogleDrive, Plain
  <2>2. a.flat /\ ~a.collects
    BY <1>7 DEF GoogleDrive, Plain
  <2> QED
    BY <2>1, <2>2 DEF Modes
<1>8. CASE a \in {Notion}
  <2>1. a.paging = "key" /\ a.tries = 1 /\ a.skips = "raise" /\ a.feed = "full"
    BY <1>8 DEF Notion, Plain
  <2>2. a.flat /\ a.collects
    BY <1>8 DEF Notion, Plain
  <2> QED
    BY <2>1, <2>2 DEF Modes
<1>9. CASE a \in {Confluence}
  <2>1. a.paging = "offset" /\ a.tries = 1 /\ a.skips = "box" /\ a.feed = "full"
    BY <1>9 DEF Confluence, Plain
  <2>2. ~a.flat /\ ~a.collects
    BY <1>9 DEF Confluence, Plain
  <2> QED
    BY <2>1, <2>2 DEF Modes
<1>10. CASE a \in {GitHub}
  <2>1. a.paging = "offset" /\ a.tries = 3 /\ a.skips = "page" /\ a.feed = "full"
    BY <1>10 DEF GitHub, Plain
  <2>2. a.flat /\ ~a.collects
    BY <1>10 DEF GitHub, Plain
  <2> QED
    BY <2>1, <2>2 DEF Modes
<1>11. CASE a \in {Slack}
  <2>1. a.paging = "first" /\ a.tries = 3 /\ a.skips = "box" /\ a.feed = "full"
    BY <1>11 DEF Slack, Plain
  <2>2. ~a.flat /\ ~a.collects
    BY <1>11 DEF Slack, Plain
  <2> QED
    BY <2>1, <2>2 DEF Modes
<1> QED
  BY <1>1, <1>2, <1>3, <1>4, <1>5, <1>6, <1>7, <1>8, <1>9, <1>10, <1>11 DEF Shipped

\* Sets of files can be counted.
LEMMA Counts ==
  ASSUME NEW S, S \subseteq Files, NEW T, T \subseteq S
  PROVE  /\ IsFiniteSet(S) /\ Cardinality(S) \in Nat /\ Cardinality(T) \in Nat
         /\ Cardinality(T) <= Cardinality(S)
         /\ Cardinality(S) = 0 <=> S = {}
<1>1. IsFiniteSet(Files)
  BY ListingAssumption
<1>2. IsFiniteSet(S)
  BY <1>1, FS_Subset
<1>3. IsFiniteSet(T)
  BY <1>2, FS_Subset
<1>4. Cardinality(S) \in Nat /\ Cardinality(T) \in Nat
  BY <1>2, <1>3, FS_CardinalityType
<1>5. Cardinality(T) <= Cardinality(S)
  BY <1>2, FS_Subset
<1> QED
  BY <1>2, <1>4, <1>5, FS_EmptySet

\* The shape of a listing, with its marks no later than the clock of the source.
ShapeInv ==
  /\ TypeOK /\ run \in Run /\ token <= clock
  /\ \A f \in Files : at[f] <= clock
  /\ \A i \in run.page : i.at <= clock
  /\ run.changes => Feeds /\ run.pos <= clock

\* What depends on the adapter and the source alone.
LEMMA SameSource ==
  ASSUME adapter' = adapter, at' = at
  PROVE  /\ Present' = Present /\ LastBox' = LastBox /\ Feeds' = Feeds
         /\ \A f : BoxOf(f)' = BoxOf(f) /\ Wanted(f)' = Wanted(f)
         /\ \A b : InBox(b)' = InBox(b)
<1>1. Present' = Present /\ LastBox' = LastBox /\ Feeds' = Feeds
  BY DEF Present, LastBox, Feeds
<1>2. \A f : BoxOf(f)' = BoxOf(f) /\ Wanted(f)' = Wanted(f)
  BY DEF BoxOf, Wanted
<1> QED
  BY <1>1, <1>2 DEF InBox

LEMMA SamePlaces ==
  ASSUME adapter' = adapter, at' = at, run'.changes = run.changes
  PROVE  Paging' = Paging /\ \A f : Place(f)' = Place(f)
<1>1. Paging' = Paging
  BY DEF Paging
<1>2. \A b : InBox(b)' = InBox(b)
  BY SameSource
<1>3. \A f : BoxOf(f)' = BoxOf(f)
  BY SameSource
<1> QED
  BY <1>1, <1>2, <1>3 DEF Place

LEMMA Ways ==
  ASSUME Adapters \subseteq Shipped, ShapeInv
  PROVE  /\ Paging \in Modes
         /\ Paging = "first" => adapter.paging = "first"
         /\ adapter \in Shipped /\ LastBox \in Nat \ {0}
         /\ \A f \in Files : BoxOf(f) \in 1 .. LastBox
<1>1. adapter \in Shipped
  BY DEF ShapeInv, TypeOK
<1>2. Paging \in Modes /\ (Paging = "first" => adapter.paging = "first")
  BY <1>1, AdapterFacts DEF Paging, Modes
<1> QED
  BY <1>1, <1>2, ListingAssumption DEF LastBox, BoxOf

-----------------------------------------------------------------------------
(* Pages *)

\* The place of a file, by the order of the pages.
PlaceBy(mode, f) ==
  CASE mode \in {"key", "first", "once"} -> f
    [] mode \in {"delta", "rows"} -> at[f]
    [] mode = "recent" -> MaxClock + 1 - at[f]
    [] mode = "offset" -> Cardinality({g \in InBox(BoxOf(f)) : g <= f})

LEMMA SamePlaceBy ==
  ASSUME adapter' = adapter, at' = at
  PROVE  \A f : Place(f)' = PlaceBy(Paging', f)
<1>1. \A f : BoxOf(f)' = BoxOf(f)
  BY SameSource
<1>2. \A b : InBox(b)' = InBox(b)
  BY SameSource
<1> QED
  BY <1>1, <1>2 DEF Place, PlaceBy

\* Places are counted from 1.
LEMMA PlacesBy ==
  ASSUME Adapters \subseteq Shipped, ShapeInv, NEW mode \in Modes, NEW f \in Present
  PROVE  PlaceBy(mode, f) \in Nat \ {0}
<1>0. f \in Files /\ at[f] \in 1 .. MaxClock /\ f \in Nat \ {0} /\ MaxClock \in Nat
  <2>1. f \in Files /\ at[f] # 0 /\ at \in [Files -> 0 .. MaxClock]
    BY DEF Present, ShapeInv, TypeOK
  <2>2. Cardinality(Files) \in Nat
    BY ListingAssumption, FS_CardinalityType
  <2>3. f \in 1 .. Cardinality(Files)
    BY <2>1, ListingAssumption
  <2>4. MaxClock \in Nat
    BY ListingAssumption
  <2>5. at[f] \in 0 .. MaxClock
    BY <2>1
  <2> QED
    BY <2>1, <2>2, <2>3, <2>4, <2>5
<1>1. CASE mode \in {"key", "first", "once"}
  BY <1>0, <1>1 DEF PlaceBy
<1>2. CASE mode \in {"delta", "rows"}
  BY <1>0, <1>2 DEF PlaceBy
<1>3. CASE mode = "recent"
  BY <1>0, <1>3 DEF PlaceBy
<1>4. CASE mode = "offset"
  <2> DEFINE S == {g \in InBox(BoxOf(f)) : g <= f}
  <2>1. S \subseteq Files /\ f \in S
    BY <1>0 DEF InBox, Present
  <2>2. Cardinality(S) \in Nat /\ Cardinality(S) # 0
    BY <2>1, Counts
  <2>3. PlaceBy(mode, f) = Cardinality(S)
    BY <1>4 DEF PlaceBy
  <2> QED
    BY <2>2, <2>3
<1> QED
  BY <1>1, <1>2, <1>3, <1>4 DEF Modes

LEMMA Places ==
  ASSUME Adapters \subseteq Shipped, ShapeInv, NEW f \in Present
  PROVE  Place(f) \in Nat \ {0}
<1>1. Place(f) = PlaceBy(Paging, f)
  BY DEF Place, PlaceBy
<1> QED
  BY <1>1, Ways, PlacesBy

\* What a page leaves lies behind it.
LEMMA PageOrder ==
  ASSUME Adapters \subseteq Shipped, ShapeInv, NEW f \in Ahead \ NextPage, NEW g \in NextPage
  PROVE  Place(g) < Place(f)
<1> DEFINE Upto(h) == {k \in Ahead : Place(k) <= Place(h)}
<1>1. Ahead \subseteq Present /\ Ahead \subseteq Files /\ NextPage \subseteq Ahead
  BY DEF Ahead, InBox, Present, NextPage
<1>2. \A h \in Ahead : Place(h) \in Nat
  BY <1>1, Places
<1>3. /\ NextPage = {h \in Ahead : Cardinality(Upto(h)) <= PageSize}
  BY DEF NextPage
<1>4. Cardinality(Upto(g)) <= PageSize /\ ~(Cardinality(Upto(f)) <= PageSize)
  BY <1>3
<1>5. ASSUME Place(f) <= Place(g) PROVE FALSE
  <2>1. Upto(f) \subseteq Upto(g)
    BY <1>1, <1>2, <1>5
  <2>2. Upto(g) \subseteq Files
    BY <1>1
  <2>3. /\ Cardinality(Upto(f)) <= Cardinality(Upto(g))
        /\ Cardinality(Upto(f)) \in Nat /\ Cardinality(Upto(g)) \in Nat
    BY <2>1, <2>2, Counts
  <2> HIDE DEF Upto
  <2> QED
    BY <1>4, <2>3, ListingAssumption
<1> QED
  BY <1>1, <1>2, <1>5

\* The position after a page: what was in it lies before, what it leaves behind.
LEMMA PageEnd ==
  ASSUME Adapters \subseteq Shipped, ShapeInv,
         NEW pos \in Furthest({Place(f) : f \in NextPage} \cup {run.pos})
  PROVE  /\ pos \in Nat /\ run.pos <= pos
         /\ \A f \in NextPage : Place(f) <= pos
         /\ \A f \in Ahead \ NextPage : pos < Place(f)
<1>1. Ahead \subseteq Present /\ NextPage \subseteq Ahead /\ run.pos \in Nat
  BY DEF Ahead, InBox, Present, NextPage, ShapeInv, Run
<1>2. \A f \in Ahead : Place(f) \in Nat /\ run.pos < Place(f)
  BY <1>1, Places DEF Ahead
<1>3. /\ pos = run.pos \/ \E g \in NextPage : pos = Place(g)
      /\ run.pos <= pos /\ \A f \in NextPage : Place(f) <= pos
  BY DEF Furthest
<1>4. pos \in Nat
  BY <1>1, <1>2, <1>3
<1>5. ASSUME NEW f \in Ahead \ NextPage PROVE pos < Place(f)
  BY <1>2, <1>3, PageOrder
<1> QED
  BY <1>3, <1>4, <1>5

\* What a page brings.
Found == {[f |-> f, at |-> at[f]] : f \in {g \in NextPage : Wanted(g)}}

LEMMA FoundFacts ==
  ASSUME ShapeInv
  PROVE  /\ Found \in SUBSET Item
         /\ \A i \in Found : /\ i.f \in NextPage /\ Wanted(i.f)
                             /\ i.f \in Present /\ i.at = at[i.f] /\ i.at <= clock
         /\ \A f \in NextPage : Wanted(f) => [f |-> f, at |-> at[f]] \in Found
<1>1. NextPage \subseteq Present /\ Present \subseteq Files
  BY DEF NextPage, Ahead, InBox, Present
<1>2. \A f \in Files : at[f] \in Nat /\ at[f] <= clock
  BY DEF ShapeInv, TypeOK
<1> QED
  BY <1>1, <1>2 DEF Found, Item

-----------------------------------------------------------------------------
(* The steps of a listing, by what they write *)

LEMMA Moves ==
  ASSUME NEW r \in Run, NEW pos \in Nat, NEW page \in SUBSET Item, NEW last \in BOOLEAN,
         NEW st \in {"read", "hand"}
  PROVE  LET s == [r EXCEPT !.page = page, !.pos = pos, !.last = last, !.tries = 0,
                            !.st = st] IN
         /\ s \in Run /\ s.n = r.n /\ s.changes = r.changes /\ s.box = r.box
         /\ s.page = page /\ s.pos = pos /\ s.last = last /\ s.tries = 0 /\ s.st = st
BY DEF Run

LEMMA Reading ==
  ASSUME Adapters \subseteq Shipped, ShapeInv, Read
  PROVE  /\ run' \in Run /\ run'.n = run.n /\ run'.changes = run.changes
         /\ run'.box = run.box /\ run'.tries = 0
         /\ run'.page = run.page \cup Found
         /\ run'.pos \in Furthest({Place(f) : f \in NextPage} \cup {run.pos})
         /\ run'.last = (Paging = "first" \/ NextPage = Ahead)
         /\ run.st = "read"
         /\ run'.st = "hand" \/ (run'.st = "read" /\ adapter.collects /\ ~run'.last)
         /\ UNCHANGED <<adapter, clock, at, token, handed, got, cut, held>>
<1> DEFINE last == Paging = "first" \/ NextPage = Ahead
           st == IF adapter.collects /\ ~last THEN "read" ELSE "hand"
<1>1. PICK pos \in Furthest({Place(f) : f \in NextPage} \cup {run.pos}) :
        run' = [run EXCEPT !.page = run.page \cup Found, !.pos = pos, !.last = last,
                           !.tries = 0, !.st = st]
  BY DEF Read, Found
<1>2. run \in Run /\ run.page \cup Found \in SUBSET Item /\ pos \in Nat
  BY FoundFacts, PageEnd DEF ShapeInv, Run
<1>3. last \in BOOLEAN /\ st \in {"read", "hand"}
  OBVIOUS
<1>4. st = "hand" \/ (st = "read" /\ adapter.collects /\ ~last)
  OBVIOUS
<1>5. run.st = "read" /\ UNCHANGED <<adapter, clock, at, token, handed, got, cut, held>>
  BY DEF Read, source
<1> HIDE DEF last, st
<1>6. /\ run' \in Run /\ run'.n = run.n /\ run'.changes = run.changes
      /\ run'.box = run.box /\ run'.tries = 0 /\ run'.page = run.page \cup Found
      /\ run'.pos = pos /\ run'.last = last /\ run'.st = st
  BY <1>1, <1>2, <1>3 DEF Run
<1>7. run'.last = (Paging = "first" \/ NextPage = Ahead)
  BY <1>6 DEF last
<1>8. run'.st = "hand" \/ (run'.st = "read" /\ adapter.collects /\ ~run'.last)
  BY <1>4, <1>6
<1> QED
  BY <1>1, <1>5, <1>6, <1>7, <1>8

\* Where the walk goes when a page or a container is done with.
LEMMA Walking ==
  ASSUME NEW r \in Run, NEW last \in BOOLEAN, LastBox \in Nat, r.box \in 1 .. LastBox
  PROVE  LET o == Onward(r, last) IN
         /\ o \in Run /\ o.n = r.n /\ o.changes = r.changes /\ o.last = r.last
         /\ o.page = {} /\ o.tries = r.tries
         /\ o.box \in 1 .. LastBox
         /\ \/ last = FALSE /\ o.st = "read" /\ o.box = r.box /\ o.pos = r.pos
            \/ last = TRUE /\ r.box < LastBox /\ o.st = "read" /\ o.box = r.box + 1 /\ o.pos = 0
            \/ last = TRUE /\ r.box = LastBox /\ o.st = "ended" /\ o.box = r.box /\ o.pos = r.pos
<1> DEFINE o == Onward(r, last)
<1>0. {} \in SUBSET Item /\ r.box \in Nat
  OBVIOUS
<1>1. CASE last = FALSE
  BY <1>1 DEF Onward, Run
<1>2. CASE last = TRUE /\ r.box < LastBox
  <2>1. o = [r EXCEPT !.st = "read", !.box = r.box + 1, !.pos = 0, !.page = {}]
    BY <1>2 DEF Onward
  <2> DEFINE b == r.box + 1
  <2>2. b \in Nat \ {0} /\ b \in 1 .. LastBox
    BY <1>0, <1>2
  <2>3. b = r.box + 1
    OBVIOUS
  <2> HIDE DEF o, b
  <2>4. o = [r EXCEPT !.st = "read", !.box = b, !.pos = 0, !.page = {}]
    BY <2>1, <2>3
  <2>5. /\ o \in Run /\ o.n = r.n /\ o.changes = r.changes /\ o.last = r.last
        /\ o.page = {} /\ o.tries = r.tries /\ o.box = b /\ o.st = "read" /\ o.pos = 0
    BY <1>0, <2>2, <2>4 DEF Run
  <2>6. /\ o.box \in 1 .. LastBox
        /\ last = TRUE /\ r.box < LastBox /\ o.st = "read" /\ o.box = r.box + 1 /\ o.pos = 0
    BY <1>2, <2>2, <2>3, <2>5
  <2> QED
    BY <2>5, <2>6 DEF o
<1>3. CASE last = TRUE /\ ~(r.box < LastBox)
  <2>1. o = [r EXCEPT !.st = "ended", !.page = {}]
    BY <1>3 DEF Onward
  <2>2. r.box = LastBox
    BY <1>0, <1>3
  <2> HIDE DEF o
  <2>3. /\ o \in Run /\ o.n = r.n /\ o.changes = r.changes /\ o.last = r.last
        /\ o.page = {} /\ o.tries = r.tries /\ o.box = r.box /\ o.st = "ended"
        /\ o.pos = r.pos
    BY <1>0, <2>1 DEF Run
  <2>4. last = TRUE /\ r.box = LastBox /\ o.st = "ended" /\ o.box = r.box /\ o.pos = r.pos
    BY <1>3, <2>2, <2>3
  <2>5. o.box \in 1 .. LastBox
    BY <2>3
  <2> QED
    BY <2>3, <2>4, <2>5 DEF o
<1> QED
  BY <1>1, <1>2, <1>3

\* A listing that is told to wait, to fail, or is dropped.
LEMMA Waiting ==
  ASSUME Adapters \subseteq Shipped, ShapeInv, RateLimited
  PROVE  /\ run' \in Run /\ run'.n = run.n /\ run'.changes = run.changes
         /\ run'.box = run.box /\ run'.pos = run.pos /\ run'.last = run.last
         /\ run'.tries < 3 /\ run.st = "read"
         /\ \/ run'.st = "read" /\ run'.page = run.page
            \/ run'.st = "failed" /\ run'.page = {}
         /\ UNCHANGED <<adapter, clock, at, token, handed, got, cut, held>>
<1>1. run \in Run /\ adapter.tries \in 1 .. 3 /\ run.tries < 3
  BY Ways, AdapterFacts DEF ShapeInv, TypeOK
<1>2. run.st = "read" /\ UNCHANGED <<adapter, clock, at, token, handed, got, cut, held>>
  BY DEF RateLimited, source
<1>3. CASE run' = [run EXCEPT !.tries = @ + 1] /\ run.tries + 1 < adapter.tries
  BY <1>1, <1>2, <1>3 DEF Run
<1>4. CASE run' = [run EXCEPT !.st = "failed", !.page = {}]
  BY <1>1, <1>2, <1>4 DEF Run
<1> QED
  BY <1>3, <1>4 DEF RateLimited

LEMMA Failing ==
  ASSUME Adapters \subseteq Shipped, ShapeInv, PageFails
  PROVE  /\ run.st = "read" /\ UNCHANGED <<adapter, clock, at, token, handed, got, held>>
         /\ run' \in Run /\ run'.n = run.n /\ run'.changes = run.changes
         /\ run'.page = {} /\ run'.tries < 3 /\ run'.box \in 1 .. LastBox
         /\ \/ /\ adapter.skips = "raise" /\ run'.st = "failed" /\ UNCHANGED cut
               /\ run'.pos = run.pos /\ run'.box = run.box
            \/ /\ adapter.skips = "box" /\ cut' = cut \cup InBox(run.box)
               /\ \/ run.box < LastBox /\ run'.st = "read" /\ run'.box = run.box + 1 /\ run'.pos = 0
                  \/ run.box = LastBox /\ run'.st = "ended"
            \/ /\ adapter.skips = "page" /\ cut' = cut \cup NextPage
               /\ \/ /\ run'.st = "read" /\ run'.box = run.box
                     /\ run'.pos \in Furthest({Place(f) : f \in NextPage} \cup {run.pos})
                  \/ /\ NextPage = Ahead /\ run.box < LastBox
                     /\ run'.st = "read" /\ run'.box = run.box + 1 /\ run'.pos = 0
                  \/ NextPage = Ahead /\ run.box = LastBox /\ run'.st = "ended"
<1>1. /\ run \in Run /\ run.box \in 1 .. LastBox /\ run.tries < 3 /\ LastBox \in Nat
      /\ adapter.skips \in {"raise", "box", "page"}
  BY Ways, AdapterFacts DEF ShapeInv, TypeOK
<1>2. run.st = "read" /\ UNCHANGED <<adapter, clock, at, token, handed, got, held>>
  BY DEF PageFails, source
<1>3. CASE adapter.skips = "raise"
  <2>1. run' = [run EXCEPT !.st = "failed", !.page = {}] /\ UNCHANGED cut
    BY <1>3 DEF PageFails
  <2> QED
    BY <1>1, <1>2, <1>3, <2>1 DEF Run
<1>4. CASE adapter.skips \in {"box", "page"}
  <2> DEFINE lost == IF adapter.skips = "box" THEN InBox(run.box) ELSE NextPage
             last == adapter.skips = "box" \/ NextPage = Ahead
  <2>1. PICK pos \in Furthest({Place(f) : f \in lost} \cup {run.pos}) :
          run' = Onward([run EXCEPT !.pos = pos, !.tries = 0], last)
    BY <1>4 DEF PageFails
  <2>2. cut' = cut \cup lost
    BY <1>4 DEF PageFails
  <2>3. lost \subseteq Present
    BY DEF NextPage, Ahead, InBox
  <2>4. pos \in Nat
    BY <1>1, <2>3, Places DEF Furthest, Run
  <2> DEFINE r == [run EXCEPT !.pos = pos, !.tries = 0]
  <2>5. /\ r \in Run /\ r.n = run.n /\ r.changes = run.changes /\ r.box = run.box
        /\ r.pos = pos /\ r.tries = 0
    BY <1>1, <2>4 DEF Run
  <2>6. run' = Onward(r, last)
    BY <2>1
  <2> last \in BOOLEAN
    OBVIOUS
  <2> HIDE DEF r, last
  <2>7. /\ run' \in Run /\ run'.n = r.n /\ run'.changes = r.changes
        /\ run'.page = {} /\ run'.tries = r.tries /\ run'.box \in 1 .. LastBox
        /\ \/ last = FALSE /\ run'.st = "read" /\ run'.box = r.box /\ run'.pos = r.pos
           \/ last = TRUE /\ r.box < LastBox /\ run'.st = "read" /\ run'.box = r.box + 1 /\ run'.pos = 0
           \/ last = TRUE /\ r.box = LastBox /\ run'.st = "ended" /\ run'.box = r.box /\ run'.pos = r.pos
    <3>1. r \in Run /\ LastBox \in Nat /\ r.box \in 1 .. LastBox
      BY <1>1, <2>5
    <3> QED
      BY <2>6, <3>1, Walking
  <2>8. CASE adapter.skips = "box"
    <3>1. last /\ lost = InBox(run.box)
      BY <2>8 DEF last
    <3> QED
      BY <1>2, <2>2, <2>5, <2>7, <2>8, <3>1
  <2>9. CASE adapter.skips = "page"
    <3>1. lost = NextPage /\ (last => NextPage = Ahead)
      BY <2>9 DEF last
    <3> QED
      BY <1>2, <2>2, <2>5, <2>7, <2>9, <3>1
  <2> QED
    BY <1>4, <2>8, <2>9
<1> QED
  BY <1>1, <1>3, <1>4

LEMMA Yielding ==
  ASSUME Adapters \subseteq Shipped, ShapeInv, Yield
  PROVE  /\ run.st = "hand" /\ UNCHANGED <<adapter, clock, at, cut, held>>
         /\ HandOn(run.page)
         /\ run' \in Run /\ run'.n = run.n /\ run'.changes = run.changes
         /\ run'.page = {} /\ run'.tries = run.tries /\ run'.box \in 1 .. LastBox
         /\ token' \in IF run'.st = "ended" /\ run.changes THEN NewTokens ELSE {token}
         /\ \/ ~run.last /\ run'.st = "read" /\ run'.box = run.box /\ run'.pos = run.pos
            \/ run.last /\ run.box < LastBox /\ run'.st = "read" /\ run'.box = run.box + 1 /\ run'.pos = 0
            \/ run.last /\ run.box = LastBox /\ run'.st = "ended" /\ run'.box = run.box /\ run'.pos = run.pos
<1>1. run \in Run /\ run.box \in 1 .. LastBox /\ LastBox \in Nat
  BY Ways DEF ShapeInv, TypeOK
<1>2. /\ run.st = "hand" /\ UNCHANGED <<adapter, clock, at, cut, held>> /\ HandOn(run.page)
      /\ run' = Onward(run, run.last)
  BY DEF Yield, source
<1>3. token' \in IF run'.st = "ended" /\ run.changes THEN NewTokens ELSE {token}
  BY DEF Yield
<1> QED
  <2>1. /\ run' \in Run /\ run'.n = run.n /\ run'.changes = run.changes
        /\ run'.page = {} /\ run'.tries = run.tries /\ run'.box \in 1 .. LastBox
        /\ \/ run.last = FALSE /\ run'.st = "read" /\ run'.box = run.box /\ run'.pos = run.pos
           \/ run.last = TRUE /\ run.box < LastBox /\ run'.st = "read" /\ run'.box = run.box + 1 /\ run'.pos = 0
           \/ run.last = TRUE /\ run.box = LastBox /\ run'.st = "ended" /\ run'.box = run.box /\ run'.pos = run.pos
    <3>1. run.last \in BOOLEAN
      BY <1>1 DEF Run
    <3> QED
      BY <1>1, <1>2, <3>1, Walking
  <2> QED
    BY <1>2, <1>3, <2>1

LEMMA Dropping ==
  ASSUME ShapeInv, Drop
  PROVE  /\ run.st = "hand" /\ UNCHANGED <<adapter, clock, at, token, cut, held>>
         /\ \E items \in SUBSET run.page : HandOn(items)
         /\ run' \in Run /\ run'.n = run.n /\ run'.changes = run.changes /\ run'.st = "dropped"
         /\ run'.page = {} /\ run'.tries = run.tries /\ run'.box = run.box
         /\ run'.pos = run.pos
<1>1. run \in Run
  BY DEF ShapeInv
<1>2. run' = [run EXCEPT !.st = "dropped", !.page = {}]
  BY DEF Drop
<1>3. /\ run.st = "hand" /\ UNCHANGED <<adapter, clock, at, token, cut, held>>
      /\ \E items \in SUBSET run.page : HandOn(items)
  BY DEF Drop, source
<1> QED
  BY <1>1, <1>2, <1>3 DEF Run

\* A listing of changes begins at the token.
LEMMA Beginning ==
  ASSUME ShapeInv, NEW mode, Begin(mode)
  PROVE  /\ ~Running /\ UNCHANGED <<adapter, clock, at, token, handed>>
         /\ got' = {} /\ cut' = {}
         /\ run' \in Run /\ run'.st \in {"failed", "read"} /\ run'.box = 1
         /\ run'.page = {} /\ run'.tries = 0
         /\ run'.changes => Feeds /\ (adapter.feed = "delta" => token # 0)
         /\ run'.pos = (IF run'.changes THEN token ELSE 0)
         /\ held' \subseteq Present
         /\ \A f \in held' :
              /\ Wanted(f) /\ (run'.changes => at[f] > token)
              /\ adapter.paging = "first" =>
                   Cardinality({g \in InBox(BoxOf(f)) : g <= f}) <= PageSize
<1> DEFINE changes == /\ mode = "incremental"
                      /\ adapter.feed = "mark" \/ (adapter.feed = "delta" /\ token # 0)
           count == run.n + 1
           pos == IF changes THEN token ELSE 0
           st == IF mode = "incremental" /\ adapter.feed = "broken" THEN "failed" ELSE "read"
<1>1. run' = [Idle EXCEPT !.n = count, !.changes = changes, !.pos = pos, !.st = st]
  BY DEF Begin
<1>2. /\ count \in Nat /\ pos \in Nat /\ st \in {"failed", "read"} /\ changes \in BOOLEAN
      /\ changes => Feeds /\ (adapter.feed = "delta" => token # 0)
      /\ pos = (IF changes THEN token ELSE 0)
  <2>1. run.n \in Nat /\ token \in Nat
    BY DEF ShapeInv, TypeOK, Run
  <2>2. count \in Nat /\ pos \in Nat
    BY <2>1
  <2> HIDE DEF count
  <2> QED
    BY <2>2 DEF Feeds
<1>3. /\ ~Running /\ UNCHANGED <<adapter, clock, at, token, handed>> /\ got' = {} /\ cut' = {}
      /\ held' = {f \in Present :
                   /\ Wanted(f)
                   /\ changes => at[f] > token
                   /\ adapter.paging = "first" =>
                        Cardinality({g \in InBox(BoxOf(f)) : g <= f}) <= PageSize}
  BY DEF Begin, source
<1> HIDE DEF count, pos, st, changes
<1>4. /\ run' \in Run /\ run'.st = st /\ run'.box = 1 /\ run'.page = {} /\ run'.tries = 0
      /\ run'.pos = pos
  <2>1. Idle = [st |-> "idle", n |-> 0, changes |-> FALSE, box |-> 1, pos |-> 0, page |-> {},
                last |-> FALSE, tries |-> 0]
    BY DEF Idle
  <2>2. run' = [st |-> st, n |-> count, changes |-> changes, box |-> 1, pos |-> pos, page |-> {},
                last |-> FALSE, tries |-> 0]
    BY <1>1, <2>1, Zenon
  <2>3. {} \in SUBSET Item /\ 1 \in Nat \ {0} /\ 0 \in Nat
    OBVIOUS
  <2>4. run' \in Run
    BY <1>2, <2>2, <2>3 DEF Run
  <2> QED
    BY <2>2, <2>4
<1>5. run'.changes = changes
  BY <1>1, <1>2 DEF Idle
<1>6. /\ held' \subseteq Present
      /\ \A f \in held' :
           /\ Wanted(f) /\ (run'.changes => at[f] > token)
           /\ adapter.paging = "first" =>
                Cardinality({g \in InBox(BoxOf(f)) : g <= f}) <= PageSize
  BY <1>3, <1>5
<1>7. /\ run'.changes => Feeds /\ (adapter.feed = "delta" => token # 0)
      /\ run'.pos = (IF run'.changes THEN token ELSE 0)
  BY <1>2, <1>4, <1>5
<1> QED
  BY <1>2, <1>3, <1>4, <1>6, <1>7

\* What is handed on is noted with the version the page had.
LEMMA Handing ==
  ASSUME ShapeInv, NEW items \in SUBSET run.page, HandOn(items)
  PROVE  /\ got' = got \cup {i.f : i \in items} /\ got' \subseteq Files
         /\ handed' \in [Files -> 0 .. MaxClock]
         /\ ~Feeds => handed' = handed
         /\ Feeds => \A f \in Files :
              \/ handed'[f] = handed[f] /\ ~\E i \in items : i.f = f
              \/ \E i \in items : i.f = f /\ handed'[f] = i.at
<1>1. /\ items \subseteq Item /\ got \subseteq Files /\ handed \in [Files -> 0 .. MaxClock]
      /\ \A i \in items : i.at \in 0 .. MaxClock
  BY ListingAssumption DEF ShapeInv, TypeOK, Run, Item
<1>2. got' = got \cup {i.f : i \in items} /\ got' \subseteq Files
  BY <1>1 DEF HandOn, Item
<1>3. CASE ~Feeds
  <2>1. handed' = handed
    BY <1>3 DEF HandOn, Feeds
  <2> QED
    BY <1>1, <1>2, <1>3, <2>1
<1>4. CASE Feeds
  <2>1. handed' = [f \in Files |-> IF \E i \in items : i.f = f
                                   THEN (CHOOSE i \in items : i.f = f).at ELSE handed[f]]
    BY <1>4 DEF HandOn, Feeds
  <2>2. ASSUME NEW f \in Files
        PROVE  /\ handed'[f] \in 0 .. MaxClock
               /\ \/ handed'[f] = handed[f] /\ ~\E i \in items : i.f = f
                  \/ \E i \in items : i.f = f /\ handed'[f] = i.at
    <3>1. CASE ~\E i \in items : i.f = f
      BY <1>1, <2>1, <3>1
    <3>2. CASE \E i \in items : i.f = f
      <4> DEFINE c == CHOOSE i \in items : i.f = f
      <4>1. c \in items /\ c.f = f
        BY <3>2
      <4>2. handed'[f] = c.at
        BY <2>1, <3>2
      <4> QED
        BY <1>1, <4>1, <4>2
    <3> QED
      BY <3>1, <3>2
  <2>3. handed' \in [Files -> 0 .. MaxClock]
    BY <2>1, <2>2
  <2> QED
    BY <1>2, <1>4, <2>2, <2>3
<1> QED
  BY <1>3, <1>4

\* The next token is the position, or a mark of the page.
LEMMA MarksLeft ==
  ASSUME ShapeInv, run.changes, NEW t \in NewTokens
  PROVE  /\ t \in 0 .. MaxClock /\ t <= clock
         /\ t = run.pos \/ t = token \/ \E i \in run.page : t = i.at
<1>1. /\ run.pos \in Nat /\ run.pos <= clock /\ token \in Nat /\ token <= clock
      /\ clock \in 0 .. MaxClock /\ MaxClock \in Nat
      /\ \A i \in run.page : i.at \in Nat /\ i.at <= clock
  BY ListingAssumption DEF ShapeInv, TypeOK, Run, Item
<1>2. t = run.pos \/ t = token \/ \E i \in run.page : t = i.at
  BY DEF NewTokens
<1> QED
  BY <1>1, <1>2

\* The source does not touch the listing.
LEMMA Turning ==
  ASSUME ShapeInv, NEW g \in Files, Put(g) \/ Remove(g)
  PROVE  /\ UNCHANGED <<adapter, run, token, handed, got, cut>>
         /\ clock' \in 0 .. MaxClock /\ clock <= clock' /\ at' \in [Files -> 0 .. MaxClock]
         /\ \A f \in Files : /\ at'[f] <= clock'
                             /\ at'[f] = at[f] \/ at'[f] = 0 \/ at'[f] > clock
         /\ held' = IF Running THEN {f \in held : Steady(f)} ELSE held
<1>1. /\ clock \in 0 .. MaxClock /\ MaxClock \in Nat /\ at \in [Files -> 0 .. MaxClock]
      /\ \A f \in Files : at[f] <= clock
  BY ListingAssumption DEF ShapeInv, TypeOK
<1>2. Changed
  BY DEF Put, Remove
<1>3. /\ UNCHANGED <<adapter, run, token, handed, got, cut>>
      /\ held' = IF Running THEN {f \in held : Steady(f)} ELSE held
  BY <1>2 DEF Changed
<1>4. CASE Put(g)
  <2>1. clock < MaxClock /\ clock' = clock + 1 /\ at' = [at EXCEPT ![g] = clock + 1]
    BY <1>4 DEF Put
  <2> QED
    BY <1>1, <1>3, <2>1
<1>5. CASE Remove(g)
  <2>1. clock' = clock /\ at' = [at EXCEPT ![g] = 0]
    BY <1>5 DEF Remove
  <2> QED
    BY <1>1, <1>3, <2>1
<1> QED
  BY <1>4, <1>5

-----------------------------------------------------------------------------
(* The shape of a listing *)

LEMMA ShapeInvInit == ASSUME Adapters \subseteq Shipped, Init PROVE ShapeInv
<1>1. PICK here \in SUBSET Files : at = [f \in Files |-> IF f \in here THEN f ELSE 0]
  BY DEF Init
<1>2. /\ clock = Cardinality(Files) /\ clock \in Nat /\ clock <= MaxClock /\ MaxClock \in Nat
      /\ Files = 1 .. clock
  BY ListingAssumption, FS_CardinalityType DEF Init
<1>3. at \in [Files -> 0 .. MaxClock] /\ \A f \in Files : at[f] <= clock
  <2>1. ASSUME NEW f \in Files
        PROVE  (IF f \in here THEN f ELSE 0) \in 0 .. MaxClock /\ at[f] <= clock
    <3>1. f \in 1 .. clock
      BY <1>2
    <3>2. at[f] = f \/ at[f] = 0
      BY <1>1
    <3> QED
      BY <1>2, <3>1, <3>2
  <2> QED
    BY <1>1, <2>1
<1>4. adapter \in Adapters /\ LastBox \in Nat \ {0}
  BY ListingAssumption DEF Init, LastBox
<1>5. token \in 0 .. MaxClock /\ token <= clock
  BY <1>2 DEF Init
<1>6. handed \in [Files -> 0 .. MaxClock]
  BY <1>2, <1>3 DEF Init
<1>7. run = Idle /\ got = {} /\ cut = {} /\ held = {}
  BY DEF Init
<1>8. run \in Run /\ run.page = {} /\ ~run.changes /\ run.box = 1 /\ run.tries = 0 /\ run.st = "idle"
  BY <1>7 DEF Idle, Run
<1>9. run.box \in 1 .. LastBox /\ run.tries < 3
  BY <1>4, <1>8
<1>10. TypeOK
  BY <1>2, <1>3, <1>4, <1>5, <1>6, <1>7, <1>8, <1>9 DEF TypeOK
<1> QED
  BY <1>3, <1>5, <1>8, <1>10 DEF ShapeInv

\* A position in a list of changes is one of their marks.
LEMMA Marks ==
  ASSUME ShapeInv, run.changes, NEW f \in Files
  PROVE  Place(f) = at[f]
<1>1. Paging \in {"rows", "delta"}
  BY DEF Paging
<1> QED
  BY <1>1 DEF Place

LEMMA AdapterStays ==
  ASSUME adapter' = adapter
  PROVE  LastBox' = LastBox /\ Feeds' = Feeds /\ \A f : BoxOf(f)' = BoxOf(f) /\ Wanted(f)' = Wanted(f)
BY DEF LastBox, Feeds, BoxOf, Wanted

LEMMA ShapeInvNext == ASSUME Adapters \subseteq Shipped, ShapeInv, [Next]_vars PROVE ShapeInv'
<1> DEFINE Typed ==
      /\ adapter' \in Adapters /\ clock' \in 0 .. MaxClock /\ at' \in [Files -> 0 .. MaxClock]
      /\ run' \in Run /\ run'.box \in 1 .. LastBox /\ run'.tries < 3
      /\ token' \in 0 .. MaxClock /\ handed' \in [Files -> 0 .. MaxClock]
      /\ got' \subseteq Files /\ cut' \subseteq Files /\ held' \subseteq Files
    Timed ==
      /\ token' <= clock' /\ \A f \in Files : at'[f] <= clock'
      /\ \A i \in run'.page : i.at <= clock'
      /\ run'.changes => Feeds /\ run'.pos <= clock'
<1>1. /\ adapter \in Adapters /\ clock \in 0 .. MaxClock /\ at \in [Files -> 0 .. MaxClock]
      /\ run \in Run /\ run.box \in 1 .. LastBox /\ run.tries < 3
      /\ token \in 0 .. MaxClock /\ handed \in [Files -> 0 .. MaxClock]
      /\ got \subseteq Files /\ cut \subseteq Files /\ held \subseteq Files
  BY DEF ShapeInv, TypeOK
<1>2. /\ token <= clock /\ \A f \in Files : at[f] <= clock
      /\ \A i \in run.page : i.at <= clock
      /\ run.changes => Feeds /\ run.pos <= clock
  BY DEF ShapeInv
<1>3. /\ adapter.skips \in {"raise", "box", "page"} /\ adapter \in Shipped
      /\ LastBox \in Nat \ {0} /\ (Feeds => adapter.skips = "raise")
      /\ Present \subseteq Files /\ NextPage \subseteq Files
      /\ MaxClock \in Nat
  BY Ways, AdapterFacts, ListingAssumption DEF Feeds, Present, NextPage, Ahead, InBox
<1>4. ASSUME adapter' = adapter, Typed, Timed PROVE ShapeInv'
  <2>1. LastBox' = LastBox /\ Feeds' = Feeds
    BY <1>4, AdapterStays
  <2>2. run'.st \in {"idle", "read", "hand", "ended", "failed", "dropped"}
    BY <1>4 DEF Run
  <2>3. TypeOK'
    BY <1>4, <2>1, <2>2 DEF TypeOK
  <2>4. (run \in Run)'
    BY <1>4 DEF Run, Item
  <2> QED
    BY <1>4, <2>1, <2>3, <2>4 DEF ShapeInv
<1>5. ASSUME NEW f \in Files, Put(f) \/ Remove(f) PROVE ShapeInv'
  <2>1. /\ UNCHANGED <<adapter, run, token, handed, got, cut>>
        /\ clock' \in 0 .. MaxClock /\ clock <= clock' /\ at' \in [Files -> 0 .. MaxClock]
        /\ \A g \in Files : at'[g] <= clock'
        /\ held' = IF Running THEN {g \in held : Steady(g)} ELSE held
    BY <1>5, Turning
  <2>2. held' \subseteq Files
    BY <1>1, <2>1
  <2>3. Typed
    BY <1>1, <2>1, <2>2
  <2>4. /\ \A i \in run.page : i.at \in Nat
        /\ run.pos \in Nat /\ clock \in Nat /\ clock' \in Nat /\ token \in Nat
    BY <1>1, <1>3, <2>1 DEF Run, Item
  <2>5. Timed
    BY <1>2, <2>1, <2>4
  <2> QED
    BY <1>4, <2>1, <2>3, <2>5
<1>6. ASSUME NEW mode, Begin(mode) PROVE ShapeInv'
  <2>1. /\ UNCHANGED <<adapter, clock, at, token, handed>>
        /\ got' = {} /\ cut' = {}
        /\ run' \in Run /\ run'.box = 1 /\ run'.page = {} /\ run'.tries = 0
        /\ run'.changes => Feeds
        /\ run'.pos = (IF run'.changes THEN token ELSE 0)
        /\ held' \subseteq Present
    BY <1>6, Beginning
  <2>2. Typed
    BY <1>1, <1>3, <2>1
  <2>3. Timed
    BY <1>2, <2>1
  <2> QED
    BY <1>4, <2>1, <2>2, <2>3
<1>7. ASSUME Read PROVE ShapeInv'
  <2>1. /\ run' \in Run /\ run'.changes = run.changes
        /\ run'.box = run.box /\ run'.tries = 0
        /\ run'.page = run.page \cup Found
        /\ run'.pos \in Furthest({Place(f) : f \in NextPage} \cup {run.pos})
        /\ UNCHANGED <<adapter, clock, at, token, handed, got, cut, held>>
    BY <1>7, Reading
  <2>2. Typed
    BY <1>1, <2>1
  <2>3. \A i \in run'.page : i.at <= clock
    BY <1>2, <2>1, FoundFacts
  <2>4. run.changes => run'.pos <= clock
    BY <1>2, <1>3, <2>1, Marks DEF Furthest
  <2>5. Timed
    BY <1>2, <2>1, <2>3, <2>4
  <2> QED
    BY <1>4, <2>1, <2>2, <2>5
<1>8. ASSUME RateLimited PROVE ShapeInv'
  <2>1. /\ run' \in Run /\ run'.changes = run.changes
        /\ run'.box = run.box /\ run'.pos = run.pos /\ run'.tries < 3
        /\ run'.page = run.page \/ run'.page = {}
        /\ UNCHANGED <<adapter, clock, at, token, handed, got, cut, held>>
    BY <1>8, Waiting
  <2>2. Typed /\ Timed
    BY <1>1, <1>2, <2>1
  <2> QED
    BY <1>4, <2>1, <2>2
<1>9. ASSUME PageFails PROVE ShapeInv'
  <2>1. /\ UNCHANGED <<adapter, clock, at, token, handed, got, held>>
        /\ run' \in Run /\ run'.changes = run.changes
        /\ run'.page = {} /\ run'.tries < 3 /\ run'.box \in 1 .. LastBox
        /\ cut' \in {cut, cut \cup InBox(run.box), cut \cup NextPage}
        /\ adapter.skips = "raise" => run'.pos = run.pos
    BY <1>3, <1>9, Failing
  <2>2. cut' \subseteq Files
    BY <1>1, <1>3, <2>1 DEF InBox
  <2>3. Typed
    BY <1>1, <2>1, <2>2
  <2>4. Timed
    BY <1>2, <1>3, <2>1
  <2> QED
    BY <1>4, <2>1, <2>3, <2>4
<1>10. ASSUME Yield PROVE ShapeInv'
  <2>1. /\ UNCHANGED <<adapter, clock, at, cut, held>> /\ HandOn(run.page)
        /\ run' \in Run /\ run'.changes = run.changes
        /\ run'.page = {} /\ run'.tries = run.tries /\ run'.box \in 1 .. LastBox
        /\ run'.pos = run.pos \/ run'.pos = 0
        /\ token' \in IF run'.st = "ended" /\ run.changes THEN NewTokens ELSE {token}
    BY <1>10, Yielding
  <2>2. got' \subseteq Files /\ handed' \in [Files -> 0 .. MaxClock]
    BY <2>1, Handing
  <2>3. token' \in 0 .. MaxClock /\ token' <= clock
    <3>1. CASE token' = token
      BY <1>1, <1>2, <3>1
    <3>2. CASE run.changes /\ token' \in NewTokens
      BY <3>2, MarksLeft
    <3> QED
      BY <2>1, <3>1, <3>2
  <2>4. Typed
    BY <1>1, <2>1, <2>2, <2>3
  <2>5. 0 <= clock
    BY <1>1, <1>3
  <2>6. Timed
    BY <1>2, <2>1, <2>3, <2>5
  <2> QED
    BY <1>4, <2>1, <2>4, <2>6
<1>11. ASSUME Drop PROVE ShapeInv'
  <2>1. /\ UNCHANGED <<adapter, clock, at, token, cut, held>>
        /\ run' \in Run /\ run'.changes = run.changes
        /\ run'.page = {} /\ run'.tries = run.tries /\ run'.box = run.box
        /\ run'.pos = run.pos
    BY <1>11, Dropping
  <2>2. PICK items \in SUBSET run.page : HandOn(items)
    BY <1>11, Dropping
  <2>3. got' \subseteq Files /\ handed' \in [Files -> 0 .. MaxClock]
    BY <2>2, Handing
  <2>4. Typed /\ Timed
    BY <1>1, <1>2, <2>1, <2>3
  <2> QED
    BY <1>4, <2>1, <2>4
<1>12. ASSUME UNCHANGED vars PROVE ShapeInv'
  <2>1. UNCHANGED <<adapter, clock, at, run, token, handed, got, cut, held>>
    BY <1>12 DEF vars, source
  <2>2. Typed /\ Timed
    BY <1>1, <1>2, <2>1
  <2> QED
    BY <1>4, <2>1, <2>2
<1> QED
  BY <1>5, <1>6, <1>7, <1>8, <1>9, <1>10, <1>11, <1>12 DEF Next, Step

LEMMA Shape == ASSUME Adapters \subseteq Shipped PROVE Spec => []ShapeInv
<1>1. Init => ShapeInv
  BY ShapeInvInit
<1>2. ShapeInv /\ [Next]_vars => ShapeInv'
  BY ShapeInvNext
<1> QED
  BY <1>1, <1>2, PTL DEF Spec

\* A listing keeps its shape, and the token stays a mark, whatever the source, its
\* errors and the consumer do, for each adapter of the connectors directory.
THEOREM ListingTypeCorrect == ASSUME Adapters \subseteq Shipped PROVE Spec => []TypeOK
<1>1. ShapeInv => TypeOK
  BY DEF ShapeInv
<1> QED
  BY <1>1, Shape, PTL

-----------------------------------------------------------------------------
(* What a listing must find *)

Fits(f) == Cardinality({g \in InBox(BoxOf(f)) : g <= f}) <= PageSize
Paged(f) == \E i \in run.page : i.f = f
\* It lies where the walk has still to come.
Still(f) == \/ BoxOf(f) > run.box
            \/ BoxOf(f) = run.box /\ Place(f) > run.pos /\ ~(run.st = "hand" /\ run.last)

\* A file the listing must find is there, and is handed on or given up already, in the
\* page, or still to come.
WalkInv ==
  /\ run.st = "read" /\ ~adapter.collects => run.page = {}
  /\ Running => \A f \in held :
       /\ f \in Present /\ Wanted(f) /\ (adapter.paging = "first" => Fits(f))
       /\ f \in got \cup cut \/ Paged(f) \/ Still(f)
  /\ Complete

LEMMA SameFits ==
  ASSUME adapter' = adapter, at' = at
  PROVE  \A f : Fits(f)' = Fits(f)
<1>1. /\ \A f : BoxOf(f)' = BoxOf(f)
      /\ \A b : InBox(b)' = InBox(b)
  BY SameSource
<1> QED
  BY <1>1 DEF Fits

\* A first page is one of names, and never of changes.
LEMMA FirstPages ==
  ASSUME Adapters \subseteq Shipped, ShapeInv, adapter.paging = "first"
  PROVE  Paging = "first"
<1>1. adapter.feed = "full"
  BY Ways, AdapterFacts
<1>2. ~run.changes
  BY <1>1 DEF ShapeInv, Feeds
<1> QED
  BY <1>2 DEF Paging

\* A file that stays and keeps its promise does not fall behind the walk.
LEMMA NotBack ==
  ASSUME Adapters \subseteq Shipped, ShapeInv, NEW g \in Files, Put(g) \/ Remove(g),
         NEW f \in Present, Steady(f)
  PROVE  /\ f \in Present' /\ Paging' = Paging /\ BoxOf(f)' = BoxOf(f)
         /\ Place(f)' >= Place(f) /\ Place(f)' \in Int
<1>1. /\ UNCHANGED <<adapter, run>> /\ clock' \in 0 .. MaxClock
      /\ at'[f] = at[f] \/ at'[f] = 0 \/ at'[f] > clock
      /\ at' \in [Files -> 0 .. MaxClock] /\ f \in Files
  BY Turning DEF Present
<1>2. Paging' = Paging
  BY <1>1 DEF Paging
<1>3. at'[f] # 0 /\ f \in Present'
  BY <1>1 DEF Steady, Present
<1>4. BoxOf(f)' = BoxOf(f)
  BY <1>1, AdapterStays
<1>5. Place(f)' >= Place(f) /\ Place(f)' \in Int
  <2>1. at[f] <= clock /\ at[f] \in Nat /\ at'[f] \in Nat /\ clock \in Nat /\ MaxClock \in Nat
    BY <1>1, ListingAssumption DEF ShapeInv, TypeOK
  <2>2. f \in Nat
    BY <1>1, ListingAssumption, FS_CardinalityType
  <2>3. CASE Paging \in {"key", "first", "once"}
    <3>1. Place(f) = f /\ Place(f)' = f
      BY <1>2, <2>3 DEF Place
    <3> QED
      BY <2>2, <3>1
  <2>4. CASE Paging \in {"delta", "rows"}
    <3>1. Place(f) = at[f] /\ Place(f)' = at'[f]
      BY <1>2, <2>4 DEF Place
    <3> QED
      BY <1>1, <1>3, <2>1, <3>1
  <2>5. CASE Paging = "recent"
    <3>1. Place(f) = MaxClock + 1 - at[f] /\ Place(f)' = MaxClock + 1 - at'[f]
      BY <1>2, <2>5 DEF Place
    <3>2. at'[f] = at[f]
      BY <2>5 DEF Steady
    <3> QED
      BY <2>1, <3>1, <3>2
  <2>6. CASE Paging = "offset"
    <3> DEFINE S == {g1 \in InBox(BoxOf(f)) : g1 <= f}
    <3>1. S' \subseteq Files
      BY DEF InBox, Present
    <3>2. Place(f)' = Cardinality(S')
      BY <1>2, <2>6 DEF Place
    <3>3. Cardinality(S') \in Nat
      BY <3>1, Counts
    <3> HIDE DEF S
    <3> QED
      BY <2>6, <3>2, <3>3 DEF Steady
  <2> QED
    BY <2>3, <2>4, <2>5, <2>6, Ways DEF Modes
<1> QED
  BY <1>2, <1>3, <1>4, <1>5

\* Every file of the next container lies before its first page.
LEMMA NextBox ==
  ASSUME Adapters \subseteq Shipped, ShapeInv, adapter' = adapter, at' = at,
         run'.changes = run.changes, run'.box = run.box + 1, run'.pos = 0, run'.st = "read",
         NEW f \in Present, BoxOf(f) > run.box
  PROVE  Still(f)'
<1>1. Place(f)' = Place(f) /\ BoxOf(f)' = BoxOf(f)
  BY SamePlaces, SameSource
<1>2. Place(f) \in Nat \ {0}
  BY Places
<1>3. BoxOf(f) \in Nat /\ run.box \in Nat
  BY Ways DEF ShapeInv, TypeOK, Run, Present
<1>4. BoxOf(f)' > run'.box \/ BoxOf(f)' = run'.box
  BY <1>1, <1>3
<1>5. Place(f)' > run'.pos
  BY <1>1, <1>2
<1> QED
  BY <1>4, <1>5 DEF Still

\* Nothing lies in the containers after the last.
LEMMA NoMore ==
  ASSUME Adapters \subseteq Shipped, ShapeInv, NEW f \in Present, run.box = LastBox
  PROVE  ~(BoxOf(f) > run.box)
<1>1. f \in Files /\ LastBox \in Nat \ {0}
  BY Ways DEF Present
<1>2. BoxOf(f) \in 1 .. LastBox
  BY <1>1, Ways
<1> QED
  BY <1>1, <1>2

\* A first page holds what it promises.
LEMMA FirstPage ==
  ASSUME Adapters \subseteq Shipped, ShapeInv, NEW f \in Ahead, Paging = "first", Fits(f)
  PROVE  f \in NextPage
<1> DEFINE S == {g \in InBox(BoxOf(f)) : g <= f}
           T == {g \in Ahead : Place(g) <= Place(f)}
<1>1. T \subseteq S
  BY DEF Place, Ahead, InBox
<1>2. S \subseteq Files
  BY DEF InBox, Present
<1>3. Cardinality(T) <= Cardinality(S) /\ Cardinality(T) \in Nat /\ Cardinality(S) \in Nat
  BY <1>1, <1>2, Counts
<1>4. Cardinality(S) <= PageSize /\ PageSize \in Nat
  BY ListingAssumption DEF Fits
<1>5. Cardinality(T) <= PageSize
  <2> HIDE DEF S, T
  <2> QED
    BY <1>3, <1>4
<1> QED
  BY <1>5 DEF NextPage

\* What is still owed to the listing of a file.
Owed(f) == f \in got \cup cut \/ Paged(f) \/ Still(f)
Due(f) == f \in Present /\ Wanted(f) /\ (adapter.paging = "first" => Fits(f))

LEMMA SameDue ==
  ASSUME adapter' = adapter, at' = at
  PROVE  \A f : Due(f)' = Due(f)
<1>1. Present' = Present /\ \A f : Wanted(f)' = Wanted(f) /\ Fits(f)' = Fits(f)
  BY SameSource, SameFits
<1> QED
  BY <1>1 DEF Due

LEMMA WalkInvBegin == ASSUME Adapters \subseteq Shipped, ShapeInv, NEW mode, Begin(mode) PROVE WalkInv'
<1>1. /\ UNCHANGED <<adapter, clock, at, token, handed>>
      /\ run' \in Run /\ run'.st \in {"failed", "read"} /\ run'.box = 1 /\ run'.page = {}
      /\ run'.changes => Feeds /\ (adapter.feed = "delta" => token # 0)
      /\ run'.pos = (IF run'.changes THEN token ELSE 0)
      /\ held' \subseteq Present
      /\ \A f \in held' :
           /\ Wanted(f) /\ (run'.changes => at[f] > token)
           /\ adapter.paging = "first" =>
                Cardinality({g \in InBox(BoxOf(f)) : g <= f}) <= PageSize
  BY Beginning
<1>2. ASSUME NEW f \in held' PROVE Due(f)' /\ Still(f)'
  <2>1. f \in Present /\ f \in Files
    BY <1>1 DEF Present
  <2>2. Due(f)'
    BY <1>1, <2>1, SameDue DEF Due, Fits
  <2>3. BoxOf(f)' = BoxOf(f) /\ BoxOf(f) \in 1 .. LastBox /\ LastBox \in Nat
    BY <1>1, <2>1, Ways, SameSource
  <2>4. BoxOf(f)' > run'.box \/ BoxOf(f)' = run'.box
    BY <1>1, <2>3
  <2>5. Place(f)' > run'.pos
    <3>1. CASE run'.changes
      <4>1. Paging' \in {"rows", "delta"}
        BY <3>1 DEF Paging
      <4>2. Place(f)' = at[f]
        BY <1>1, <4>1 DEF Place
      <4> QED
        BY <1>1, <3>1, <4>2
    <3>2. CASE ~run'.changes
      <4>1. Paging' = adapter.paging /\ adapter.paging \in Modes \ {"rows"}
        BY <1>1, <3>2, Ways, AdapterFacts DEF Paging
      <4>2. Place(f)' = PlaceBy(Paging', f)
        BY <1>1, SamePlaceBy
      <4>3. Place(f)' \in Nat \ {0}
        BY <2>1, <4>1, <4>2, PlacesBy
      <4> QED
        BY <1>1, <3>2, <4>3
    <3> QED
      BY <3>1, <3>2
  <2> QED
    BY <1>1, <2>2, <2>4, <2>5 DEF Still
<1> QED
  BY <1>1, <1>2 DEF WalkInv, Complete, Due

LEMMA WalkInvTurn ==
  ASSUME Adapters \subseteq Shipped, ShapeInv, WalkInv, NEW g \in Files, Put(g) \/ Remove(g)
  PROVE  WalkInv'
<1>1. /\ UNCHANGED <<adapter, run, token, handed, got, cut>>
      /\ held' = IF Running THEN {f \in held : Steady(f)} ELSE held
  BY Turning
<1>2. Running' = Running
  BY <1>1 DEF Running
<1>3. ASSUME Running, NEW f \in held' PROVE Due(f)' /\ Owed(f)'
  <2>1. f \in held /\ Steady(f)
    BY <1>1, <1>3
  <2>2. Due(f) /\ Owed(f)
    BY <1>3, <2>1 DEF WalkInv, Due, Owed
  <2>3. /\ f \in Present' /\ Paging' = Paging /\ BoxOf(f)' = BoxOf(f)
        /\ Place(f)' >= Place(f) /\ Place(f)' \in Int
    BY <2>1, <2>2, NotBack DEF Due
  <2>4. Wanted(f)' = Wanted(f)
    BY <1>1, AdapterStays
  <2>5. adapter'.paging = "first" => Fits(f)'
    BY <1>1, <2>1, <2>3, FirstPages DEF Steady, Fits
  <2>6. Still(f) => Still(f)'
    <3>1. Place(f) \in Nat /\ run.pos \in Nat
      BY <2>2, Places DEF Due, ShapeInv, Run
    <3>2. Place(f) > run.pos => Place(f)' > run'.pos
      BY <1>1, <2>3, <3>1
    <3> QED
      BY <1>1, <2>3, <3>2 DEF Still
  <2>7. Paged(f)' = Paged(f)
    BY <1>1 DEF Paged
  <2> QED
    BY <1>1, <2>2, <2>3, <2>4, <2>5, <2>6, <2>7 DEF Due, Owed
<1>4. run'.st = "read" /\ ~adapter'.collects => run'.page = {}
  BY <1>1 DEF WalkInv
<1>5. Complete'
  BY <1>1 DEF WalkInv, Complete
<1> QED
  BY <1>2, <1>3, <1>4, <1>5 DEF WalkInv, Due, Owed

LEMMA WalkInvRead == ASSUME Adapters \subseteq Shipped, ShapeInv, WalkInv, Read PROVE WalkInv'
<1>1. /\ run' \in Run /\ run'.changes = run.changes
      /\ run'.box = run.box /\ run'.page = run.page \cup Found
      /\ run'.pos \in Furthest({Place(f) : f \in NextPage} \cup {run.pos})
      /\ run'.last = (Paging = "first" \/ NextPage = Ahead)
      /\ run.st = "read"
      /\ run'.st = "hand" \/ (run'.st = "read" /\ adapter.collects /\ ~run'.last)
      /\ UNCHANGED <<adapter, clock, at, token, handed, got, cut, held>>
  BY Reading
<1>2. ASSUME NEW f \in held' PROVE Due(f)' /\ Owed(f)'
  <2>1. Due(f) /\ Owed(f)
    BY <1>1, <1>2 DEF WalkInv, Due, Owed, Running
  <2>2. Due(f)'
    BY <1>1, <2>1, SameDue
  <2>3. CASE f \in got \cup cut
    BY <1>1, <2>2, <2>3 DEF Owed
  <2>4. CASE Paged(f)
    BY <1>1, <2>2, <2>4 DEF Owed, Paged
  <2>5. CASE Still(f)
    <3>1. BoxOf(f)' = BoxOf(f) /\ Place(f)' = Place(f)
      BY <1>1, SameSource, SamePlaces
    <3>2. CASE BoxOf(f) > run.box
      BY <1>1, <2>2, <3>1, <3>2 DEF Owed, Still
    <3>3. CASE BoxOf(f) = run.box /\ Place(f) > run.pos
      <4>1. f \in Ahead
        BY <2>1, <3>3 DEF Ahead, InBox, Due
      <4>2. CASE f \in NextPage
        <5>1. [f |-> f, at |-> at[f]] \in Found
          BY <2>1, <4>2, FoundFacts DEF Due
        <5>2. Paged(f)'
          BY <1>1, <5>1 DEF Paged
        <5> QED
          BY <2>2, <5>2 DEF Owed
      <4>3. CASE f \notin NextPage
        <5>1. run'.pos < Place(f)
          BY <1>1, <4>1, <4>3, PageEnd
        <5>2. NextPage # Ahead
          BY <4>1, <4>3
        <5>3. Paging # "first"
          BY <2>1, <4>1, <4>3, Ways, FirstPage DEF Due
        <5>4. run'.last = FALSE
          BY <1>1, <5>2, <5>3
        <5>5. Place(f) \in Nat /\ run'.pos \in Nat
          BY <1>1, <2>1, Places DEF Due, Run
        <5>6. Place(f)' > run'.pos
          BY <3>1, <5>1, <5>5
        <5>7. Still(f)'
          BY <1>1, <3>1, <3>3, <5>4, <5>6 DEF Still
        <5> QED
          BY <2>2, <5>7 DEF Owed
      <4> QED
        BY <4>2, <4>3
    <3> QED
      BY <2>5, <3>2, <3>3 DEF Still
  <2> QED
    BY <2>1, <2>3, <2>4, <2>5 DEF Owed
<1> QED
  BY <1>1, <1>2 DEF WalkInv, Complete, Due, Owed

LEMMA WalkInvWait == ASSUME Adapters \subseteq Shipped, ShapeInv, WalkInv, RateLimited PROVE WalkInv'
<1>1. /\ run'.changes = run.changes /\ run'.box = run.box /\ run'.pos = run.pos
      /\ run.st = "read"
      /\ \/ run'.st = "read" /\ run'.page = run.page
         \/ run'.st = "failed" /\ run'.page = {}
      /\ UNCHANGED <<adapter, clock, at, token, handed, got, cut, held>>
  BY Waiting
<1>2. CASE run'.st = "failed"
  BY <1>1, <1>2 DEF WalkInv, Complete, Running
<1>3. CASE run'.st = "read" /\ run'.page = run.page
  <2>1. ASSUME NEW f \in held' PROVE Due(f)' /\ Owed(f)'
    <3>1. Due(f) /\ Owed(f)
      BY <1>1, <2>1 DEF WalkInv, Due, Owed, Running
    <3>2. Due(f)'
      BY <1>1, <3>1, SameDue
    <3>3. BoxOf(f)' = BoxOf(f) /\ Place(f)' = Place(f)
      BY <1>1, SameSource, SamePlaces
    <3>4. Still(f) => Still(f)'
      BY <1>1, <1>3, <3>3 DEF Still
    <3>5. Paged(f)' = Paged(f)
      BY <1>3 DEF Paged
    <3> QED
      BY <1>1, <3>1, <3>2, <3>4, <3>5 DEF Owed
  <2>2. run'.st = "read" /\ ~adapter'.collects => run'.page = {}
    BY <1>1, <1>3 DEF WalkInv
  <2>3. Complete'
    BY <1>3 DEF Complete
  <2> QED
    BY <2>1, <2>2, <2>3 DEF WalkInv, Due, Owed
<1> QED
  BY <1>1, <1>2, <1>3

\* What the walk leaves behind when a page or a container is done with.
LEMMA Leaving ==
  ASSUME Adapters \subseteq Shipped, ShapeInv, NEW f \in Present, Still(f),
         adapter' = adapter, at' = at, run'.changes = run.changes,
         NEW behind,
         BoxOf(f) = run.box => f \in behind,
         \/ run.box < LastBox /\ run'.st = "read" /\ run'.box = run.box + 1 /\ run'.pos = 0
         \/ run.box = LastBox /\ run'.st = "ended"
  PROVE  f \in behind \/ (Still(f)' /\ run'.st = "read")
<1>1. CASE BoxOf(f) = run.box
  BY <1>1
<1>2. CASE BoxOf(f) > run.box
  BY <1>2, NextBox, NoMore
<1> QED
  BY <1>1, <1>2 DEF Still

LEMMA WalkInvFail == ASSUME Adapters \subseteq Shipped, ShapeInv, WalkInv, PageFails PROVE WalkInv'
<1>1. /\ run.st = "read" /\ UNCHANGED <<adapter, clock, at, token, handed, got, held>>
      /\ run' \in Run /\ run'.changes = run.changes /\ run'.page = {}
  BY Failing
<1>2. CASE adapter.skips = "raise"
  <2>1. run'.st = "failed"
    BY <1>2, Failing
  <2> QED
    BY <1>1, <2>1 DEF WalkInv, Complete, Running
<1>3. CASE adapter.skips \in {"box", "page"}
  <2>1. ~adapter.collects
    BY <1>3, Ways, AdapterFacts
  <2>2. run.page = {}
    BY <1>1, <2>1 DEF WalkInv
  <2>3. ASSUME NEW f \in held' PROVE Due(f)' /\ (f \in got' \cup cut' \/ (Still(f)' /\ run'.st = "read"))
    <3>1. Due(f) /\ Owed(f)
      BY <1>1, <2>3 DEF WalkInv, Due, Owed, Running
    <3>2. Due(f)'
      BY <1>1, <3>1, SameDue
    <3>3. f \in got \cup cut \/ Still(f)
      BY <2>2, <3>1 DEF Owed, Paged
    <3>4. cut \subseteq cut'
      BY <1>3, Failing
    <3>5. CASE Still(f) /\ adapter.skips = "box"
      <4>1. cut' = cut \cup InBox(run.box)
        BY <3>5, Failing
      <4>2. \/ run.box < LastBox /\ run'.st = "read" /\ run'.box = run.box + 1 /\ run'.pos = 0
            \/ run.box = LastBox /\ run'.st = "ended"
        BY <3>5, Failing
      <4>3. BoxOf(f) = run.box => f \in InBox(run.box)
        BY <3>1 DEF InBox, Due
      <4>4. f \in Present
        BY <3>1 DEF Due
      <4>5. f \in InBox(run.box) \/ (Still(f)' /\ run'.st = "read")
        BY <1>1, <3>5, <4>2, <4>3, <4>4, Leaving
      <4> QED
        BY <3>2, <4>1, <4>5
    <3>6. CASE Still(f) /\ adapter.skips = "page"
      <4>1. cut' = cut \cup NextPage
        BY <3>6, Failing
      <4>2. f \in Present
        BY <3>1 DEF Due
      <4>3. BoxOf(f) = run.box => f \in Ahead
        <5>1. BoxOf(f) \in Nat /\ run.box \in Nat
          BY <4>2, Ways DEF ShapeInv, TypeOK, Run, Present
        <5>2. BoxOf(f) = run.box => Place(f) > run.pos
          BY <3>6, <5>1 DEF Still
        <5> QED
          BY <4>2, <5>2 DEF Ahead, InBox
      <4>4. CASE /\ run'.st = "read" /\ run'.box = run.box
                 /\ run'.pos \in Furthest({Place(g) : g \in NextPage} \cup {run.pos})
        <5>1. BoxOf(f)' = BoxOf(f) /\ Place(f)' = Place(f)
          BY <1>1, SameSource, SamePlaces
        <5>2. CASE BoxOf(f) > run.box
          BY <3>2, <4>4, <5>1, <5>2 DEF Still
        <5>3. CASE BoxOf(f) = run.box /\ f \in NextPage
          BY <3>2, <4>1, <5>3
        <5>4. CASE BoxOf(f) = run.box /\ f \notin NextPage
          <6>1. run'.pos < Place(f)
            BY <4>3, <4>4, <5>4, PageEnd
          <6>2. Place(f) \in Nat /\ run'.pos \in Nat
            BY <1>1, <4>2, Places DEF Run
          <6>3. Place(f)' > run'.pos
            BY <5>1, <6>1, <6>2
          <6>4. Still(f)'
            BY <4>4, <5>1, <5>4, <6>3 DEF Still
          <6> QED
            BY <3>2, <4>4, <6>4
        <5> QED
          BY <3>6, <5>2, <5>3, <5>4 DEF Still
      <4>5. CASE /\ NextPage = Ahead
                 /\ \/ run.box < LastBox /\ run'.st = "read" /\ run'.box = run.box + 1 /\ run'.pos = 0
                    \/ run.box = LastBox /\ run'.st = "ended"
        <5>1. f \in Ahead \/ (Still(f)' /\ run'.st = "read")
          BY <1>1, <3>6, <4>2, <4>3, <4>5, Leaving
        <5> QED
          BY <3>2, <4>1, <4>5, <5>1
      <4> QED
        BY <3>6, <4>4, <4>5, Failing
    <3> QED
      BY <1>1, <1>3, <3>2, <3>3, <3>4, <3>5, <3>6
  <2>4. run'.st = "read" \/ run'.st = "ended"
    BY <1>3, Failing
  <2> QED
    BY <1>1, <2>3, <2>4 DEF WalkInv, Complete, Running, Due
<1> QED
  BY <1>2, <1>3, Ways, AdapterFacts

LEMMA WalkInvYield == ASSUME Adapters \subseteq Shipped, ShapeInv, WalkInv, Yield PROVE WalkInv'
<1>1. /\ run.st = "hand" /\ UNCHANGED <<adapter, clock, at, cut, held>> /\ HandOn(run.page)
      /\ run' \in Run /\ run'.changes = run.changes /\ run'.page = {}
      /\ \/ ~run.last /\ run'.st = "read" /\ run'.box = run.box /\ run'.pos = run.pos
         \/ run.last /\ run.box < LastBox /\ run'.st = "read" /\ run'.box = run.box + 1 /\ run'.pos = 0
         \/ run.last /\ run.box = LastBox /\ run'.st = "ended" /\ run'.box = run.box /\ run'.pos = run.pos
  BY Yielding
<1>2. got' = got \cup {i.f : i \in run.page}
  BY <1>1, Handing
<1>3. ASSUME NEW f \in held' PROVE Due(f)' /\ (f \in got' \cup cut' \/ (Still(f)' /\ run'.st = "read"))
  <2>1. Due(f) /\ Owed(f)
    BY <1>1, <1>3 DEF WalkInv, Due, Owed, Running
  <2>2. Due(f)' /\ f \in Present
    BY <1>1, <2>1, SameDue DEF Due
  <2>3. CASE f \in got \cup cut \/ Paged(f)
    BY <1>1, <1>2, <2>2, <2>3 DEF Paged
  <2>4. CASE Still(f) /\ ~run.last
    <3>1. run'.st = "read" /\ run'.box = run.box /\ run'.pos = run.pos
      BY <1>1, <2>4
    <3>2. BoxOf(f)' = BoxOf(f) /\ Place(f)' = Place(f)
      BY <1>1, SameSource, SamePlaces
    <3>3. Still(f)'
      BY <2>4, <3>1, <3>2 DEF Still
    <3> QED
      BY <2>2, <3>1, <3>3
  <2>5. CASE Still(f) /\ run.last
    <3>1. BoxOf(f) # run.box
      <4>1. BoxOf(f) \in Nat /\ run.box \in Nat
        BY <2>2, Ways DEF ShapeInv, TypeOK, Run, Present
      <4> QED
        BY <1>1, <2>5, <4>1 DEF Still
    <3>2. \/ run.box < LastBox /\ run'.st = "read" /\ run'.box = run.box + 1 /\ run'.pos = 0
          \/ run.box = LastBox /\ run'.st = "ended"
      BY <1>1, <2>5
    <3>3. f \in {} \/ (Still(f)' /\ run'.st = "read")
      BY <1>1, <2>2, <2>5, <3>1, <3>2, Leaving
    <3> QED
      BY <2>2, <3>3
  <2> QED
    BY <2>1, <2>3, <2>4, <2>5 DEF Owed
<1>4. run'.st = "read" \/ run'.st = "ended"
  BY <1>1
<1> QED
  BY <1>1, <1>3, <1>4 DEF WalkInv, Complete, Running, Due

LEMMA WalkInvNext ==
  ASSUME Adapters \subseteq Shipped, ShapeInv, WalkInv, [Next]_vars PROVE WalkInv'
<1>1. ASSUME Drop PROVE WalkInv'
  <2>1. run'.st = "dropped"
    BY <1>1, Dropping
  <2> QED
    BY <2>1 DEF WalkInv, Complete, Running
<1>2. ASSUME UNCHANGED vars PROVE WalkInv'
  <2>1. UNCHANGED <<adapter, clock, at, run, token, handed, got, cut, held>>
    BY <1>2 DEF vars, source
  <2>2. Running' = Running /\ Complete' = Complete
    BY <2>1 DEF Running, Complete
  <2>3. \A f : Due(f)' = Due(f)
    BY <2>1, SameDue
  <2>4. \A f : BoxOf(f)' = BoxOf(f) /\ Place(f)' = Place(f)
    BY <2>1, SameSource, SamePlaces
  <2>5. \A f : Owed(f)' = Owed(f)
    BY <2>1, <2>4 DEF Owed, Still, Paged
  <2> QED
    BY <2>1, <2>2, <2>3, <2>5 DEF WalkInv, Due, Owed
<1> QED
  BY <1>1, <1>2, WalkInvTurn, WalkInvBegin, WalkInvRead, WalkInvWait, WalkInvFail, WalkInvYield DEF Next, Step

\* A listing that ends without an error has handed on every file its kind of paging
\* promises, but for what it logged as failing: for any number of files and containers,
\* pages of any size, and however often the source changes under it.
THEOREM NothingMissed == ASSUME Adapters \subseteq Shipped PROVE Spec => []Complete
<1>1. Init => WalkInv
  BY DEF Init, Idle, WalkInv, Running, Complete
<1>2. ShapeInv /\ WalkInv /\ [Next]_vars => WalkInv'
  BY WalkInvNext
<1>3. WalkInv => Complete
  BY DEF WalkInv
<1> QED
  BY <1>1, <1>2, <1>3, Shape, PTL DEF Spec

-----------------------------------------------------------------------------
(* What the cursor may leave behind *)

\* A page holds a file once, and as it was when the page was read: as it still is, if it
\* has not been removed or changed since.
Once == \A i, j \in run.page : i.f = j.f => i = j
Fresh(mark) == \A i \in run.page : at[i.f] \in {0, i.at} \/ at[i.f] > mark
\* All that was last changed at or before the mark has been handed on, or is in the page.
Safe(mark) == \A f \in Present :
                Wanted(f) /\ at[f] <= mark => handed[f] = at[f] \/ [f |-> f, at |-> at[f]] \in run.page

CursorInv ==
  /\ ~Feeds => token = 0
  /\ MarkSafe
  /\ Feeds => Once
  /\ Fresh(token)
  /\ run.changes /\ Running =>
       /\ token <= run.pos
       /\ \A i \in run.page : i.at <= run.pos
       /\ Fresh(run.pos) /\ Safe(run.pos)

\* Handing on a part of a page leaves no file behind that had been handed on as it is.
LEMMA StillHanded ==
  ASSUME ShapeInv, Feeds, Once, NEW items \in SUBSET run.page, HandOn(items),
         NEW mark \in Nat, Fresh(mark), NEW f \in Present, at[f] <= mark,
         handed[f] = at[f] \/ [f |-> f, at |-> at[f]] \in items
  PROVE  handed'[f] = at[f]
<1>1. f \in Files /\ at[f] # 0 /\ at[f] \in Nat
  BY DEF Present, ShapeInv, TypeOK
<1>2. CASE handed'[f] = handed[f] /\ ~\E i \in items : i.f = f
  <2>1. [f |-> f, at |-> at[f]] \notin items
    BY <1>2
  <2> QED
    BY <1>2, <2>1
<1>3. CASE \E i \in items : i.f = f /\ handed'[f] = i.at
  <2>1. PICK i \in items : i.f = f /\ handed'[f] = i.at
    BY <1>3
  <2>2. at[f] \in {0, i.at} \/ at[f] > mark
    BY <2>1 DEF Fresh
  <2>3. at[f] = i.at
    BY <1>1, <2>2
  <2> QED
    BY <2>1, <2>3
<1> QED
  BY <1>1, <1>2, <1>3, Handing

\* The consumer takes some of a page, and the token stays.
LEMMA SomeHanded ==
  ASSUME ShapeInv, CursorInv, UNCHANGED <<adapter, clock, at, token>>,
         NEW items \in SUBSET run.page, HandOn(items)
  PROVE  MarkSafe'
<1>1. Present' = Present /\ \A f : Wanted(f)' = Wanted(f)
  BY SameSource
<1>2. SUFFICES ASSUME NEW f \in Present, Wanted(f), token # 0, at[f] <= token
               PROVE  handed'[f] = at[f]
  BY <1>1 DEF MarkSafe
<1>3. Feeds /\ Once /\ Fresh(token) /\ token \in Nat
  BY <1>2 DEF CursorInv, ShapeInv, TypeOK
<1>4. handed[f] = at[f]
  BY <1>2 DEF CursorInv, MarkSafe
<1> QED
  BY <1>2, <1>3, <1>4, StillHanded

LEMMA CursorInvInit == ASSUME Init PROVE CursorInv
<1>1. run.page = {} /\ ~Running
  BY DEF Init, Idle, Running
<1>2. ~Feeds => token = 0
  BY DEF Init, Feeds
<1>3. MarkSafe
  <2>1. SUFFICES ASSUME NEW f \in Present, token # 0 PROVE handed[f] = at[f]
    BY DEF MarkSafe
  <2>2. f \in Files
    BY DEF Present
  <2> QED
    BY <2>1, <2>2 DEF Init
<1> QED
  BY <1>1, <1>2, <1>3 DEF CursorInv, Once, Fresh

LEMMA CursorInvTurn ==
  ASSUME ShapeInv, CursorInv, NEW g \in Files, Put(g) \/ Remove(g)
  PROVE  CursorInv'
<1>1. /\ UNCHANGED <<adapter, run, token, handed, got, cut>>
      /\ \A f \in Files : at'[f] = at[f] \/ at'[f] = 0 \/ at'[f] > clock
      /\ at' \in [Files -> 0 .. MaxClock]
  BY Turning
<1>2. /\ Feeds' = Feeds /\ Running' = Running /\ Once' = Once
      /\ \A f : Wanted(f)' = Wanted(f)
  BY <1>1, AdapterStays DEF Running, Once
<1>3. /\ token \in Nat /\ token <= clock /\ clock \in Nat /\ run.pos \in Nat
      /\ run.changes => run.pos <= clock
      /\ run.page \subseteq Item /\ MaxClock \in Nat
  BY ListingAssumption DEF ShapeInv, TypeOK, Run
<1>4. ASSUME NEW mark \in Nat, mark <= clock, Fresh(mark) PROVE Fresh(mark)'
  <2>1. SUFFICES ASSUME NEW i \in run.page PROVE at'[i.f] \in {0, i.at} \/ at'[i.f] > mark
    BY <1>1 DEF Fresh
  <2>2. i.f \in Files
    BY <1>3, <2>1 DEF Item
  <2>3. at[i.f] \in {0, i.at} \/ at[i.f] > mark
    BY <1>4, <2>1 DEF Fresh
  <2>4. at'[i.f] = at[i.f] \/ at'[i.f] = 0 \/ (at'[i.f] > clock /\ at'[i.f] \in Nat)
    BY <1>1, <1>3, <2>2
  <2> QED
    BY <1>3, <1>4, <2>3, <2>4
<1>5. ASSUME NEW mark \in Nat, mark <= clock, NEW f \in Present', at'[f] <= mark
      PROVE  f \in Present /\ at'[f] = at[f]
  <2>1. f \in Files /\ at'[f] # 0
    BY <1>5 DEF Present
  <2>2. at'[f] = at[f] \/ (at'[f] > clock /\ at'[f] \in Nat)
    BY <1>1, <1>3, <2>1
  <2>3. at'[f] = at[f]
    BY <1>3, <1>5, <2>2
  <2> QED
    BY <2>1, <2>3 DEF Present
<1>6. MarkSafe'
  <2>1. SUFFICES ASSUME NEW f \in Present', Wanted(f), token # 0, at'[f] <= token
                 PROVE  handed[f] = at'[f]
    BY <1>1, <1>2 DEF MarkSafe
  <2>2. f \in Present /\ at'[f] = at[f]
    BY <1>3, <1>5, <2>1
  <2> QED
    BY <2>1, <2>2 DEF CursorInv, MarkSafe
<1>7. ASSUME run.changes, Safe(run.pos) PROVE Safe(run.pos)'
  <2>1. SUFFICES ASSUME NEW f \in Present', Wanted(f), at'[f] <= run.pos
                 PROVE  handed[f] = at'[f] \/ [f |-> f, at |-> at'[f]] \in run.page
    BY <1>1, <1>2 DEF Safe
  <2>2. f \in Present /\ at'[f] = at[f]
    BY <1>3, <1>5, <1>7, <2>1
  <2> QED
    BY <1>7, <2>1, <2>2 DEF Safe
<1>8. Fresh(token)'
  BY <1>1, <1>3, <1>4 DEF CursorInv
<1>9. run.changes /\ Running => (token <= run.pos)' /\ (\A i \in run.page : i.at <= run.pos)'
  BY <1>1 DEF CursorInv
<1>10. run.changes /\ Running => Fresh(run.pos)' /\ Safe(run.pos)'
  BY <1>1, <1>3, <1>4, <1>7 DEF CursorInv
<1> QED
  BY <1>1, <1>2, <1>6, <1>8, <1>9, <1>10 DEF CursorInv

LEMMA CursorInvBegin == ASSUME ShapeInv, CursorInv, NEW mode, Begin(mode) PROVE CursorInv'
<1>1. /\ UNCHANGED <<adapter, clock, at, token, handed>>
      /\ run' \in Run /\ run'.page = {}
      /\ run'.pos = (IF run'.changes THEN token ELSE 0)
  BY Beginning
<1>2. Present' = Present /\ Feeds' = Feeds /\ \A f : Wanted(f)' = Wanted(f)
  BY <1>1, SameSource
<1>3. MarkSafe'
  BY <1>1, <1>2 DEF CursorInv, MarkSafe
<1>4. ASSUME run'.changes PROVE token' <= run'.pos /\ Safe(run.pos)'
  <2>1. run'.pos = token /\ token \in Nat
    BY <1>1, <1>4 DEF ShapeInv, TypeOK
  <2>2. SUFFICES ASSUME NEW f \in Present, Wanted(f), at[f] <= token PROVE handed[f] = at[f]
    BY <1>1, <1>2, <2>1 DEF Safe
  <2>3. token # 0
    <3>1. at[f] # 0 /\ at[f] \in Nat
      BY <2>2 DEF Present, ShapeInv, TypeOK
    <3> QED
      BY <2>1, <2>2, <3>1
  <2> QED
    BY <2>2, <2>3 DEF CursorInv, MarkSafe
<1>5. Once' /\ (\A mark : Fresh(mark)')
  BY <1>1 DEF Once, Fresh
<1>6. (\A i \in run.page : i.at <= run.pos)' /\ (~Feeds => token = 0)'
  BY <1>1, <1>2 DEF CursorInv
<1> QED
  BY <1>3, <1>4, <1>5, <1>6 DEF CursorInv

\* A listing that has come to its end holds no page.
LEMMA CursorInvStop ==
  ASSUME CursorInv, UNCHANGED <<adapter, clock, at, token>>, MarkSafe',
         run'.page = {}, run'.st \notin {"read", "hand"}
  PROVE  CursorInv'
<1>1. Feeds' = Feeds
  BY SameSource
<1>2. ~Running' /\ Once' /\ Fresh(token)'
  BY DEF Running, Once, Fresh
<1> QED
  BY <1>1, <1>2 DEF CursorInv

LEMMA CursorInvRead == ASSUME Adapters \subseteq Shipped, ShapeInv, WalkInv, CursorInv, Read PROVE CursorInv'
<1>1. /\ run' \in Run /\ run'.changes = run.changes /\ run.st = "read"
      /\ run'.page = run.page \cup Found
      /\ run'.pos \in Furthest({Place(f) : f \in NextPage} \cup {run.pos})
      /\ UNCHANGED <<adapter, clock, at, token, handed, got, cut, held>>
  BY Reading
<1>2. /\ Present' = Present /\ Feeds' = Feeds /\ \A f : Wanted(f)' = Wanted(f)
  BY <1>1, SameSource
<1>3. MarkSafe'
  BY <1>1, <1>2 DEF CursorInv, MarkSafe
<1>4. Fresh(token)'
  BY <1>1, FoundFacts DEF CursorInv, Fresh
<1>5. ASSUME Feeds PROVE run.page = {} /\ run'.page = Found
  <2>1. ~adapter.collects
    BY <1>5, Ways, AdapterFacts DEF Feeds
  <2> QED
    BY <1>1, <2>1 DEF WalkInv
<1>6. Feeds => Once'
  <2>1. \A i, j \in Found : i.f = j.f => i = j
    BY DEF Found
  <2> QED
    BY <1>5, <2>1 DEF Once
<1>7. ASSUME run.changes
      PROVE  /\ token <= run'.pos /\ \A i \in run'.page : i.at <= run'.pos
             /\ Fresh(run.pos)' /\ Safe(run.pos)'
  <2>1. /\ Feeds /\ adapter.flat /\ run.page = {} /\ run'.page = Found
    BY <1>5, <1>7, Ways, AdapterFacts DEF Feeds, ShapeInv
  <2>2. \A f \in Files : Place(f) = at[f] /\ at[f] \in Nat
    BY <1>7, Marks DEF ShapeInv, TypeOK
  <2>3. NextPage \subseteq Present /\ Present \subseteq Files
    BY DEF NextPage, Ahead, InBox, Present
  <2>4. /\ run'.pos \in Nat /\ run.pos <= run'.pos /\ run.pos \in Nat /\ token \in Nat
        /\ \A f \in NextPage : at[f] <= run'.pos
        /\ \A f \in Ahead \ NextPage : run'.pos < at[f]
    BY <1>1, <2>2, <2>3, PageEnd DEF Ahead, InBox, ShapeInv, TypeOK, Run
  <2>5. token <= run'.pos
    <3>1. token <= run.pos
      BY <1>1, <1>7 DEF CursorInv, Running
    <3> QED
      BY <2>4, <3>1
  <2>6. \A i \in Found : i.at <= run'.pos /\ at[i.f] = i.at
    BY <2>4, FoundFacts
  <2>7. Fresh(run.pos)'
    BY <1>1, <2>1, <2>6 DEF Fresh
  <2>8. ASSUME NEW f \in Present, Wanted(f), at[f] <= run'.pos
        PROVE  handed[f] = at[f] \/ [f |-> f, at |-> at[f]] \in Found
    <3>1. CASE at[f] <= run.pos
      BY <1>1, <1>7, <2>1, <2>8, <3>1 DEF CursorInv, Running, Safe
    <3>2. CASE ~(at[f] <= run.pos)
      <4>1. run.box = 1 /\ BoxOf(f) = 1
        BY <2>1 DEF ShapeInv, TypeOK, LastBox, BoxOf
      <4>2. at[f] \in Nat /\ f \in Files
        BY <2>2, <2>3, <2>8
      <4>3. Place(f) > run.pos
        BY <2>2, <2>4, <3>2, <4>2
      <4>4. f \in Ahead
        BY <2>8, <4>1, <4>3 DEF Ahead, InBox
      <4>5. f \in NextPage
        BY <2>4, <2>8, <4>2, <4>4
      <4> QED
        BY <2>8, <4>5, FoundFacts
    <3> QED
      BY <3>1, <3>2
  <2>9. Safe(run.pos)'
    BY <1>1, <1>2, <2>1, <2>8 DEF Safe
  <2> QED
    BY <2>1, <2>5, <2>6, <2>7, <2>9
<1>8. (~Feeds => token = 0)'
  BY <1>1, <1>2 DEF CursorInv
<1> QED
  BY <1>1, <1>2, <1>3, <1>4, <1>6, <1>7, <1>8 DEF CursorInv

LEMMA CursorInvWait == ASSUME Adapters \subseteq Shipped, ShapeInv, CursorInv, RateLimited PROVE CursorInv'
<1>1. /\ run'.changes = run.changes /\ run'.pos = run.pos /\ run.st = "read"
      /\ \/ run'.st = "read" /\ run'.page = run.page
         \/ run'.st = "failed" /\ run'.page = {}
      /\ UNCHANGED <<adapter, clock, at, token, handed, got, cut, held>>
  BY Waiting
<1>2. /\ Present' = Present /\ Feeds' = Feeds /\ \A f : Wanted(f)' = Wanted(f)
  BY <1>1, SameSource
<1>3. MarkSafe'
  BY <1>1, <1>2 DEF CursorInv, MarkSafe
<1>4. CASE run'.st = "failed" /\ run'.page = {}
  BY <1>1, <1>3, <1>4, CursorInvStop
<1>5. CASE run'.st = "read" /\ run'.page = run.page
  <2>1. Once' = Once /\ Fresh(token)' = Fresh(token) /\ Fresh(run.pos)' = Fresh(run.pos)
    BY <1>1, <1>5 DEF Once, Fresh
  <2>2. Safe(run.pos)' = Safe(run.pos)
    BY <1>1, <1>2, <1>5 DEF Safe
  <2> QED
    BY <1>1, <1>2, <1>3, <1>5, <2>1, <2>2 DEF CursorInv, Running
<1> QED
  BY <1>1, <1>4, <1>5

LEMMA CursorInvFail == ASSUME Adapters \subseteq Shipped, ShapeInv, CursorInv, PageFails PROVE CursorInv'
<1>1. /\ UNCHANGED <<adapter, clock, at, token, handed>>
      /\ run'.page = {} /\ run'.changes = run.changes
  BY Failing
<1>2. /\ Present' = Present /\ Feeds' = Feeds /\ \A f : Wanted(f)' = Wanted(f)
  BY <1>1, SameSource
<1>3. MarkSafe'
  BY <1>1, <1>2 DEF CursorInv, MarkSafe
<1>4. CASE Feeds
  <2>1. run'.st = "failed"
    BY <1>4, Failing, Ways, AdapterFacts DEF Feeds
  <2> QED
    BY <1>1, <1>3, <2>1, CursorInvStop
<1>5. CASE ~Feeds
  <2>1. ~run'.changes
    BY <1>1, <1>5 DEF ShapeInv
  <2>2. Fresh(token)'
    BY <1>1 DEF Fresh
  <2> QED
    BY <1>1, <1>2, <1>3, <1>5, <2>1, <2>2 DEF CursorInv
<1> QED
  BY <1>4, <1>5

LEMMA CursorInvDrop == ASSUME ShapeInv, CursorInv, Drop PROVE CursorInv'
<1>1. /\ UNCHANGED <<adapter, clock, at, token>> /\ run'.page = {} /\ run'.st = "dropped"
      /\ \E items \in SUBSET run.page : HandOn(items)
  BY Dropping
<1>2. MarkSafe'
  BY <1>1, SomeHanded
<1> QED
  BY <1>1, <1>2, CursorInvStop

LEMMA CursorInvYield == ASSUME Adapters \subseteq Shipped, ShapeInv, WalkInv, CursorInv, Yield PROVE CursorInv'
<1>1. /\ run.st = "hand" /\ UNCHANGED <<adapter, clock, at, cut, held>> /\ HandOn(run.page)
      /\ run' \in Run /\ run'.changes = run.changes /\ run'.page = {}
      /\ run'.box \in 1 .. LastBox
      /\ token' \in IF run'.st = "ended" /\ run.changes THEN NewTokens ELSE {token}
      /\ \/ ~run.last /\ run'.st = "read" /\ run'.box = run.box /\ run'.pos = run.pos
         \/ run.last /\ run.box < LastBox /\ run'.st = "read" /\ run'.box = run.box + 1 /\ run'.pos = 0
         \/ run.last /\ run.box = LastBox /\ run'.st = "ended" /\ run'.box = run.box /\ run'.pos = run.pos
  BY Yielding
<1>2. /\ Present' = Present /\ Feeds' = Feeds /\ \A f : Wanted(f)' = Wanted(f)
  BY <1>1, SameSource
<1>3. Once' /\ \A mark : Fresh(mark)'
  BY <1>1 DEF Once, Fresh
<1>4. CASE ~run.changes
  <2>1. token' = token
    BY <1>1, <1>4
  <2>2. MarkSafe'
    BY <1>1, <2>1, SomeHanded
  <2> QED
    BY <1>1, <1>2, <1>3, <1>4, <2>1, <2>2 DEF CursorInv
<1>5. CASE run.changes
  <2>1. /\ Feeds /\ LastBox = 1 /\ run.box = 1 /\ run.pos \in Nat /\ token \in Nat
    <3>1. Feeds
      BY <1>5 DEF ShapeInv
    <3>2. LastBox = 1
      BY <3>1, Ways, AdapterFacts DEF Feeds, LastBox
    <3> QED
      BY <3>1, <3>2 DEF ShapeInv, TypeOK, Run
  <2>2. run'.pos = run.pos
    BY <1>1, <2>1
  <2>3. /\ token <= run.pos /\ \A i \in run.page : i.at <= run.pos
        /\ Fresh(run.pos) /\ Safe(run.pos) /\ Once
    BY <1>1, <1>5, <2>1 DEF CursorInv, Running
  <2>4. token' \in Nat /\ token' <= run.pos
    <3>1. CASE token' = token
      BY <2>1, <2>3, <3>1
    <3>2. CASE token' \in NewTokens
      BY <1>5, <2>1, <2>3, <3>2, MarksLeft
    <3> QED
      BY <1>1, <3>1, <3>2
  <2>5. ASSUME NEW f \in Present, Wanted(f), at[f] <= run.pos PROVE handed'[f] = at[f]
    <3>1. handed[f] = at[f] \/ [f |-> f, at |-> at[f]] \in run.page
      BY <2>3, <2>5 DEF Safe
    <3> QED
      BY <1>1, <2>1, <2>3, <2>5, <3>1, StillHanded
  <2>6. MarkSafe'
    <3>1. SUFFICES ASSUME NEW f \in Present, Wanted(f), at[f] <= token'
                   PROVE  handed'[f] = at[f]
      BY <1>1, <1>2 DEF MarkSafe
    <3>2. at[f] \in Nat
      BY <3>1 DEF Present, ShapeInv, TypeOK
    <3> QED
      BY <2>1, <2>4, <2>5, <3>1, <3>2
  <2>7. Safe(run.pos)'
    BY <1>1, <1>2, <2>2, <2>5 DEF Safe
  <2> QED
    BY <1>1, <1>2, <1>3, <2>1, <2>2, <2>4, <2>6, <2>7 DEF CursorInv
<1> QED
  BY <1>4, <1>5

LEMMA CursorInvNext ==
  ASSUME Adapters \subseteq Shipped, ShapeInv, WalkInv, CursorInv, [Next]_vars PROVE CursorInv'
<1>1. ASSUME UNCHANGED vars PROVE CursorInv'
  <2>1. UNCHANGED <<adapter, clock, at, run, token, handed, got, cut, held>>
    BY <1>1 DEF vars, source
  <2>2. /\ Present' = Present /\ Feeds' = Feeds /\ \A f : Wanted(f)' = Wanted(f)
    BY <2>1, SameSource
  <2>3. MarkSafe' = MarkSafe /\ Once' = Once /\ Running' = Running
    BY <2>1, <2>2 DEF MarkSafe, Once, Running
  <2>4. Fresh(token)' = Fresh(token) /\ Fresh(run.pos)' = Fresh(run.pos)
    BY <2>1 DEF Fresh
  <2>5. Safe(run.pos)' = Safe(run.pos)
    BY <2>1, <2>2 DEF Safe
  <2> QED
    BY <2>1, <2>2, <2>3, <2>4, <2>5 DEF CursorInv
<1> QED
  BY <1>1, CursorInvTurn, CursorInvBegin, CursorInvRead, CursorInvWait, CursorInvFail, CursorInvYield, CursorInvDrop
  DEF Next, Step

\* The cursor loses nothing: a file last changed at or before the token has been handed on
\* as it is now, whatever listings ended, failed or were dropped, and in whatever order
\* the marks come as text.
THEOREM CursorSafe == ASSUME Adapters \subseteq Shipped PROVE Spec => []MarkSafe
<1>1. Init => WalkInv /\ CursorInv
  BY CursorInvInit DEF Init, Idle, WalkInv, Running, Complete
<1>2. ShapeInv /\ WalkInv /\ CursorInv /\ [Next]_vars => WalkInv' /\ CursorInv'
  BY WalkInvNext, CursorInvNext
<1>3. CursorInv => MarkSafe
  BY DEF CursorInv
<1> QED
  BY <1>1, <1>2, <1>3, Shape, PTL DEF Spec

-----------------------------------------------------------------------------
(* The merge of Chunker *)

\* The chunk that ended last, when there is one.
Latest == chunks[Len(chunks)]

\* What the chunk under way holds: it fits; while parts are dropped it is what
\* the chunk that ended last held, and later it begins with the overlap of it.
Carried ==
  /\ pc = "segment" => Size <= Limit
  /\ pc = "drop" => chunks # <<>> /\ Latest.to = next - 1 /\ next <= n
  /\ chunks # <<>> /\ pc # "done" =>
       Latest.from <= first /\ first <= Latest.to + 1
  /\ chunks # <<>> /\ pc = "segment" =>
       /\ Latest.to < next - 1
       /\ Tokens(first, Latest.to) <= Overlap

\* The segments taken are in a chunk, or in the one under way.
Placed ==
  \A k \in 1 .. next - 1 :
    \/ \E i \in DOMAIN chunks : k \in chunks[i].from .. chunks[i].to
    \/ pc = "segment" /\ k >= first

\* No segment is left over.
Exhausted == pc = "done" => next = n + 1

\* The inductive invariant.
MInv == MergeTypeOK /\ Bounded /\ Slides /\ Carried /\ Placed /\ Exhausted

-----------------------------------------------------------------------------
(* What appending a chunk does to the properties of the chunks *)

LEMMA Appended ==
  ASSUME NEW S, NEW s \in Seq(S), NEW c \in S
  PROVE  /\ Append(s, c) \in Seq(S)
         /\ Len(Append(s, c)) = Len(s) + 1
         /\ \A i \in DOMAIN s : Append(s, c)[i] = s[i] /\ i \in DOMAIN Append(s, c)
         /\ Append(s, c)[Len(s) + 1] = c
         /\ \A i \in DOMAIN Append(s, c) : i \in DOMAIN s \/ i = Len(s) + 1
         /\ DOMAIN s = 1 .. Len(s) /\ Len(s) \in Nat
         /\ s # <<>> => Len(s) \in DOMAIN s /\ s[Len(s)] \in S
OBVIOUS

-----------------------------------------------------------------------------
(* The invariant *)

LEMMA MInit == MergeInit => MInv
<1> SUFFICES ASSUME MergeInit PROVE MInv
  OBVIOUS
<1> USE ChunkerAssumption, TextsAssumption
<1>1. MergeTypeOK
  BY DEF MergeInit, MergeTypeOK
<1>2. Size = 0
  BY <1>1 DEF MergeInit, Size, Tokens, MergeTypeOK
<1>3. Bounded /\ Slides /\ Placed /\ Exhausted
  BY DEF MergeInit, Bounded, Slides, Placed, Exhausted
<1>4. Carried
  BY <1>2 DEF MergeInit, Carried, Limit
<1> QED
  BY <1>1, <1>3, <1>4 DEF MInv

\* The loop variables are indices, and the sizes are numbers.
LEMMA Sizes ==
  ASSUME MergeTypeOK, NEW i \in 1 .. n + 1, NEW j \in 0 .. n
  PROVE  /\ Tokens(i, j) \in Int
         /\ i <= n => Seg(i) \in 1 .. MaxSeg
         /\ i <= n => Tokens(i, j) = Seg(i) + Tokens(i + 1, j)
         /\ Tokens(i, i - 1) = 0
         /\ j < n => Tokens(i, j + 1) = Tokens(i, j) + Seg(j + 1)
<1>1. n \in Nat /\ before \in [0 .. n -> Nat]
  BY DEF MergeTypeOK
<1>2. i - 1 \in 0 .. n /\ before[i - 1] \in Nat /\ before[j] \in Nat
  BY <1>1
<1>3. i <= n => before[i] - before[i - 1] \in 1 .. MaxSeg
  BY DEF MergeTypeOK
<1>4. i <= n => before[i] \in Nat /\ Tokens(i + 1, j) = before[j] - before[i]
  BY <1>1 DEF Tokens
<1>5. j < n => before[j + 1] \in Nat /\ Seg(j + 1) = before[j + 1] - before[j]
  BY <1>1 DEF Seg, Tokens
<1> QED
  BY <1>1, <1>2, <1>3, <1>4, <1>5 DEF Tokens, Seg

\* A chunk that ends extends the properties of the chunks.
LEMMA MEmit == MInv /\ Emit => MInv'
<1> SUFFICES ASSUME MInv, Emit PROVE MInv'
  OBVIOUS
<1> USE ChunkerAssumption
<1>0. /\ MergeTypeOK /\ pc = "segment" /\ next <= n /\ first < next
      /\ chunks' = Append(chunks, Current) /\ pc' = "drop"
      /\ n' = n /\ before' = before /\ first' = first /\ next' = next
  BY DEF MInv, Emit, Overflows
<1>1. n \in Nat /\ first \in 1 .. n /\ next \in 1 .. n /\ chunks \in Seq(Chunk)
  BY <1>0 DEF MergeTypeOK
<1>2. Current \in Chunk /\ Current.from = first /\ Current.to = next - 1
  BY <1>0, <1>1 DEF Current, Chunk
<1>3. /\ chunks' \in Seq(Chunk)
      /\ Len(chunks') = Len(chunks) + 1 /\ Len(chunks) \in Nat
      /\ \A i \in DOMAIN chunks : chunks'[i] = chunks[i] /\ i \in DOMAIN chunks'
      /\ chunks'[Len(chunks) + 1] = Current
      /\ \A i \in DOMAIN chunks' : i \in DOMAIN chunks \/ i = Len(chunks) + 1
      /\ DOMAIN chunks = 1 .. Len(chunks) /\ DOMAIN chunks' = 1 .. Len(chunks')
      /\ chunks # <<>> => Len(chunks) \in DOMAIN chunks /\ Latest \in Chunk
  BY <1>0, <1>1, <1>2, Appended DEF Latest
<1>4. MergeTypeOK'
  BY <1>0, <1>3 DEF MergeTypeOK, Chunk
<1>5. Latest' = Current /\ chunks' # <<>>
  BY <1>3 DEF Latest
<1>6. \A i, j : Tokens(i, j)' = Tokens(i, j)
  BY <1>0 DEF Tokens
<1>7. Bounded'
  <2>1. Tokens(Current.from, Current.to) <= Limit
    BY <1>0, <1>2 DEF MInv, Carried, Size
  <2> QED
    BY <1>3, <1>6, <2>1 DEF MInv, Bounded, Limit
<1>8. Slides'
  <2> SUFFICES ASSUME NEW i \in DOMAIN chunks', i > 1
               PROVE  /\ chunks'[i - 1].to < chunks'[i].to
                      /\ chunks'[i - 1].from <= chunks'[i].from
                      /\ chunks'[i].from <= chunks'[i - 1].to + 1
                      /\ Tokens(chunks'[i].from, chunks'[i - 1].to) <= Overlap
    BY <1>6 DEF Slides
  <2>1. CASE i \in DOMAIN chunks
    <3>1. i - 1 \in DOMAIN chunks
      BY <1>3, <2>1
    <3> QED
      BY <1>3, <2>1, <3>1 DEF MInv, Slides
  <2>2. CASE i = Len(chunks) + 1
    <3>1. chunks # <<>> /\ chunks'[i - 1] = Latest
      BY <1>3, <2>2 DEF Latest
    <3>2. /\ Latest.from <= first /\ first <= Latest.to + 1
          /\ Latest.to < next - 1 /\ Tokens(first, Latest.to) <= Overlap
      BY <1>0, <3>1 DEF MInv, Carried
    <3> QED
      BY <1>2, <1>3, <2>2, <3>1, <3>2
  <2> QED
    BY <1>3, <2>1, <2>2
<1>9. Carried'
  BY <1>0, <1>1, <1>2, <1>5 DEF Carried
<1>10. Placed'
  <2> SUFFICES ASSUME NEW k \in 1 .. next - 1
               PROVE  \E i \in DOMAIN chunks' : k \in chunks'[i].from .. chunks'[i].to
    BY <1>0 DEF Placed
  <2>1. CASE \E i \in DOMAIN chunks : k \in chunks[i].from .. chunks[i].to
    BY <1>3, <2>1
  <2>2. CASE k >= first
    <3>1. k \in Current.from .. Current.to
      BY <1>1, <1>2, <2>2
    <3> QED
      BY <1>3, <3>1
  <2> QED
    BY <2>1, <2>2 DEF MInv, Placed
<1>11. Exhausted'
  BY <1>0 DEF Exhausted
<1> QED
  BY <1>4, <1>7, <1>8, <1>9, <1>10, <1>11 DEF MInv

LEMMA MDrop == MInv /\ DropPart => MInv'
<1> SUFFICES ASSUME MInv, DropPart PROVE MInv'
  OBVIOUS
<1> USE ChunkerAssumption
<1>0. /\ MergeTypeOK /\ pc = "drop" /\ first < next /\ first' = first + 1
      /\ n' = n /\ before' = before /\ next' = next /\ chunks' = chunks /\ pc' = pc
  BY DEF MInv, DropPart, Excess
<1>1. n \in Nat /\ first \in 1 .. n /\ next \in 1 .. n + 1 /\ chunks \in Seq(Chunk)
  BY <1>0 DEF MergeTypeOK
<1>2. MergeTypeOK'
  BY <1>0, <1>1 DEF MergeTypeOK, Chunk
<1>3. Bounded' /\ Slides' /\ Exhausted'
  BY <1>0 DEF MInv, Bounded, Slides, Exhausted, Tokens, Limit
<1>4. Carried'
  <2>1. chunks # <<>> => Latest \in Chunk /\ Latest' = Latest
    BY <1>0, <1>1 DEF Latest
  <2> QED
    BY <1>0, <1>1, <2>1 DEF MInv, Carried, Chunk
<1>5. Placed'
  BY <1>0, <1>1 DEF MInv, Placed
<1> QED
  BY <1>2, <1>3, <1>4, <1>5 DEF MInv

LEMMA MTake == MInv /\ Take => MInv'
<1> SUFFICES ASSUME MInv, Take PROVE MInv'
  OBVIOUS
<1> USE ChunkerAssumption
<1>0. /\ MergeTypeOK /\ next <= n /\ pc \in {"segment", "drop"}
      /\ pc = "segment" => ~Overflows
      /\ pc = "drop" => ~Excess
      /\ next' = next + 1 /\ pc' = "segment"
      /\ n' = n /\ before' = before /\ first' = first /\ chunks' = chunks
  BY DEF MInv, Take
<1>1. n \in Nat /\ first \in 1 .. next /\ next \in 1 .. n /\ chunks \in Seq(Chunk)
  BY <1>0 DEF MergeTypeOK
<1>2. MergeTypeOK'
  BY <1>0, <1>1 DEF MergeTypeOK, Chunk
<1>3. Bounded' /\ Slides' /\ Exhausted'
  BY <1>0 DEF MInv, Bounded, Slides, Exhausted, Tokens, Limit
<1>4. /\ Size \in Int /\ Seg(next) \in 1 .. MaxSeg
      /\ Size' = Size + Seg(next)
      /\ first = next => Size = 0
  <2>1. first \in 1 .. n + 1 /\ next - 1 \in 0 .. n /\ next \in 1 .. n + 1 /\ next - 1 < n
    BY <1>0, <1>1
  <2>2. /\ Tokens(first, next - 1) \in Int
        /\ Tokens(first, next - 1 + 1) = Tokens(first, next - 1) + Seg(next - 1 + 1)
        /\ first <= n /\ Tokens(first, first - 1) = 0
    BY <1>0, <1>1, <2>1, Sizes
  <2>3. Seg(next) \in 1 .. MaxSeg
    BY <1>0, <1>1, <2>1, Sizes
  <2>4. next - 1 + 1 = next /\ next' - 1 = next
    BY <1>0, <1>1
  <2>5. Size' = Tokens(first, next)
    BY <1>0, <2>4 DEF Size, Tokens
  <2> QED
    BY <2>2, <2>3, <2>4, <2>5 DEF Size
<1>5. Size' <= Limit
  BY <1>0, <1>1, <1>4 DEF Overflows, Excess, Limit
<1>6. chunks # <<>> =>
        /\ Latest \in Chunk /\ Latest' = Latest
        /\ Latest.to \in 1 .. n /\ Latest.from \in 1 .. n
        /\ Latest.from <= first /\ first <= Latest.to + 1
        /\ Latest.to < next
  <2> SUFFICES ASSUME chunks # <<>>
               PROVE  /\ Latest \in Chunk /\ Latest' = Latest
                      /\ Latest.from <= first /\ first <= Latest.to + 1
                      /\ Latest.to < next
    BY DEF Chunk
  <2>1. Latest \in Chunk /\ Latest' = Latest
    BY <1>0, <1>1 DEF Latest
  <2>2. Latest.to \in Int
    BY <1>1, <2>1 DEF Chunk
  <2> QED
    BY <1>0, <1>1, <2>1, <2>2 DEF MInv, Carried
<1>7. chunks # <<>> => Tokens(first, Latest.to)' <= Overlap
  <2>1. CASE pc = "segment"
    BY <1>0, <1>6, <2>1 DEF MInv, Carried, Tokens
  <2>2. CASE pc = "drop"
    <3>1. Latest.to = next - 1
      BY <2>2 DEF MInv, Carried
    <3> QED
      BY <1>0, <1>1, <1>4, <1>6, <2>2, <3>1 DEF Excess, Size, Tokens
  <2> QED
    BY <1>0, <2>1, <2>2
<1>8. Carried'
  <2>1. pc' = "segment" /\ first' = first /\ next' - 1 = next /\ chunks' = chunks
    BY <1>0, <1>1
  <2>2. (pc = "segment" => Size <= Limit)'
    BY <1>5 DEF Limit
  <2>3. (pc = "drop" => chunks # <<>> /\ Latest.to = next - 1 /\ next <= n)'
    BY <2>1
  <2>4. (chunks # <<>> /\ pc # "done" => Latest.from <= first /\ first <= Latest.to + 1)'
    BY <1>6, <2>1
  <2>5. (chunks # <<>> /\ pc = "segment" => Latest.to < next - 1 /\ Tokens(first, Latest.to) <= Overlap)'
    BY <1>6, <1>7, <2>1
  <2> QED
    BY <2>2, <2>3, <2>4, <2>5, Zenon DEF Carried
<1>9. Placed'
  <2>1. SUFFICES ASSUME NEW k \in 1 .. next
                 PROVE  \/ \E i \in DOMAIN chunks : k \in chunks[i].from .. chunks[i].to
                        \/ k >= first
    BY <1>0, <1>1 DEF Placed
  <2>2. CASE k = next
    BY <1>1, <2>2
  <2>3. CASE k \in 1 .. next - 1
    BY <2>3 DEF MInv, Placed
  <2> QED
    BY <1>1, <2>1, <2>2, <2>3
<1> QED
  BY <1>2, <1>3, <1>8, <1>9 DEF MInv

LEMMA MFinish == MInv /\ Finish => MInv'
<1> SUFFICES ASSUME MInv, Finish PROVE MInv'
  OBVIOUS
<1> USE ChunkerAssumption
<1>0. /\ MergeTypeOK /\ pc = "segment" /\ next = n + 1 /\ pc' = "done"
      /\ n' = n /\ before' = before /\ first' = first /\ next' = next
      /\ chunks' = IF first < next THEN Append(chunks, Current) ELSE chunks
  BY DEF MInv, Finish
<1>1. n \in Nat /\ first \in 1 .. next /\ next \in 1 .. n + 1 /\ chunks \in Seq(Chunk)
  BY <1>0 DEF MergeTypeOK
<1>2. Exhausted' /\ Carried'
  BY <1>0 DEF Exhausted, Carried
<1>3. CASE first < next
  \* The same chunk as Emit, at another time.
  <2>1. Current \in Chunk /\ Current.from = first /\ Current.to = next - 1
    BY <1>0, <1>1, <1>3 DEF Current, Chunk
  <2>2. /\ chunks' \in Seq(Chunk)
        /\ Len(chunks') = Len(chunks) + 1 /\ Len(chunks) \in Nat
        /\ \A i \in DOMAIN chunks : chunks'[i] = chunks[i] /\ i \in DOMAIN chunks'
        /\ chunks'[Len(chunks) + 1] = Current
        /\ \A i \in DOMAIN chunks' : i \in DOMAIN chunks \/ i = Len(chunks) + 1
        /\ DOMAIN chunks = 1 .. Len(chunks) /\ DOMAIN chunks' = 1 .. Len(chunks')
        /\ chunks # <<>> => Len(chunks) \in DOMAIN chunks /\ Latest \in Chunk
    BY <1>0, <1>1, <1>3, <2>1, Appended DEF Latest
  <2>3. \A i, j : Tokens(i, j)' = Tokens(i, j)
    BY <1>0 DEF Tokens
  <2>4. MergeTypeOK'
    BY <1>0, <2>2 DEF MergeTypeOK, Chunk
  <2>5. Bounded'
    <3>1. Tokens(Current.from, Current.to) <= Limit
      BY <1>0, <2>1 DEF MInv, Carried, Size
    <3> QED
      BY <2>2, <2>3, <3>1 DEF MInv, Bounded, Limit
  <2>6. Slides'
    <3> SUFFICES ASSUME NEW i \in DOMAIN chunks', i > 1
                 PROVE  /\ chunks'[i - 1].to < chunks'[i].to
                        /\ chunks'[i - 1].from <= chunks'[i].from
                        /\ chunks'[i].from <= chunks'[i - 1].to + 1
                        /\ Tokens(chunks'[i].from, chunks'[i - 1].to) <= Overlap
      BY <2>3 DEF Slides
    <3>1. CASE i \in DOMAIN chunks
      <4>1. i - 1 \in DOMAIN chunks
        BY <2>2, <3>1
      <4> QED
        BY <2>2, <3>1, <4>1 DEF MInv, Slides
    <3>2. CASE i = Len(chunks) + 1
      <4>1. chunks # <<>> /\ chunks'[i - 1] = Latest
        BY <2>2, <3>2 DEF Latest
      <4>2. /\ Latest.from <= first /\ first <= Latest.to + 1
            /\ Latest.to < next - 1 /\ Tokens(first, Latest.to) <= Overlap
        BY <1>0, <4>1 DEF MInv, Carried
      <4> QED
        BY <2>1, <2>2, <3>2, <4>1, <4>2
    <3> QED
      BY <2>2, <3>1, <3>2
  <2>7. Placed'
    <3> SUFFICES ASSUME NEW k \in 1 .. next - 1
                 PROVE  \E i \in DOMAIN chunks' : k \in chunks'[i].from .. chunks'[i].to
      BY <1>0 DEF Placed
    <3>1. CASE \E i \in DOMAIN chunks : k \in chunks[i].from .. chunks[i].to
      BY <2>2, <3>1
    <3>2. CASE k >= first
      <4>1. k \in Current.from .. Current.to
        BY <1>1, <2>1, <3>2
      <4> QED
        BY <2>2, <4>1
    <3> QED
      BY <3>1, <3>2 DEF MInv, Placed
  <2> QED
    BY <1>2, <2>4, <2>5, <2>6, <2>7 DEF MInv
<1>4. CASE first = next
  <2>1. chunks' = chunks
    BY <1>0, <1>1, <1>4
  <2>2. MergeTypeOK'
    BY <1>0, <2>1 DEF MergeTypeOK, Chunk
  <2>3. Bounded' /\ Slides'
    BY <1>0, <2>1 DEF MInv, Bounded, Slides, Tokens, Limit
  <2>4. Placed'
    <3> SUFFICES ASSUME NEW k \in 1 .. next - 1
                 PROVE  \E i \in DOMAIN chunks : k \in chunks[i].from .. chunks[i].to
      BY <1>0, <2>1 DEF Placed
    <3>1. ~(k >= first)
      BY <1>1, <1>4
    <3> QED
      BY <3>1 DEF MInv, Placed
  <2> QED
    BY <1>2, <2>2, <2>3, <2>4 DEF MInv
<1> QED
  BY <1>1, <1>3, <1>4

LEMMA MStutter == MInv /\ UNCHANGED mergeVars => MInv'
<1> SUFFICES ASSUME MInv, UNCHANGED mergeVars PROVE MInv'
  OBVIOUS
<1>1. /\ n' = n /\ before' = before /\ first' = first /\ next' = next
      /\ chunks' = chunks /\ pc' = pc
  BY DEF mergeVars
<1>2. MergeTypeOK' /\ Placed' /\ Exhausted'
  BY <1>1 DEF MInv, MergeTypeOK, Chunk, Placed, Exhausted
<1>3. Bounded' /\ Slides'
  BY <1>1 DEF MInv, Bounded, Slides, Tokens, Limit
<1>4. Carried'
  BY <1>1 DEF MInv, Carried, Latest, Size, Tokens, Limit
<1> QED
  BY <1>2, <1>3, <1>4 DEF MInv

LEMMA MInvariant == MergeSpec => []MInv
<1>1. MInv /\ [MergeNext]_mergeVars => MInv'
  BY MEmit, MDrop, MTake, MFinish, MStutter DEF MergeNext
<1> QED
  BY MInit, <1>1, PTL DEF MergeSpec

-----------------------------------------------------------------------------
(* The theorems *)

\* The loop of _merge_with_overlap keeps its indices within the segments.
THEOREM MergeTypeCorrect == MergeSpec => []MergeTypeOK
<1>1. MInv => MergeTypeOK
  BY DEF MInv
<1> QED
  BY MInvariant, <1>1, PTL

\* No chunk that _merge_with_overlap makes exceeds chunk_size by more than the
\* overlap beside a segment does.
THEOREM MergeBounded == MergeSpec => []Bounded
<1>1. MInv => Bounded
  BY DEF MInv
<1> QED
  BY MInvariant, <1>1, PTL

\* _merge_with_overlap loses no segment.
THEOREM MergeCovers == MergeSpec => []Covered
<1>1. MInv => Covered
  <2> SUFFICES ASSUME MInv, pc = "done", NEW k \in 1 .. n
               PROVE  \E i \in DOMAIN chunks : k \in chunks[i].from .. chunks[i].to
    BY DEF Covered
  <2>1. n \in Nat /\ next = n + 1
    BY DEF MInv, MergeTypeOK, Exhausted
  <2>2. k \in 1 .. next - 1
    BY <2>1
  <2> QED
    BY <2>2 DEF MInv, Placed
<1> QED
  BY MInvariant, <1>1, PTL

\* Every chunk of _merge_with_overlap advances and repeats at most the overlap.
THEOREM MergeSlides == MergeSpec => []Slides
<1>1. MInv => Slides
  BY DEF MInv
<1> QED
  BY MInvariant, <1>1, PTL

\* The hard split of _recursive_split loses no character: every position lies
\* in a window, and the windows before it start in the text.
THEOREM HardSplitCovers ==
  ASSUME NEW p \in Nat
  PROVE  \E k \in Nat : p \in Slice(k) /\ k * Stride <= p
<1> DEFINE k == p \div Stride
<1>1. Stride \in Nat \ {0} /\ WindowSize \in Nat /\ Stride <= WindowSize
  BY ChunkerAssumption DEF WindowSize, Stride
<1>2. k \in Nat /\ k * Stride <= p /\ p < k * Stride + Stride
  <2>1. \A d \in Nat \ {0} : /\ p = d * (p \div d) + (p % d)
                             /\ p % d \in 0 .. d - 1 /\ p \div d \in Nat
    OBVIOUS
  <2>2. p = Stride * k + (p % Stride) /\ p % Stride \in 0 .. Stride - 1 /\ k \in Nat
    BY <1>1, <2>1
  <2>3. Stride * k = k * Stride /\ k * Stride \in Nat
    BY <1>1, <2>2
  <2> QED
    BY <1>1, <2>2, <2>3
<1>3. p \in Slice(k)
  BY <1>1, <1>2 DEF Slice
<1> QED
  BY <1>2, <1>3
=============================================================================
