------------------------------- MODULE Listing -------------------------------
(***************************************************************************)
(* How the connectors' adapters list a source that changes while they read  *)
(* it (connectors/<provider>/adapter.py): pages of several containers,      *)
(* rate limits, failing pages, a consumer that stops half way, and the      *)
(* cursor that two of them move. What the consumer does with the files is   *)
(* in ConnectorSync.                                                        *)
(*                                                                         *)
(* A file is a number, its place in the order of names; at[f] is the time   *)
(* of its last change and 0 when it is not there. The source is external:   *)
(* an adapter is the way it walks the source, one record for each, and one  *)
(* of them is chosen for a behaviour. PageSize is their 50, 100 or 2000.    *)
(*                                                                         *)
(* Left out: downloads (a task makes an adapter of its own, so the thread   *)
(* and release texts that Slack and GitHub keep in the instance are never   *)
(* found there, and SharePoint finds those of the default drive only), the  *)
(* event decoders and detect_deletes, which nothing calls, names and types, *)
(* and the identifier, which is the content's hash for Filesystem and       *)
(* GitHub: there a changed file is another one.                             *)
(* A definition marked "Variant" is a wrong version of the one after it,    *)
(* which the runs must notice in its place.                                 *)
(***************************************************************************)
EXTENDS Integers, FiniteSets

CONSTANTS
  Files,      \* numbers from 1
  Home,       \* the container of each file: a bucket, space, drive, channel
  Boxes,      \* the number of containers
  Binary,     \* files whose extension or type some adapters skip
  Adapters,   \* those this instance looks at
  PageSize, MaxClock,
  MaxRuns,    \* bound on the listings of a behaviour
  TextOrder   \* TextOrder[t]: the place of the mark t among the marks as text

ASSUME ListingAssumption ==
  /\ IsFiniteSet(Files) /\ Files = 1..Cardinality(Files) /\ Boxes \in Nat \ {0}
  /\ Home \in [Files -> 1..Boxes] /\ Binary \subseteq Files
  /\ PageSize \in Nat \ {0} /\ MaxClock \in Nat /\ MaxRuns \in Nat
  /\ Cardinality(Files) <= MaxClock
  /\ TextOrder \in [1..MaxClock -> Nat]

VARIABLES
  adapter,
  clock, at,  \* the source
  run,        \* the listing, a generator of one adapter
  token,      \* SyncCursor.token as the caller keeps it, 0 for None
  handed,     \* history, of adapters with a token: the last version of each file that
              \* was handed on
  got, cut,   \* history: what this listing handed on, and what it gave up
  held        \* history: what this listing had to find

source == <<clock, at>>
vars == <<adapter, source, run, token, handed, got, cut, held>>

-----------------------------------------------------------------------------
(* The adapters *)

\* paging: the order in which the source hands out its files, and what its position
\* means; flat: one container; tries: attempts at a page that is rate limited; skips:
\* what is given up when a page fails; collects: the pages are read before any is
\* handed on; feed: what an incremental listing reads.
Plain == [paging |-> "key", flat |-> FALSE, tries |-> 1, skips |-> "raise",
          collects |-> FALSE, filter |-> TRUE, feed |-> "full"]

S3 == Plain
GCS == Plain
AzureBlob == Plain
Filesystem == [Plain EXCEPT !.paging = "once"]
Database == [Plain EXCEPT !.paging = "once", !.flat = TRUE, !.filter = FALSE, !.feed = "mark"]
Dropbox == [Plain EXCEPT !.paging = "delta", !.flat = TRUE, !.tries = 3, !.feed = "delta"]
OneDrive == [Plain EXCEPT !.paging = "delta", !.flat = TRUE, !.filter = FALSE]
SharePoint == [Plain EXCEPT !.paging = "delta", !.filter = FALSE]
\* get_changes, which the incremental listing calls, does not exist.
GoogleDrive == [Plain EXCEPT !.paging = "recent", !.flat = TRUE, !.feed = "broken"]
Notion == [Plain EXCEPT !.flat = TRUE, !.filter = FALSE, !.collects = TRUE]
Confluence == [Plain EXCEPT !.paging = "offset", !.filter = FALSE, !.skips = "box"]
\* A file stands for a repository, whose tree may be missing.
GitHub == [Plain EXCEPT !.paging = "offset", !.flat = TRUE, !.tries = 3, !.skips = "page"]
\* No second page of channels, messages or replies; an answer that is not ok has none.
Slack == [Plain EXCEPT !.paging = "first", !.filter = FALSE, !.tries = 3, !.skips = "box"]

-----------------------------------------------------------------------------
(* Where a listing stands *)

Present == {f \in Files : at[f] # 0}
Wanted(f) == adapter.filter => f \notin Binary
BoxOf(f) == IF adapter.flat THEN 1 ELSE Home[f]
LastBox == IF adapter.flat THEN 1 ELSE Boxes
InBox(b) == {f \in Present : BoxOf(f) = b}

\* What the pages are read from: the whole source, or the changes after the token.
Paging == IF run.changes THEN IF adapter.feed = "mark" THEN "rows" ELSE "delta"
          ELSE adapter.paging

\* The place of a file in the order of the pages; a position is the place of the last
\* file of a page. Files may move in that order between two pages.
Place(f) ==
  CASE Paging \in {"key", "first", "once"} -> f
    [] Paging \in {"delta", "rows"} -> at[f]
    [] Paging = "recent" -> MaxClock + 1 - at[f]
    [] Paging = "offset" -> Cardinality({g \in InBox(BoxOf(f)) : g <= f})

Ahead == {f \in InBox(run.box) : Place(f) > run.pos}
NextPage ==
  IF Paging \in {"once", "rows"} THEN Ahead
  ELSE {f \in Ahead : Cardinality({g \in Ahead : Place(g) <= Place(f)}) <= PageSize}

\* The last of some places.
Furthest(places) == {p \in places : \A q \in places : q <= p}

\* What a walk of this kind promises to find, from one state of the source to the next:
\* a file by its place is missed when files before it go, or when it moves before the
\* position itself; of a first page only that page is promised.
Steady(f) ==
  /\ at'[f] # 0
  /\ Paging = "recent" => at'[f] = at[f]
  /\ Paging = "offset" => Place(f)' >= Place(f)
  /\ Paging = "first" => Cardinality({g \in InBox(BoxOf(f))' : g <= f}) <= PageSize

Idle == [st |-> "idle", n |-> 0, changes |-> FALSE, box |-> 1, pos |-> 0, page |-> {},
         last |-> FALSE, tries |-> 0]

\* The caller may come with the token of an earlier listing.
Init ==
  /\ adapter \in Adapters
  /\ clock = Cardinality(Files)
  /\ \E here \in SUBSET Files : at = [f \in Files |-> IF f \in here THEN f ELSE 0]
  /\ token \in IF adapter.feed \in {"delta", "mark"} THEN {0, clock} ELSE {0}
  /\ handed = [f \in Files |-> IF token # 0 THEN at[f] ELSE 0]
  /\ run = Idle
  /\ got = {} /\ cut = {} /\ held = {}

Running == run.st \in {"read", "hand"}

-----------------------------------------------------------------------------
(* The source *)

Changed ==
  /\ UNCHANGED <<adapter, run, token, handed, got, cut>>
  /\ held' = IF Running THEN {f \in held : Steady(f)} ELSE held

\* A file is made or changed. Every change has a mark of its own, later than those the
\* source has shown (a row that is committed late has not: the database adapter, which
\* asks for marks above its token, would never see it).
Put(f) ==
  /\ clock < MaxClock
  /\ clock' = clock + 1 /\ at' = [at EXCEPT ![f] = clock + 1]
  /\ Changed

Remove(f) ==
  /\ at[f] # 0
  /\ at' = [at EXCEPT ![f] = 0] /\ UNCHANGED clock
  /\ Changed

-----------------------------------------------------------------------------
(* The listing *)

\* full_sync or incremental_sync is called. Without a token Dropbox lists everything,
\* and so do, always, the adapters without a feed.
Begin(mode) ==
  /\ ~Running /\ run.n < MaxRuns
  /\ LET changes == /\ mode = "incremental"
                    /\ adapter.feed = "mark" \/ (adapter.feed = "delta" /\ token # 0) IN
     /\ run' = [Idle EXCEPT !.n = run.n + 1, !.changes = changes,
                  !.pos = IF changes THEN token ELSE 0,
                  !.st = IF mode = "incremental" /\ adapter.feed = "broken"
                         THEN "failed" ELSE "read"]
     /\ held' = {f \in Present : /\ Wanted(f)
                                 /\ changes => at[f] > token
                                 /\ (adapter.paging = "first") =>
                                      Cardinality({g \in InBox(BoxOf(f)) : g <= f}) <= PageSize}
  /\ got' = {} /\ cut' = {}
  /\ UNCHANGED <<adapter, source, token, handed>>

\* Where the walk goes from a page or a container that is done with.
Onward(r, last) ==
  IF ~last THEN [r EXCEPT !.st = "read", !.page = {}]
  ELSE IF r.box < LastBox
       THEN [r EXCEPT !.st = "read", !.box = @ + 1, !.pos = 0, !.page = {}]
       ELSE [r EXCEPT !.st = "ended", !.page = {}]

\* Variant: the position after a page lies one too far.
ReadBeyond ==
  /\ run.st = "read"
  /\ \E pos \in Furthest({Place(f) : f \in NextPage} \cup {run.pos}) :
     LET last == Paging = "first" \/ NextPage = Ahead IN
     run' = [run EXCEPT !.page = @ \cup {[f |-> f, at |-> at[f]] : f \in {g \in NextPage : Wanted(g)}},
               !.pos = pos + 1, !.last = last, !.tries = 0,
               !.st = IF adapter.collects /\ ~last THEN "read" ELSE "hand"]
  /\ UNCHANGED <<adapter, source, token, handed, got, cut, held>>

\* Variant: the position stays where it was.
ReadAgain ==
  /\ run.st = "read"
  /\ LET last == Paging = "first" \/ NextPage = Ahead IN
     run' = [run EXCEPT !.page = @ \cup {[f |-> f, at |-> at[f]] : f \in {g \in NextPage : Wanted(g)}},
               !.last = last, !.tries = 0,
               !.st = IF adapter.collects /\ ~last THEN "read" ELSE "hand"]
  /\ UNCHANGED <<adapter, source, token, handed, got, cut, held>>

\* One request for a page. Notion's pages are collected.
Read ==
  /\ run.st = "read"
  /\ \E pos \in Furthest({Place(f) : f \in NextPage} \cup {run.pos}) :
     LET last == Paging = "first" \/ NextPage = Ahead IN
     run' = [run EXCEPT !.page = @ \cup {[f |-> f, at |-> at[f]] : f \in {g \in NextPage : Wanted(g)}},
               !.pos = pos, !.last = last, !.tries = 0,
               !.st = IF adapter.collects /\ ~last THEN "read" ELSE "hand"]
  /\ UNCHANGED <<adapter, source, token, handed, got, cut, held>>

\* 429: wait and ask again, or raise.
RateLimited ==
  /\ run.st = "read"
  /\ run' = IF run.tries + 1 < adapter.tries THEN [run EXCEPT !.tries = @ + 1]
            ELSE [run EXCEPT !.st = "failed", !.page = {}]
  /\ UNCHANGED <<adapter, source, token, handed, got, cut, held>>

\* Any other error: the listing raises, or the rest of the container or this page is
\* given up with a line in the log.
PageFails ==
  /\ run.st = "read"
  /\ IF adapter.skips = "raise"
     THEN run' = [run EXCEPT !.st = "failed", !.page = {}] /\ UNCHANGED cut
     ELSE LET lost == IF adapter.skips = "box" THEN InBox(run.box) ELSE NextPage IN
          /\ cut' = cut \cup lost
          /\ \E pos \in Furthest({Place(f) : f \in lost} \cup {run.pos}) :
               run' = Onward([run EXCEPT !.pos = pos, !.tries = 0],
                             adapter.skips = "box" \/ NextPage = Ahead)
  /\ UNCHANGED <<adapter, source, token, handed, got, held>>

HandOn(items) ==
  /\ got' = got \cup {i.f : i \in items}
  /\ handed' = IF adapter.feed \in {"delta", "mark"}
               THEN [f \in Files |-> IF \E i \in items : i.f = f
                                     THEN (CHOOSE i \in items : i.f = f).at ELSE handed[f]]
               ELSE handed

\* Variant: the token is the time at which the rows were handed on.
TokensNow == {IF adapter.feed = "mark" THEN clock ELSE run.pos}

\* The token after a listing of changes: Dropbox's last cursor, and for rows the
\* greatest mark as text, when it is greater than the token as text.
NewTokens ==
  IF adapter.feed = "delta" THEN {run.pos}
  ELSE LET marks == ({i.at : i \in run.page} \cup {token}) \ {0} IN
       IF marks = {} THEN {token}
       ELSE {t \in marks : \A u \in marks : TextOrder[u] <= TextOrder[t]}

\* The page is yielded to its end; after the last one the cursor is set.
Yield ==
  /\ run.st = "hand"
  /\ HandOn(run.page)
  /\ run' = Onward(run, run.last)
  /\ token' \in IF run'.st = "ended" /\ run.changes THEN NewTokens ELSE {token}
  /\ UNCHANGED <<adapter, source, cut, held>>

\* The consumer fails at one of the files, and the generator is dropped.
Drop ==
  /\ run.st = "hand"
  /\ \E items \in SUBSET run.page : HandOn(items)
  /\ run' = [run EXCEPT !.st = "dropped", !.page = {}]
  /\ UNCHANGED <<adapter, source, token, cut, held>>

Step == Read \/ RateLimited \/ PageFails \/ Yield

Next ==
  \/ \E f \in Files : Put(f) \/ Remove(f)
  \/ \E mode \in {"full", "incremental"} : Begin(mode)
  \/ Step
  \/ Drop

Spec == Init /\ [][Next]_vars
\* The worker's event loop runs the generator until it ends.
FairSpec == Spec /\ WF_vars(Step)

-----------------------------------------------------------------------------
(* Properties *)

\* The shape of a listing, and of what the adapters may be.
TypeOK ==
  /\ adapter \in Adapters /\ clock \in 0..MaxClock /\ at \in [Files -> 0..MaxClock]
  /\ run.st \in {"idle", "read", "hand", "ended", "failed", "dropped"}
  /\ run.box \in 1..LastBox /\ run.tries < 3
  /\ token \in 0..MaxClock /\ handed \in [Files -> 0..MaxClock]
  /\ got \subseteq Files /\ cut \subseteq Files /\ held \subseteq Files

\* A listing that ends without an error has handed on every file its kind of paging
\* promises, whatever was made, changed and removed while it was read, but for the
\* containers or repositories it logged as failing.
Complete == run.st = "ended" => held \ cut \subseteq got

\* The cursor loses nothing: a file that was last changed at or before the token has
\* been handed on as it is now, by whichever listings ended, failed or were dropped
\* since the token was None.
MarkSafe ==
  \A f \in Present : (Wanted(f) /\ token # 0 /\ at[f] <= token) => handed[f] = at[f]

\* A listing comes to an end: changes that arrive while it is read, and pages that are
\* refused for a while, do not keep it going for ever.
Stops == Running ~> ~Running
=============================================================================
