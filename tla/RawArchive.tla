----------------------------- MODULE RawArchive -----------------------------
(***************************************************************************)
(* POST /v1/observe and GET /v1/raw-events.  append_raw_event opens the    *)
(* JSONL archive, notes its end as the offset of the new line, appends the *)
(* line, inserts the row that points at it, and then the full-text entry:  *)
(* four effects and no transaction around them.  A daemon runs one at a    *)
(* time (its mutex); daemons that share a data directory share the file.   *)
(* search_raw_events looks in the full-text table and, if that gives       *)
(* nothing, for the text in the rows: two SELECTs, with other daemons'     *)
(* appends in between.                                                     *)
(***************************************************************************)
EXTENDS Naturals, Sequences, FiniteSets

CONSTANTS Event,      \* raw event ids, each with its content
          Daemon,     \* daemons appending to the archive of one data directory
          Query,      \* search texts
          LikeMatch,  \* LikeMatch[q]: the events whose content contains q
          TokenMatch, \* TokenMatch[q]: those that also hold q as whole tokens
          SearchLimit, \* LIMIT of the two SELECTs
          NoEvent

\* The FTS query is joined with the LIKE pattern, so it matches no more.
ASSUME RawArchiveAssumption ==
    /\ NoEvent \notin Event
    /\ SearchLimit \in Nat \ {0}
    /\ LikeMatch \in [Query -> SUBSET Event]
    /\ TokenMatch \in [Query -> SUBSET Event]
    /\ \A q \in Query : TokenMatch[q] \subseteq LikeMatch[q]

VARIABLES archive,  \* events-000001.jsonl: a line is two cells, the last its newline
          rows,     \* the events raw_events has a row for
          offset,   \* archive_offset of those rows
          fts,      \* the events raw_events_fts holds
          job,      \* job[d]: the append daemon d is in
          search,   \* a search that runs, or the last one and what it answered
          used,     \* history: ids already drawn
          writers,  \* history: the daemons that have appended
          acked     \* history: events whose observe was answered with success

appendVars  == <<archive, rows, offset, fts, job, used, writers, acked>>
archiveVars == <<appendVars, search>>

Line(e)  == <<[ev |-> e, end |-> FALSE], [ev |-> e, end |-> TRUE]>>
LineLen  == 2
Torn(e)  == <<[ev |-> e, end |-> FALSE]>>
Cell     == [ev : Event, end : BOOLEAN]

Idle == [ev |-> NoEvent, at |-> 0, pc |-> "idle"]
Job  == [ev : Event, at : Nat, pc : {"seeked", "written", "inserted"}]

NoSearch == [pc |-> "none"]

\* before: history, the events whose observe was answered when it began.
Search == [pc : {"like", "answered"}, by : Daemon, q : Query,
           hits : SUBSET Event, before : SUBSET Event]

RawTypeOK == /\ archive \in Seq(Cell)
             /\ rows \subseteq Event
             /\ offset \in [Event -> Nat]
             /\ fts \subseteq Event
             /\ job \in [Daemon -> Job \cup {Idle}]
             /\ search \in Search \cup {NoSearch}
             /\ used \subseteq Event
             /\ writers \subseteq Daemon
             /\ acked \subseteq Event

RawInit == /\ archive = <<>>
           /\ rows = {}
           /\ offset = [e \in Event |-> 0]
           /\ fts = {}
           /\ job = [d \in Daemon |-> Idle]
           /\ search = NoSearch
           /\ used = {}
           /\ writers = {}
           /\ acked = {}
-----------------------------------------------------------------------------
\* Daemon d is in a search, between the two SELECTs, with its mutex held.
Searching(d) == search.pc = "like" /\ search.by = d

\* Variant: the length is taken once the line is behind it.
SeekPastLine(d, e) ==
    /\ job[d] = Idle
    /\ ~Searching(d)
    /\ e \notin used
    /\ job' = [job EXCEPT ![d] =
               [ev |-> e, at |-> Len(archive) + LineLen, pc |-> "seeked"]]
    /\ used' = used \cup {e}
    /\ writers' = writers \cup {d}
    /\ UNCHANGED <<archive, rows, offset, fts, search, acked>>

\* A fresh id; the file is opened and its end is the offset of the new line.
Seek(d, e) ==
    /\ job[d] = Idle
    /\ ~Searching(d)
    /\ e \notin used
    /\ job' = [job EXCEPT ![d] = [ev |-> e, at |-> Len(archive), pc |-> "seeked"]]
    /\ used' = used \cup {e}
    /\ writers' = writers \cup {d}
    /\ UNCHANGED <<archive, rows, offset, fts, search, acked>>

\* write_all to a file opened for append: it lands at the end, wherever that is.
WriteLine(d) ==
    /\ job[d].pc = "seeked"
    /\ archive' = archive \o Line(job[d].ev)
    /\ job' = [job EXCEPT ![d].pc = "written"]
    /\ UNCHANGED <<rows, offset, fts, search, used, writers, acked>>

\* write_all fails, or the process dies, with part of the line in the file.
WriteTorn(d) ==
    /\ job[d].pc = "seeked"
    /\ archive' = archive \o Torn(job[d].ev)
    /\ job' = [job EXCEPT ![d] = Idle]
    /\ UNCHANGED <<rows, offset, fts, search, used, writers, acked>>

InsertRow(d) ==
    /\ job[d].pc = "written"
    /\ rows' = rows \cup {job[d].ev}
    /\ offset' = [offset EXCEPT ![job[d].ev] = job[d].at]
    /\ job' = [job EXCEPT ![d].pc = "inserted"]
    /\ UNCHANGED <<archive, fts, search, used, writers, acked>>

\* Variant: an error of the full-text INSERT is dropped.
AnswerAnyway(d) ==
    /\ job[d].pc = "inserted"
    /\ \E indexed \in SUBSET {job[d].ev} : fts' = fts \cup indexed
    /\ acked' = acked \cup {job[d].ev}
    /\ job' = [job EXCEPT ![d] = Idle]
    /\ UNCHANGED <<archive, rows, offset, search, used, writers>>

\* The full-text entry.  The vector index is told behind it; its errors are
\* dropped, but a panic in it, or a crash, still loses the answer.
InsertFts(d) ==
    /\ job[d].pc = "inserted"
    /\ fts' = fts \cup {job[d].ev}
    /\ \E answered \in SUBSET {job[d].ev} : acked' = acked \cup answered
    /\ job' = [job EXCEPT ![d] = Idle]
    /\ UNCHANGED <<archive, rows, offset, search, used, writers>>

\* Any statement fails, or the process dies and starts again: nothing undoes
\* what the earlier statements did, and opening the store repairs nothing.
Abandon(d) ==
    /\ job[d] # Idle
    /\ job' = [job EXCEPT ![d] = Idle]
    /\ UNCHANGED <<archive, rows, offset, fts, search, used, writers, acked>>

\* What a SELECT with the limit returns of the rows it matches.  Which of them
\* is open: the full-text query has no order, and time is no part of the model.
Limited(matches) ==
    {hits \in SUBSET matches : IF Cardinality(matches) <= SearchLimit
                               THEN hits = matches
                               ELSE Cardinality(hits) = SearchLimit}

\* search_raw_events_fts, joined with the rows.  An SQLite error counts as
\* nothing found.
SearchFts(d, q) ==
    /\ job[d] = Idle
    /\ search.pc # "like"
    /\ \E hits \in Limited(fts \cap rows \cap TokenMatch[q]) \cup {{}} :
          search' = [pc |-> IF hits = {} THEN "like" ELSE "answered", by |-> d, q |-> q,
                     hits |-> hits, before |-> acked]
    /\ UNCHANGED appendVars

\* search_raw_events_like.
SearchLike ==
    /\ search.pc = "like"
    /\ \E hits \in Limited(rows \cap LikeMatch[search.q]) :
          search' = [search EXCEPT !.pc = "answered", !.hits = hits]
    /\ UNCHANGED appendVars

\* An error of the second SELECT, or the daemon's end, ends the search.
SearchFails ==
    /\ search.pc = "like"
    /\ search' = NoSearch
    /\ UNCHANGED appendVars

RawNext == \/ \E d \in Daemon : \/ \E e \in Event : Seek(d, e)
                                \/ WriteLine(d)
                                \/ WriteTorn(d)
                                \/ InsertRow(d)
                                \/ InsertFts(d)
                                \/ Abandon(d)
                                \/ \E q \in Query : SearchFts(d, q)
           \/ SearchLike
           \/ SearchFails

RawSpec == RawInit /\ [][RawNext]_archiveVars
-----------------------------------------------------------------------------
LineAt(e, at) == /\ at + LineLen <= Len(archive)
                 /\ \A i \in 1 .. LineLen : archive[at + i] = Line(e)[i]

\* What reading the file line by line recovers: a line that does not begin
\* behind a newline is glued to the torn one before it and does not parse.
Readable == {e \in Event : \E i \in 0 .. Len(archive) :
                /\ i = 0 \/ archive[i].end
                /\ LineAt(e, i)}

(***************************************************************************)
(* As long as one daemon only has appended to the archive, archive_offset  *)
(* and archive_len of a row select exactly the line of its event, torn     *)
(* writes and crashes of earlier appends notwithstanding.                  *)
(***************************************************************************)
RowPointsAtItsLine ==
    (\A c, d \in writers : c = d) => \A e \in rows : LineAt(e, offset[e])

(***************************************************************************)
(* With several daemons another line may slip in between seek and write:   *)
(* the offset is then too small, but the line is in the file behind it.    *)
(***************************************************************************)
LineNotBeforeOffset ==
    \A e \in rows : \E i \in offset[e] .. Len(archive) : LineAt(e, i)

(***************************************************************************)
(* What a search leaves out: an event whose observe was answered before it *)
(* began, and whose content contains the text, is missing from the answer  *)
(* only if that is cut off at the limit, or if the text is merely a part   *)
(* of its words and the answer has an event with the text as whole tokens. *)
(* So an event with the tokens is found as long as the limit is not met,   *)
(* and an empty answer means that no answered event contains the text,     *)
(* whatever other daemons append meanwhile and failed before.              *)
(***************************************************************************)
SearchMissesForCause ==
    search.pc = "answered" =>
        \A e \in (search.before \cap LikeMatch[search.q]) \ search.hits :
            \/ Cardinality(search.hits) = SearchLimit
            \/ /\ e \notin TokenMatch[search.q]
               /\ search.hits \cap TokenMatch[search.q] # {}

(***************************************************************************)
(* docs/architecture.md: "JSONL is the raw event archive", "SQLite is the  *)
(* rebuildable projection".  So the archive yields every row.              *)
(***************************************************************************)
RowsRebuildable == rows \subseteq Readable
=============================================================================
