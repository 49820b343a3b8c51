-------------------------- MODULE RawArchiveProofs --------------------------
(***************************************************************************)
(* Theorems about RawArchive, for any events, searches, contents and       *)
(* daemons: what a search may leave out of the answered events, and that   *)
(* rows point at their lines until a second daemon appends, and never      *)
(* behind them.                                                            *)
(***************************************************************************)
EXTENDS RawArchive, TLAPS

\* The statements run in order: a job whose row is in has a row, and an
\* answer follows both INSERTs.  So both SELECTs of a search meet what was
\* answered before it began.
IndexInv == /\ RawTypeOK
            /\ \A d \in Daemon : job[d].pc = "inserted" => job[d].ev \in rows
            /\ acked \subseteq rows \cap fts
            /\ search # NoSearch => search.before \subseteq acked
            /\ SearchMissesForCause

Alone == \A c, d \in writers : c = d

\* With one writer the end of the file does not move between seek and write.
OffsetInv == /\ RawTypeOK
             /\ \A d \in Daemon : job[d] # Idle => d \in writers
             /\ Alone =>
                  /\ \A d \in Daemon :
                       /\ job[d].pc = "seeked" => job[d].at = Len(archive)
                       /\ job[d].pc \in {"written", "inserted"} => LineAt(job[d].ev, job[d].at)
                  /\ \A e \in rows : LineAt(e, offset[e])
-----------------------------------------------------------------------------
\* Appending to the archive moves no line.
LEMMA AppendKeepsLines ==
    ASSUME RawTypeOK, NEW more \in Seq(Cell), archive' = archive \o more,
           NEW e \in Event, NEW at \in Nat, LineAt(e, at)
    PROVE  LineAt(e, at)'
<1>1. archive \in Seq(Cell) /\ Len(archive) \in Nat /\ Len(more) \in Nat
  BY DEF RawTypeOK
<1>2. Len(archive') = Len(archive) + Len(more)
  BY <1>1
<1>3. \A i \in 1 .. LineLen : archive'[at + i] = archive[at + i]
  BY <1>1 DEF LineAt, LineLen
<1>. QED
  BY <1>1, <1>2, <1>3 DEF LineAt, LineLen

\* What is appended begins at the archive's old end.
LEMMA AppendedAtEnd ==
    ASSUME NEW S, NEW s \in Seq(S), NEW t \in Seq(S)
    PROVE  /\ Len(s) \in Nat
           /\ Len(s \o t) = Len(s) + Len(t)
           /\ \A i \in 1 .. Len(t) : (s \o t)[Len(s) + i] = t[i]
OBVIOUS

LEMMA AppendedLine ==
    ASSUME RawTypeOK, NEW e \in Event, archive' = archive \o Line(e),
           NEW at, at = Len(archive)
    PROVE  LineAt(e, at)'
<1>1. archive \in Seq(Cell)
  BY DEF RawTypeOK
<1>2. Line(e) \in Seq(Cell)
  BY DEF Line, Cell
<1>3. Len(Line(e)) = 2
  BY DEF Line
<1>4. /\ Len(archive) \in Nat
      /\ Len(archive \o Line(e)) = Len(archive) + Len(Line(e))
      /\ \A i \in 1 .. Len(Line(e)) : (archive \o Line(e))[Len(archive) + i] = Line(e)[i]
  BY <1>1, <1>2, AppendedAtEnd, Zenon
<1>. QED
  BY <1>3, <1>4 DEF LineAt, LineLen

LEMMA TypeStep == RawTypeOK /\ [RawNext]_archiveVars => RawTypeOK'
<1> SUFFICES ASSUME RawTypeOK, [RawNext]_archiveVars PROVE RawTypeOK'
  OBVIOUS
<1> USE DEF RawTypeOK, Job, Idle
<1>1. ASSUME NEW d \in Daemon, NEW e \in Event, Seek(d, e) PROVE RawTypeOK'
  <2>1. Len(archive) \in Nat
    OBVIOUS
  <2>. QED
    BY <1>1, <2>1 DEF Seek
<1>2. ASSUME NEW d \in Daemon, job[d].pc # "idle" PROVE job[d] \in Job
  BY <1>2
<1>3. ASSUME NEW d \in Daemon, WriteLine(d) PROVE RawTypeOK'
  <2>1. job[d] \in Job
    BY <1>2, <1>3 DEF WriteLine
  <2>2. Line(job[d].ev) \in Seq(Cell)
    BY <2>1 DEF Line, Cell
  <2>3. archive' \in Seq(Cell)
    BY <1>3, <2>2 DEF WriteLine
  <2>4. job' \in [Daemon -> Job \cup {Idle}]
    BY <1>3, <2>1 DEF WriteLine
  <2>. QED
    BY <1>3, <2>3, <2>4 DEF WriteLine
<1>4. ASSUME NEW d \in Daemon, WriteTorn(d) PROVE RawTypeOK'
  <2>1. job[d] \in Job
    BY <1>2, <1>4 DEF WriteTorn
  <2>2. Torn(job[d].ev) \in Seq(Cell)
    BY <2>1 DEF Torn, Cell
  <2>. QED
    BY <1>4, <2>1, <2>2 DEF WriteTorn
<1>5. ASSUME NEW d \in Daemon, InsertRow(d) PROVE RawTypeOK'
  <2>1. job[d] \in Job
    BY <1>2, <1>5 DEF InsertRow
  <2>. QED
    BY <1>5, <2>1 DEF InsertRow
<1>6. ASSUME NEW d \in Daemon, InsertFts(d) PROVE RawTypeOK'
  <2>1. job[d] \in Job
    BY <1>2, <1>6 DEF InsertFts
  <2>. QED
    BY <1>6, <2>1 DEF InsertFts
<1>7. ASSUME NEW d \in Daemon, Abandon(d) PROVE RawTypeOK'
  BY <1>7 DEF Abandon
<1>8. CASE UNCHANGED archiveVars
  BY <1>8 DEF archiveVars, appendVars
<1>9. ASSUME NEW d \in Daemon, NEW q \in Query, SearchFts(d, q) PROVE RawTypeOK'
  <2>1. PICK hits \in SUBSET Event :
           search' = [pc |-> IF hits = {} THEN "like" ELSE "answered", by |-> d, q |-> q,
                      hits |-> hits, before |-> acked]
    BY <1>9 DEF SearchFts, Limited
  <2>2. search' \in Search
    BY <2>1 DEF Search
  <2>. QED
    BY <1>9, <2>2 DEF SearchFts, appendVars
<1>10. CASE SearchLike
  <2>1. search \in Search
    BY <1>10 DEF SearchLike, NoSearch
  <2>2. PICK hits \in SUBSET Event : search' = [search EXCEPT !.pc = "answered", !.hits = hits]
    BY <1>10 DEF SearchLike, Limited
  <2>3. search' \in Search
    BY <2>1, <2>2 DEF Search
  <2>. QED
    BY <1>10, <2>3 DEF SearchLike, appendVars
<1>11. CASE SearchFails
  BY <1>11 DEF SearchFails, appendVars
<1>. QED
  BY <1>1, <1>3, <1>4, <1>5, <1>6, <1>7, <1>8, <1>9, <1>10, <1>11 DEF RawNext

\* A SELECT leaves a row out that it matches only if it is cut off.
LEMMA LimitCuts ==
    ASSUME NEW matches, NEW hits \in Limited(matches), NEW e \in matches \ hits
    PROVE  Cardinality(hits) = SearchLimit
  BY DEF Limited

LEMMA SearchStep ==
    ASSUME IndexInv, RawTypeOK',
           SearchLike \/ \E d \in Daemon, q \in Query : SearchFts(d, q)
    PROVE  IndexInv'
<1>1. UNCHANGED appendVars
  BY DEF SearchLike, SearchFts
<1>2. acked \subseteq rows \cap fts /\ acked \subseteq Event
  BY DEF IndexInv, RawTypeOK
<1>3. CASE SearchLike
  <2>1. search \in Search /\ search.before \subseteq acked
    <3>1. search \in Search \cup {NoSearch}
      BY DEF IndexInv, RawTypeOK
    <3>2. search # NoSearch
      <4>1. NoSearch.pc = "none"
        BY DEF NoSearch
      <4>. QED
        BY <1>3, <4>1 DEF SearchLike
    <3>3. search # NoSearch => search.before \subseteq acked
      BY DEF IndexInv
    <3>. QED
      BY <3>1, <3>2, <3>3
  <2>2. PICK hits \in Limited(rows \cap LikeMatch[search.q]) :
           search' = [search EXCEPT !.pc = "answered", !.hits = hits]
    BY <1>3 DEF SearchLike
  <2>3. search'.before = search.before /\ search'.q = search.q /\ search'.hits = hits
    BY <2>1, <2>2 DEF Search
  <2>4. \A e \in (search.before \cap LikeMatch[search.q]) \ hits : Cardinality(hits) = SearchLimit
    BY <1>2, <2>1, LimitCuts
  <2>5. SearchMissesForCause'
    BY <2>3, <2>4 DEF SearchMissesForCause
  <2>6. search'.before \subseteq acked'
    BY <1>1, <2>1, <2>3 DEF appendVars
  <2>. QED
    BY <1>1, <2>5, <2>6 DEF IndexInv, appendVars
<1>4. ASSUME NEW d \in Daemon, NEW q \in Query, SearchFts(d, q) PROVE IndexInv'
  <2>1. PICK hits \in Limited(fts \cap rows \cap TokenMatch[q]) \cup {{}} :
           search' = [pc |-> IF hits = {} THEN "like" ELSE "answered", by |-> d, q |-> q,
                      hits |-> hits, before |-> acked]
    BY <1>4 DEF SearchFts
  <2>2. search'.before = acked /\ search'.q = q /\ search'.hits = hits
    BY <2>1
  <2>3. CASE hits = {}
    BY <1>1, <2>1, <2>2, <2>3 DEF IndexInv, SearchMissesForCause, appendVars
  <2>4. CASE hits # {}
    <3>1. hits \in Limited(fts \cap rows \cap TokenMatch[q])
      BY <2>1, <2>4
    <3>2. hits \cap TokenMatch[q] # {}
      BY <2>4, <3>1 DEF Limited
    <3>3. ASSUME NEW e \in (acked \cap LikeMatch[q]) \ hits, e \in TokenMatch[q]
          PROVE  Cardinality(hits) = SearchLimit
      BY <1>2, <3>1, <3>3, LimitCuts
    <3>. QED
      BY <1>1, <2>2, <3>2, <3>3 DEF IndexInv, SearchMissesForCause, appendVars
  <2>. QED
    BY <2>3, <2>4
<1>. QED
  BY <1>3, <1>4

LEMMA IndexStep == IndexInv /\ [RawNext]_archiveVars => IndexInv'
<1> SUFFICES ASSUME IndexInv, [RawNext]_archiveVars PROVE IndexInv'
  OBVIOUS
<1>1. RawTypeOK'
  BY TypeStep DEF IndexInv
<1> USE DEF IndexInv, RawTypeOK, Job, Idle
<1>0. ASSUME UNCHANGED search PROVE SearchMissesForCause'
  BY <1>0 DEF SearchMissesForCause
<1>2. ASSUME NEW d \in Daemon, NEW e \in Event, Seek(d, e) PROVE IndexInv'
  BY <1>0, <1>1, <1>2 DEF Seek
<1>3. ASSUME NEW d \in Daemon, WriteLine(d) PROVE IndexInv'
  BY <1>0, <1>1, <1>3 DEF WriteLine
<1>4. ASSUME NEW d \in Daemon, WriteTorn(d) PROVE IndexInv'
  BY <1>0, <1>1, <1>4 DEF WriteTorn
<1>5. ASSUME NEW d \in Daemon, InsertRow(d) PROVE IndexInv'
  BY <1>0, <1>1, <1>5 DEF InsertRow
<1>6. ASSUME NEW d \in Daemon, InsertFts(d) PROVE IndexInv'
  BY <1>0, <1>1, <1>6 DEF InsertFts
<1>7. ASSUME NEW d \in Daemon, Abandon(d) PROVE IndexInv'
  BY <1>0, <1>1, <1>7 DEF Abandon
<1>8. CASE UNCHANGED archiveVars
  BY <1>0, <1>1, <1>8 DEF archiveVars, appendVars
<1>9. CASE SearchFails
  BY <1>1, <1>9 DEF SearchFails, SearchMissesForCause, NoSearch, appendVars
<1>. QED
  BY <1>1, <1>2, <1>3, <1>4, <1>5, <1>6, <1>7, <1>8, <1>9, SearchStep DEF RawNext

(***************************************************************************)
(* A search leaves out an answered event with the text only at the limit,  *)
(* or for an event with the text as whole tokens, whatever other daemons   *)
(* append, whatever fails and whoever crashes.                             *)
(***************************************************************************)
THEOREM SearchesMissForCause == RawSpec => []SearchMissesForCause
<1>1. RawInit => IndexInv
  BY DEF RawInit, IndexInv, RawTypeOK, Idle, NoSearch, SearchMissesForCause
<1>2. IndexInv => SearchMissesForCause
  BY DEF IndexInv
<1>. QED
  BY <1>1, <1>2, IndexStep, PTL DEF RawSpec

LEMMA OffsetStep == OffsetInv /\ [RawNext]_archiveVars => OffsetInv'
<1> SUFFICES ASSUME OffsetInv, [RawNext]_archiveVars PROVE OffsetInv'
  OBVIOUS
<1>1. RawTypeOK /\ RawTypeOK'
  BY TypeStep DEF OffsetInv
<1>2. job \in [Daemon -> Job \cup {Idle}]
  BY <1>1 DEF RawTypeOK
<1>3. CASE UNCHANGED archiveVars
  BY <1>1, <1>3 DEF OffsetInv, Alone, LineAt, archiveVars, appendVars
<1>14. CASE UNCHANGED appendVars
  BY <1>1, <1>14 DEF OffsetInv, Alone, LineAt, appendVars
<1> SUFFICES ASSUME NEW d0 \in Daemon,
                    (\E e \in Event : Seek(d0, e)) \/ WriteLine(d0) \/ WriteTorn(d0)
                    \/ InsertRow(d0) \/ InsertFts(d0) \/ Abandon(d0)
             PROVE  OffsetInv'
  BY <1>3, <1>14 DEF RawNext, SearchFts, SearchLike, SearchFails
\* The daemon of the step has appended, so if it is alone the others are idle.
<1>4. /\ writers \subseteq writers' /\ d0 \in writers'
      /\ \A d \in Daemon \ {d0} : job'[d] = job[d]
  BY <1>2 DEF OffsetInv, Seek, WriteLine, WriteTorn, InsertRow, InsertFts, Abandon, Idle
<1>5. \A d \in Daemon : job'[d] # Idle => d \in writers'
  BY <1>4 DEF OffsetInv
<1> SUFFICES ASSUME Alone'
             PROVE  /\ job'[d0].pc = "seeked" => job'[d0].at = Len(archive')
                    /\ job'[d0].pc \in {"written", "inserted"}
                         => LineAt(job[d0].ev, job[d0].at)'
                    /\ \A e \in rows' : LineAt(e, offset[e])'
  <2>1. ASSUME Alone', NEW d \in Daemon \ {d0} PROVE job'[d] = Idle
    BY <1>4, <1>5, <2>1 DEF Alone
  <2>. QED
    BY <1>1, <1>5, <2>1 DEF OffsetInv, Idle, LineAt
<1>6. Alone
  BY <1>4 DEF Alone
<1>7. \A e \in rows : e \in Event /\ offset[e] \in Nat /\ LineAt(e, offset[e])
  BY <1>1, <1>6 DEF OffsetInv, RawTypeOK
<1>8. ASSUME NEW e \in Event, Seek(d0, e)
      PROVE  /\ job'[d0].pc = "seeked" => job'[d0].at = Len(archive')
             /\ job'[d0].pc \notin {"written", "inserted"}
             /\ \A f \in rows' : LineAt(f, offset[f])'
  <2>1. /\ job'[d0] = [ev |-> e, at |-> Len(archive), pc |-> "seeked"]
        /\ UNCHANGED <<archive, rows, offset>>
    BY <1>2, <1>8 DEF Seek
  <2>. QED
    BY <1>7, <2>1 DEF LineAt
\* Whatever is appended, the rows' lines stay where they are.
<1>9. ASSUME NEW more \in Seq(Cell), archive' = archive \o more, UNCHANGED <<rows, offset>>
      PROVE  \A f \in rows' : LineAt(f, offset[f])'
  <2> SUFFICES ASSUME NEW f \in rows PROVE LineAt(f, offset[f])'
    BY <1>9
  <2>1. PICK n \in Nat : n = offset[f]
    BY <1>7
  <2>2. LineAt(f, n)'
    BY <1>1, <1>7, <1>9, <2>1, AppendKeepsLines
  <2>. QED
    BY <1>9, <2>1, <2>2 DEF LineAt
<1>10. CASE WriteLine(d0)
  <2>1. job[d0] \in Job
    BY <1>2, <1>10 DEF WriteLine, Idle
  <2>2. PICK e \in Event : e = job[d0].ev
    BY <2>1 DEF Job
  <2>3. PICK at \in Nat : at = job[d0].at
    BY <2>1 DEF Job
  <2>4. /\ at = Len(archive)
        /\ archive' = archive \o Line(e)
        /\ UNCHANGED <<rows, offset>>
    BY <1>6, <1>10, <2>2, <2>3 DEF WriteLine, OffsetInv
  <2>5. job'[d0].ev = e /\ job'[d0].at = at /\ job'[d0].pc = "written"
    BY <1>2, <1>10, <2>1, <2>2, <2>3 DEF WriteLine, Job
  <2>6. Line(e) \in Seq(Cell)
    BY DEF Line, Cell
  <2>7. LineAt(e, at)'
    BY <1>1, <2>4, AppendedLine
  <2>. QED
    BY <1>9, <2>4, <2>5, <2>6, <2>7 DEF LineAt
<1>11. CASE WriteTorn(d0)
  <2>1. job[d0] \in Job /\ job'[d0] = Idle
    BY <1>2, <1>11 DEF WriteTorn, Idle
  <2>2. archive' = archive \o Torn(job[d0].ev) /\ UNCHANGED <<rows, offset>>
    BY <1>11 DEF WriteTorn
  <2>3. Torn(job[d0].ev) \in Seq(Cell)
    BY <2>1 DEF Torn, Cell, Job
  <2>. QED
    BY <1>9, <2>1, <2>2, <2>3 DEF Idle
<1>12. CASE InsertRow(d0)
  <2>1. /\ job[d0] \in Job /\ job[d0].pc = "written"
        /\ rows' = rows \cup {job[d0].ev}
        /\ offset' = [offset EXCEPT ![job[d0].ev] = job[d0].at]
        /\ archive' = archive
    BY <1>2, <1>12 DEF InsertRow, Idle
  <2>2. job'[d0].ev = job[d0].ev /\ job'[d0].at = job[d0].at /\ job'[d0].pc = "inserted"
    BY <1>2, <1>12, <2>1 DEF InsertRow, Job
  <2>3. LineAt(job[d0].ev, job[d0].at)
    BY <1>6, <2>1 DEF OffsetInv
  <2>4. \A f \in rows' : LineAt(f, offset'[f])
    BY <1>1, <1>7, <2>1, <2>3 DEF RawTypeOK, Job
  <2>. QED
    BY <2>1, <2>2, <2>3, <2>4 DEF LineAt
<1>13. CASE InsertFts(d0) \/ Abandon(d0)
  <2>1. job'[d0] = Idle /\ UNCHANGED <<archive, rows, offset>>
    BY <1>2, <1>13 DEF InsertFts, Abandon
  <2>. QED
    BY <1>7, <2>1 DEF LineAt, Idle
<1>. QED
  BY <1>8, <1>10, <1>11, <1>12, <1>13

(***************************************************************************)
(* Until a second daemon appends to the archive, every row selects exactly *)
(* the line of its event, after any number of torn writes and crashes.     *)
(***************************************************************************)
THEOREM RowsPointAtLines == RawSpec => []RowPointsAtItsLine
<1>1. RawInit => OffsetInv
  BY DEF RawInit, OffsetInv, RawTypeOK, Idle
<1>2. OffsetInv => RowPointsAtItsLine
  BY DEF OffsetInv, Alone, RowPointsAtItsLine
<1>. QED
  BY <1>1, <1>2, OffsetStep, PTL DEF RawSpec
-----------------------------------------------------------------------------
LineFrom(e, at) == \E i \in at .. Len(archive) : LineAt(e, i)

\* What was the end of the file when the daemon looked is not behind the line.
BehindInv == /\ RawTypeOK
             /\ \A d \in Daemon :
                  /\ job[d].pc = "seeked" => job[d].at <= Len(archive)
                  /\ job[d].pc = "written" => LineFrom(job[d].ev, job[d].at)
             /\ \A e \in rows : LineFrom(e, offset[e])

LEMMA AppendKeepsFrom ==
    ASSUME RawTypeOK, NEW more \in Seq(Cell), archive' = archive \o more,
           NEW e \in Event, NEW at \in Nat, LineFrom(e, at)
    PROVE  LineFrom(e, at)'
<1>1. Len(archive) \in Nat /\ Len(more) \in Nat /\ Len(archive') = Len(archive) + Len(more)
  BY DEF RawTypeOK
<1>2. PICK i \in at .. Len(archive) : LineAt(e, i)
  BY DEF LineFrom
<1>3. i \in Nat /\ i \in at .. Len(archive')
  BY <1>1
<1>4. LineAt(e, i)'
  BY <1>2, <1>3, AppendKeepsLines
<1>. QED
  BY <1>3, <1>4 DEF LineFrom

\* Another daemon's append disturbs neither the jobs nor the rows.
LEMMA AppendKeepsBehind ==
    ASSUME BehindInv, RawTypeOK', NEW more \in Seq(Cell), archive' = archive \o more,
           UNCHANGED <<rows, offset>>, NEW d0 \in Daemon,
           \A d \in Daemon \ {d0} : job'[d] = job[d],
           job'[d0].pc # "seeked", job'[d0].pc = "written" => LineFrom(job[d0].ev, job[d0].at)',
           job'[d0].pc = "written" => job'[d0].ev = job[d0].ev /\ job'[d0].at = job[d0].at
    PROVE  BehindInv'
<1>1. RawTypeOK /\ Len(archive) \in Nat /\ Len(archive') \in Nat /\ Len(archive) <= Len(archive')
  BY DEF BehindInv, RawTypeOK
<1>2. \A e \in rows' : LineFrom(e, offset[e])'
  <2> SUFFICES ASSUME NEW e \in rows PROVE LineFrom(e, offset[e])'
    OBVIOUS
  <2>1. PICK at \in Nat : at = offset[e] /\ LineFrom(e, at)
    BY <1>1 DEF BehindInv, RawTypeOK
  <2>2. LineFrom(e, at)'
    BY <1>1, <2>1, AppendKeepsFrom DEF RawTypeOK
  <2>. QED
    BY <2>1, <2>2 DEF LineFrom, LineAt
<1>3. ASSUME NEW d \in Daemon \ {d0}
      PROVE  /\ job'[d].pc = "seeked" => job'[d].at <= Len(archive')
             /\ job'[d].pc = "written" => LineFrom(job[d].ev, job[d].at)'
  <2>1. job'[d] = job[d]
    OBVIOUS
  <2>2. ASSUME job[d].pc = "seeked" PROVE job'[d].at <= Len(archive')
    <3>1. job[d].at \in Nat /\ job[d].at <= Len(archive)
      BY <2>2, <1>1 DEF BehindInv, RawTypeOK, Job, Idle
    <3>. QED
      BY <1>1, <2>1, <3>1
  <2>3. ASSUME job[d].pc = "written" PROVE LineFrom(job[d].ev, job[d].at)'
    <3>1. job[d] \in Job
      BY <2>3, <1>1 DEF RawTypeOK, Idle
    <3>2. PICK e \in Event, at \in Nat : e = job[d].ev /\ at = job[d].at
      BY <3>1 DEF Job
    <3>3. LineFrom(e, at)'
      BY <2>3, <3>2, <1>1, AppendKeepsFrom DEF BehindInv
    <3>4. job'[d].ev = e /\ job'[d].at = at
      BY <2>1, <3>2
    <3>. QED
      BY <3>3, <3>4, Zenon DEF LineFrom, LineAt
  <2>. QED
    BY <2>1, <2>2, <2>3
<1>4. \A d \in Daemon : /\ job'[d].pc = "seeked" => job'[d].at <= Len(archive')
                        /\ job'[d].pc = "written" => LineFrom(job[d].ev, job[d].at)'
  BY <1>3
<1>. QED
  BY <1>2, <1>4 DEF BehindInv

LEMMA BehindStep == BehindInv /\ [RawNext]_archiveVars => BehindInv'
<1> SUFFICES ASSUME BehindInv, [RawNext]_archiveVars PROVE BehindInv'
  OBVIOUS
<1>1. RawTypeOK /\ RawTypeOK'
  BY TypeStep DEF BehindInv
<1>2. job \in [Daemon -> Job \cup {Idle}] /\ Len(archive) \in Nat
  BY <1>1 DEF RawTypeOK
<1>3. ASSUME UNCHANGED <<archive, rows, offset>>, NEW d0 \in Daemon,
             \A d \in Daemon \ {d0} : job'[d] = job[d],
             job'[d0].pc = "seeked" => job'[d0].at <= Len(archive), job'[d0].pc # "written"
      PROVE  BehindInv'
  BY <1>1, <1>3 DEF BehindInv, LineFrom, LineAt
<1>4. ASSUME NEW d \in Daemon, NEW e \in Event, Seek(d, e) PROVE BehindInv'
  <2>1. /\ job'[d] = [ev |-> e, at |-> Len(archive), pc |-> "seeked"]
        /\ \A c \in Daemon \ {d} : job'[c] = job[c]
        /\ UNCHANGED <<archive, rows, offset>>
    BY <1>2, <1>4 DEF Seek
  <2>. QED
    BY <1>2, <1>3, <2>1
<1>5. ASSUME NEW d \in Daemon, WriteLine(d) PROVE BehindInv'
  <2>1. job[d] \in Job /\ job[d].pc = "seeked"
    BY <1>2, <1>5 DEF WriteLine, Idle
  <2>2. PICK e \in Event, at \in Nat : e = job[d].ev /\ at = job[d].at
    BY <2>1 DEF Job
  <2>3. /\ Line(e) \in Seq(Cell) /\ archive' = archive \o Line(e) /\ UNCHANGED <<rows, offset>>
        /\ \A c \in Daemon \ {d} : job'[c] = job[c]
    BY <1>2, <1>5, <2>2 DEF WriteLine, Line, Cell
  <2>4. job'[d].pc = "written" /\ job'[d].ev = job[d].ev /\ job'[d].at = job[d].at
    BY <1>2, <1>5, <2>1 DEF WriteLine, Job
  <2>5. LineFrom(e, at)'
    <3>1. PICK n \in Nat : n = Len(archive)
      BY <1>2
    <3>2. LineAt(e, n)'
      BY <1>1, <2>3, <3>1, AppendedLine
    <3>3. n + LineLen <= Len(archive') /\ Len(archive') \in Nat
      BY <1>1, <3>2 DEF LineAt, RawTypeOK
    <3>4. at <= n
      BY <2>1, <2>2, <3>1 DEF BehindInv
    <3>5. n \in at .. Len(archive')
      BY <2>2, <3>3, <3>4 DEF LineLen
    <3>. QED
      BY <3>2, <3>5 DEF LineFrom
  <2>6. job'[d].ev = e /\ job'[d].at = at
    BY <2>2, <2>4
  <2>7. LineFrom(job[d].ev, job[d].at)'
    BY <2>5, <2>6, Zenon DEF LineFrom, LineAt
  <2>. QED
    BY <1>1, <2>3, <2>4, <2>7, AppendKeepsBehind
<1>6. ASSUME NEW d \in Daemon, WriteTorn(d) PROVE BehindInv'
  <2>1. job[d] \in Job /\ job'[d] = Idle
    BY <1>2, <1>6 DEF WriteTorn, Idle
  <2>2. /\ Torn(job[d].ev) \in Seq(Cell) /\ archive' = archive \o Torn(job[d].ev)
        /\ UNCHANGED <<rows, offset>> /\ \A c \in Daemon \ {d} : job'[c] = job[c]
    BY <1>2, <1>6, <2>1 DEF WriteTorn, Torn, Cell, Job
  <2>3. job'[d].pc # "seeked" /\ job'[d].pc # "written"
    BY <2>1 DEF Idle
  <2>. QED
    BY <1>1, <2>2, <2>3, AppendKeepsBehind
<1>7. ASSUME NEW d \in Daemon, InsertRow(d) PROVE BehindInv'
  <2>1. /\ job[d] \in Job /\ job[d].pc = "written" /\ LineFrom(job[d].ev, job[d].at)
        /\ rows' = rows \cup {job[d].ev}
        /\ offset' = [offset EXCEPT ![job[d].ev] = job[d].at]
        /\ archive' = archive
    BY <1>2, <1>7 DEF BehindInv, InsertRow, Idle
  <2>2. job'[d].pc = "inserted" /\ \A c \in Daemon \ {d} : job'[c] = job[c]
    BY <1>2, <1>7, <2>1 DEF InsertRow, Job
  <2>3. \A e \in rows' : LineFrom(e, offset'[e])
    BY <1>1, <2>1 DEF BehindInv, RawTypeOK, Job
  <2>4. \A e \in rows' : LineFrom(e, offset[e])'
    <3> SUFFICES ASSUME NEW e \in rows' PROVE LineFrom(e, offset[e])'
      OBVIOUS
    <3>1. PICK at : at = offset'[e]
      OBVIOUS
    <3>2. LineFrom(e, at)
      BY <2>3, <3>1
    <3>3. LineFrom(e, at)'
      BY <2>1, <3>2, Zenon DEF LineFrom, LineAt
    <3>. QED
      BY <3>1, <3>3, Zenon DEF LineFrom, LineAt
  <2>5. ASSUME NEW c \in Daemon
        PROVE  /\ job'[c].pc = "seeked" => job'[c].at <= Len(archive')
               /\ job'[c].pc = "written" => LineFrom(job[c].ev, job[c].at)'
    <3>1. CASE c = d
      BY <2>2, <3>1
    <3>2. CASE c # d
      <4>1. job'[c] = job[c]
        BY <2>2, <3>2
      <4>2. job[c].pc = "written" => LineFrom(job[c].ev, job[c].at)
        BY DEF BehindInv
      <4>3. PICK e, at : e = job[c].ev /\ at = job[c].at
        OBVIOUS
      <4>4. job[c].pc = "written" => LineFrom(e, at)'
        <5>1. job[c].pc = "written" => LineFrom(e, at)
          BY <4>2, <4>3
        <5>. QED
          BY <2>1, <5>1, Zenon DEF LineFrom, LineAt
      <4>5. job'[c].ev = e /\ job'[c].at = at
        BY <4>1, <4>3
      <4>6. job'[c].pc = "written" => LineFrom(job[c].ev, job[c].at)'
        BY <4>1, <4>4, <4>5, Zenon DEF LineFrom, LineAt
      <4>. QED
        BY <2>1, <4>1, <4>6 DEF BehindInv
    <3>. QED
      BY <3>1, <3>2
  <2>. QED
    BY <1>1, <2>4, <2>5 DEF BehindInv
<1>8. ASSUME NEW d \in Daemon, InsertFts(d) \/ Abandon(d) PROVE BehindInv'
  <2>1. /\ job'[d] = Idle /\ UNCHANGED <<archive, rows, offset>>
        /\ \A c \in Daemon \ {d} : job'[c] = job[c]
    BY <1>2, <1>8 DEF InsertFts, Abandon
  <2>. QED
    BY <1>3, <2>1 DEF Idle
<1>9. CASE UNCHANGED appendVars
  BY <1>1, <1>9 DEF appendVars, BehindInv, LineFrom, LineAt
<1>. QED
  BY <1>4, <1>5, <1>6, <1>7, <1>8, <1>9
     DEF RawNext, archiveVars, SearchFts, SearchLike, SearchFails

\* Every variable of a running instance has its type.
THEOREM RawTypeCorrect == RawSpec => []RawTypeOK
<1>1. RawInit => RawTypeOK
  BY DEF RawInit, RawTypeOK, Idle
<1>. QED
  BY <1>1, TypeStep, PTL DEF RawSpec

(***************************************************************************)
(* However many daemons append between each other's seeks and writes, the  *)
(* line of a row is in the archive, at its offset or behind it.            *)
(***************************************************************************)
THEOREM LinesBehindOffsets == RawSpec => []LineNotBeforeOffset
<1>1. RawInit => BehindInv
  BY DEF RawInit, BehindInv, RawTypeOK, Idle
<1>2. BehindInv => LineNotBeforeOffset
  BY DEF BehindInv, LineNotBeforeOffset, LineFrom
<1>. QED
  BY <1>1, <1>2, BehindStep, PTL DEF RawSpec
=============================================================================
