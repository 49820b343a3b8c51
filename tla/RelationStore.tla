--------------------------- MODULE RelationStore ----------------------------
(***************************************************************************)
(* POST /v1/continuation-relations and the migration that makes its edges  *)
(* unique.  create_continuation_relation is an INSERT OR IGNORE and, if    *)
(* that inserted nothing, a SELECT of the edge that was in the way: two    *)
(* statements with no transaction around them, while other daemons of the  *)
(* data directory insert, or open the store and migrate it.                *)
(***************************************************************************)
EXTENDS Naturals

CONSTANTS Triple,       \* (from_id, to_id, kind)
          Reason,
          NoReason,
          Continuation,
          Endpoints,    \* Endpoints[t]: from_id and to_id of t
          Daemon,
          Legacy,       \* tables that a version without the unique index leaves
          MaxRowid

Edge  == [t : Triple, r : Reason]
Table == UNION {[ids -> Edge] : ids \in SUBSET (1 .. MaxRowid)}

ASSUME RelationAssumption ==
    /\ MaxRowid \in Nat
    /\ NoReason \notin Reason
    /\ Endpoints \in [Triple -> SUBSET Continuation]
    /\ Legacy \subseteq Table

VARIABLES conts,    \* ids in the continuations table
          rows,     \* continuation_relations, by rowid
          indexed,  \* idx_continuation_relations_from_to_kind exists
          proc,     \* proc[d]: how far daemon d is
          asked,    \* asked[d]: the edge of d's ignored INSERT
          answered  \* history: the edges successful requests returned

relationVars == <<conts, rows, indexed, proc, asked, answered>>

Stage == {"down", "opening", "deduplicated", "ready", "ignored"}

NoEdge == [t |-> "none", r |-> NoReason]

RelTypeOK == /\ conts \subseteq Continuation
             /\ rows \in Table
             /\ indexed \in BOOLEAN
             /\ proc \in [Daemon -> Stage]
             /\ asked \in [Daemon -> Edge \cup {NoEdge}]
             /\ answered \subseteq Edge

With(t)   == {i \in DOMAIN rows : rows[i].t = t}
FirstOf(t) == CHOOSE i \in With(t) : \A j \in With(t) : i <= j

\* The continuations that a legacy table's edges name are in their table.
RelInit == /\ rows \in Legacy
           /\ conts = UNION {Endpoints[rows[i].t] : i \in DOMAIN rows}
           /\ indexed = FALSE
           /\ proc = [d \in Daemon |-> "down"]
           /\ asked = [d \in Daemon |-> NoEdge]
           /\ answered = {}
-----------------------------------------------------------------------------
Goto(d, stage) == proc' = [proc EXCEPT ![d] = stage]

OpenStore(d) == /\ proc[d] = "down"
                /\ Goto(d, "opening")
                /\ UNCHANGED <<conts, rows, indexed, asked, answered>>

Keep(ids) == rows' = [i \in ids |-> rows[i]]

\* Variant: MAX(rowid) in the DELETE's subquery.
KeepLast(d) ==
    /\ proc[d] = "opening"
    /\ Keep({i \in DOMAIN rows : \A j \in With(rows[i].t) : j <= i})
    /\ Goto(d, "deduplicated")
    /\ UNCHANGED <<conts, indexed, asked, answered>>

\* Variant: no GROUP BY in the DELETE's subquery.
KeepOne(d) ==
    /\ proc[d] = "opening"
    /\ Keep({i \in DOMAIN rows : \A j \in DOMAIN rows : i <= j})
    /\ Goto(d, "deduplicated")
    /\ UNCHANGED <<conts, indexed, asked, answered>>

\* Variant: GROUP BY from_id, to_id, kind, reason.
KeepPerReason(d) ==
    /\ proc[d] = "opening"
    /\ Keep({i \in DOMAIN rows : \A j \in With(rows[i].t) : rows[j] = rows[i] => i <= j})
    /\ Goto(d, "deduplicated")
    /\ UNCHANGED <<conts, indexed, asked, answered>>

\* DELETE ... WHERE rowid NOT IN (SELECT MIN(rowid) ... GROUP BY the triple).
Deduplicate(d) ==
    /\ proc[d] = "opening"
    /\ Keep({i \in DOMAIN rows : \A j \in With(rows[i].t) : i <= j})
    /\ Goto(d, "deduplicated")
    /\ UNCHANGED <<conts, indexed, asked, answered>>

\* CREATE UNIQUE INDEX IF NOT EXISTS; over duplicates it fails, and so does
\* Store::open.
CreateIndex(d) ==
    /\ proc[d] = "deduplicated"
    /\ IF indexed \/ \A i, j \in DOMAIN rows : rows[i].t = rows[j].t => i = j
       THEN indexed' = TRUE /\ Goto(d, "ready")
       ELSE UNCHANGED indexed /\ Goto(d, "down")
    /\ UNCHANGED <<conts, rows, asked, answered>>

\* POST /v1/continuations, as far as the foreign keys see it.
AddContinuation(d, c) ==
    /\ proc[d] = "ready"
    /\ conts' = conts \cup {c}
    /\ UNCHANGED <<rows, indexed, proc, asked, answered>>

\* SQLite's choice, one more than the largest, while MaxRowid allows it.
NewRowid == {i \in 1 .. MaxRowid : /\ \A j \in DOMAIN rows : j < i
                                   /\ i = 1 \/ i - 1 \in DOMAIN rows}

Append(id, e) == rows' = [i \in DOMAIN rows \cup {id} |-> IF i = id THEN e ELSE rows[i]]

Endpointed(t) == Endpoints[t] \subseteq conts

\* The INSERT adds the row, and the request is answered with the edge it sent;
\* the answer may be lost.  A missing endpoint is an error that IGNORE does
\* not cover, and changes nothing.
InsertNew(d, e) ==
    /\ proc[d] = "ready"
    /\ Endpointed(e.t)
    /\ ~ (indexed /\ With(e.t) # {})
    /\ \E id \in NewRowid : Append(id, e)
    /\ \E told \in SUBSET {e} : answered' = answered \cup told
    /\ UNCHANGED <<conts, indexed, proc, asked>>

\* The unique index has the triple: the INSERT is ignored.
InsertIgnored(d, e) ==
    /\ proc[d] = "ready"
    /\ Endpointed(e.t)
    /\ indexed /\ With(e.t) # {}
    /\ Goto(d, "ignored")
    /\ asked' = [asked EXCEPT ![d] = e]
    /\ UNCHANGED <<conts, rows, indexed, answered>>

\* SELECT the triple's edge; no row would be an error.
SelectExisting(d) ==
    /\ proc[d] = "ignored"
    /\ answered' = IF With(asked[d].t) = {} THEN answered
                   ELSE answered \cup {rows[FirstOf(asked[d].t)]}
    /\ Goto(d, "ready")
    /\ asked' = [asked EXCEPT ![d] = NoEdge]
    /\ UNCHANGED <<conts, rows, indexed>>

\* The daemon dies, in the middle of opening or of a request.
Die(d) == /\ proc[d] # "down"
          /\ Goto(d, "down")
          /\ asked' = [asked EXCEPT ![d] = NoEdge]
          /\ UNCHANGED <<conts, rows, indexed, answered>>

RelNext == \E d \in Daemon :
              \/ OpenStore(d) \/ Deduplicate(d) \/ CreateIndex(d)
              \/ \E c \in Continuation : AddContinuation(d, c)
              \/ \E e \in Edge : InsertNew(d, e) \/ InsertIgnored(d, e)
              \/ SelectExisting(d)
              \/ Die(d)

RelSpec == RelInit /\ [][RelNext]_relationVars
-----------------------------------------------------------------------------
(***************************************************************************)
(* The SELECT after an ignored INSERT finds its edge, whatever the other   *)
(* daemons did between the two statements: query_row cannot fail.          *)
(***************************************************************************)
IgnoredHasEdge == \A d \in Daemon : proc[d] = "ignored" => With(asked[d].t) # {}

(***************************************************************************)
(* Once one daemon's DELETE has run every triple has one edge, so that     *)
(* CREATE UNIQUE INDEX cannot fail and no daemon that opens the store      *)
(* later finds anything to delete.                                         *)
(***************************************************************************)
MigratedEdgesUnique ==
    (\E d \in Daemon : proc[d] \in {"deduplicated", "ready", "ignored"}) =>
        \A t \in Triple : \A i, j \in With(t) : i = j

FirstReason == [t \in Triple |-> IF With(t) = {} THEN NoReason ELSE rows[FirstOf(t)].r]

\* docs/api.md, POST /v1/continuation-relations: the triple is an idempotency
\* key, from the migration of a legacy table on.
Edges == INSTANCE WriteOnce WITH reason <- FirstReason

(***************************************************************************)
(* Edges are written once: the first edge of a triple keeps its reason     *)
(* through migrations, and is what every answer for the triple returns.    *)
(***************************************************************************)
EdgesSpec == Edges!WriteOnceSpec
=============================================================================
