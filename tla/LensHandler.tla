---------------------------- MODULE LensHandler ----------------------------
(***************************************************************************)
(* POST /v1/lens on one daemon.  The handler holds its daemon's mutex and  *)
(* reads the store one SQL statement after the other, in no transaction,   *)
(* while another daemon of the data directory commits, assimilates and     *)
(* relates between any two of them; then it computes the card.  The model  *)
(* ends with the answer.                                                   *)
(*                                                                         *)
(* left out: advisory signals, which are looked up and shown whatever the  *)
(* rest is; the text of a card; white space around the query, which the    *)
(* search for continuations trims and that for commitments does not.       *)
(***************************************************************************)
EXTENDS ContinuationSearch

CONSTANTS
  Cases,          \* tables, requests and the writes to come with them
  NewRow,         \* NewRow[id]: what another daemon may create
  Deltas,         \* the statuses another daemon's deltas set
  NewEdges        \* relations another daemon may create

\* Tables as the store keeps them: rows under their ids, each written at a
\* time of its own, relations between stored continuations, raw events once
\* each; and an index of stored continuations only.
WellFormed(tables) ==
  LET ids == DOMAIN tables.row IN
  /\ tables = [row |-> tables.row, at |-> tables.at, pact |-> tables.pact,
               age |-> tables.age, edges |-> tables.edges, events |-> tables.events,
               index |-> tables.index, now |-> tables.now]
  /\ IsFiniteSet(ids)
  /\ tables.row \in [ids -> Continuation] /\ \A id \in ids : tables.row[id].id = id
  /\ tables.pact \in [ids -> {"none", "active", "released"}]
  /\ tables.now \in Nat \ {0}
  /\ \A time \in {tables.at, tables.age} :
        /\ time \in [ids -> Nat]
        /\ \A i, j \in ids : time[i] = time[j] /\ time[i] # 0 => i = j
        /\ \A id \in ids : time[id] < tables.now
  /\ \A id \in ids : tables.at[id] # 0 /\ (tables.pact[id] # "none" => tables.age[id] # 0)
  /\ \A e \in tables.edges : {e.from, e.to} \subseteq ids
  /\ tables.events \in Seq(Event) /\ IsInjective(tables.events)
  /\ \A v \in tables.index : DOMAIN v \subseteq ids /\ v \in [DOMAIN v -> 1 .. 100]

IsRequest(r) == r.tokens \in Seq(Token) /\ {r.wild, r.blank, r.perspective} \subseteq BOOLEAN

ASSUME LensAssumption ==
  /\ \A case \in Cases : WellFormed(case.db) /\ IsRequest(case.request)
  /\ \A id \in DOMAIN NewRow : id \in Nat /\ NewRow[id] \in Continuation /\ NewRow[id].id = id
  /\ Deltas \subseteq ContinuationStatus

VARIABLES
  db, request,
  pc,            \* the query the handler is at
  todo,          \* what its loop has not handled yet
  picked,        \* the continuations read, as they were then
  constraints,   \* commitments, by their continuation
  edges,
  vector,        \* the vector index's answer
  influence,     \* the ids of its hits that were loaded
  events,        \* raw event hits
  promoted,      \* the raw events whose continuations were promoted
  card, provenance,
  writes,        \* writes to come
  touched,       \* history: ids written since the request came
  start          \* history: the tables when the request came

handlerVars == <<pc, todo, picked, constraints, edges, vector, influence,
                 events, promoted, card, provenance>>
lensVars == <<db, request, handlerVars, writes, touched, start>>

NoProvenance == [continuations |-> {}, events |-> {}, commitments |-> {}, rules |-> {}]

LensInit ==
  /\ \E case \in Cases : /\ db = case.db /\ start = case.db
                         /\ request = case.request
                         /\ writes = case.writes
  /\ pc = "search" /\ todo = <<>> /\ picked = <<>> /\ constraints = {} /\ edges = {}
  /\ vector = <<>> /\ influence = {} /\ events = <<>> /\ promoted = {}
  /\ card = RawOrEmptyCard(0) /\ provenance = NoProvenance
  /\ touched = {}
-----------------------------------------------------------------------------
(* The handler.                                                            *)

Read == UNCHANGED <<db, request, writes, touched, start>>

Ids(rows) == [i \in DOMAIN rows |-> rows[i].id]
With(rows, id) == IF Contains(Ids(rows), id) THEN rows ELSE Append(rows, db.row[id])

SearchLiving ==
  /\ pc = "search"
  /\ todo' = SearchHits(db, request, TRUE)
  /\ pc' = "get"
  /\ UNCHANGED <<picked, constraints, edges, vector, influence, events, promoted,
                 card, provenance>>

GetContinuation ==
  /\ pc = "get" /\ todo # <<>>
  /\ picked' = Append(picked, db.row[Head(todo)])
  /\ todo' = Tail(todo)
  /\ UNCHANGED <<pc, constraints, edges, vector, influence, events, promoted,
                 card, provenance>>

\* Hits, the one with the most strength first.
Nearest(v) ==
  LET ids == DOMAIN v
  IN Ranked(ids, {p \in ids \X ids : \/ v[p[1]] > v[p[2]]
                                     \/ v[p[1]] = v[p[2]] /\ p[1] < p[2]})

\* The index is told of what is stored, and of no status: db.index is the set
\* of answers it may give, strengths by id (one empty answer if there is none).
AskVectorIndex ==
  /\ pc = "get" /\ todo = <<>>
  /\ vector' \in db.index
  /\ todo' = IF request.blank THEN <<>> ELSE Nearest(vector')
  /\ pc' = "vector"
  /\ UNCHANGED <<picked, constraints, edges, influence, events, promoted,
                 card, provenance>>

\* A hit counts if its continuation is active now, and is used as it is now.
LoadVectorHit ==
  /\ pc = "vector" /\ todo # <<>>
  /\ IF db.row[Head(todo)].status = "active"
     THEN /\ picked' = With(picked, Head(todo))
          /\ influence' = influence \cup {Head(todo)}
     ELSE UNCHANGED <<picked, influence>>
  /\ todo' = Tail(todo)
  /\ UNCHANGED <<pc, constraints, edges, vector, events, promoted, card, provenance>>

BeginCommitments ==
  /\ pc = "vector" /\ todo = <<>>
  /\ pc' = "commitments" /\ todo' = Ids(picked)
  /\ UNCHANGED <<picked, constraints, edges, vector, influence, events, promoted,
                 card, provenance>>

\* Variant: commitments of a continuation whatever their status.
CollectEveryCommitment ==
  /\ pc = "commitments" /\ todo # <<>>
  /\ constraints' = constraints \cup {c \in {Head(todo)} : db.pact[c] # "none"}
  /\ todo' = Tail(todo)
  /\ UNCHANGED <<pc, picked, edges, vector, influence, events, promoted,
                 card, provenance>>

CollectCommitments ==
  /\ pc = "commitments" /\ todo # <<>>
  /\ constraints' = constraints \cup CommitmentsOf(db, Head(todo))
  /\ todo' = Tail(todo)
  /\ UNCHANGED <<pc, picked, edges, vector, influence, events, promoted,
                 card, provenance>>

SearchForCommitments ==
  /\ pc = "commitments" /\ todo = <<>> /\ promoted = {}
  /\ pc' = "pledges" /\ todo' = SearchCommitments(db, request)
  /\ UNCHANGED <<picked, constraints, edges, vector, influence, events, promoted,
                 card, provenance>>

\* A commitment found brings its continuation along.
TakePledge ==
  /\ pc = "pledges" /\ todo # <<>>
  /\ IF Head(todo) \in constraints THEN UNCHANGED <<picked, constraints>>
     ELSE /\ picked' = With(picked, Head(todo))
          /\ constraints' = constraints \cup {Head(todo)}
  /\ todo' = Tail(todo)
  /\ UNCHANGED <<pc, edges, vector, influence, events, promoted, card, provenance>>

BeginRelations ==
  /\ \/ pc = "pledges" /\ picked # <<>>
     \/ pc = "commitments" /\ promoted # {}
  /\ todo = <<>>
  /\ pc' = "relations" /\ todo' = Ids(picked)
  /\ UNCHANGED <<picked, constraints, edges, vector, influence, events, promoted,
                 card, provenance>>

\* Variant: only the edges that start at the continuation.
CollectOutgoing ==
  /\ pc = "relations" /\ todo # <<>>
  /\ edges' = edges \cup {e \in RelationsOf(db, Head(todo)) : e.from = Head(todo)}
  /\ todo' = Tail(todo)
  /\ UNCHANGED <<pc, picked, constraints, vector, influence, events, promoted,
                 card, provenance>>

CollectRelations ==
  /\ pc = "relations" /\ todo # <<>>
  /\ edges' = edges \cup RelationsOf(db, Head(todo))
  /\ todo' = Tail(todo)
  /\ UNCHANGED <<pc, picked, constraints, vector, influence, events, promoted,
                 card, provenance>>

SearchRaw ==
  /\ pc = "pledges" /\ todo = <<>> /\ picked = <<>>
  /\ events' = SearchRawEvents(db, request)
  /\ pc' = "linked" /\ todo' = events'
  /\ UNCHANGED <<picked, constraints, edges, vector, influence, promoted,
                 card, provenance>>

LoadLinked ==
  /\ pc = "linked" /\ todo # <<>>
  /\ picked' = picked \o LET ids == LinkedTo(db, Head(todo))
                         IN [i \in DOMAIN ids |-> db.row[ids[i]]]
  /\ todo' = Tail(todo)
  /\ UNCHANGED <<pc, constraints, edges, vector, influence, events, promoted,
                 card, provenance>>

Promote ==
  /\ pc = "linked" /\ todo = <<>> /\ picked # <<>>
  /\ promoted' = ToSet(events)
  /\ pc' = "commitments" /\ todo' = Ids(picked)
  /\ UNCHANGED <<picked, constraints, edges, vector, influence, events,
                 card, provenance>>

\* What the engine is given of a continuation: one that was promoted has the
\* query appended to its summary.
Projection(c) ==
  IF c.event \in promoted THEN [c EXCEPT !.phrase = TRUE, !.bare = FALSE] ELSE c

\* Variant: a promoted continuation is given to the engine as it is.
AnswerUnprojected ==
  LET given == ToSet(picked)
      facts == RuleFacts(given, request)
      Strength == [c \in {g.id : g \in given} |-> IF c \in influence THEN vector[c] ELSE 0]
  IN /\ pc = "relations" /\ todo = <<>>
     /\ card' = Generate(request, given, edges, facts, Strength, 0)
     /\ provenance' = [continuations |-> {g.id : g \in given}, events |-> {},
                       commitments |-> constraints, rules |-> {}]
     /\ pc' = "answered"
     /\ UNCHANGED <<todo, picked, constraints, edges, vector, influence, events, promoted>>

AnswerWithCard ==
  LET given == {Projection(c) : c \in ToSet(picked)}
      facts == RuleFacts(given, request)
      Strength == [c \in {g.id : g \in given} |-> IF c \in influence THEN vector[c] ELSE 0]
  IN /\ pc = "relations" /\ todo = <<>>
     /\ card' = Generate(request, given, edges, facts, Strength, 0)
     /\ provenance' = [continuations |-> {g.id : g \in given}, events |-> {},
                       commitments |-> constraints,
                       rules |-> {f \in facts : f.predicate \in {"needs_review", "path_choice"}}]
     /\ pc' = "answered"
     /\ UNCHANGED <<todo, picked, constraints, edges, vector, influence, events, promoted>>

\* Raw events are never changed: reading the hits again finds them all.
AnswerWithEvents ==
  /\ pc = "linked" /\ todo = <<>> /\ picked = <<>>
  /\ card' = RawOrEmptyCard(Len(events))
  /\ provenance' = [NoProvenance EXCEPT !.events = ToSet(events)]
  /\ pc' = "answered"
  /\ UNCHANGED <<todo, picked, constraints, edges, vector, influence, events, promoted>>

HandlerStep ==
  \/ SearchLiving \/ GetContinuation \/ AskVectorIndex \/ LoadVectorHit
  \/ BeginCommitments \/ CollectCommitments \/ SearchForCommitments \/ TakePledge
  \/ BeginRelations \/ CollectRelations
  \/ SearchRaw \/ LoadLinked \/ Promote
  \/ AnswerWithCard \/ AnswerWithEvents
-----------------------------------------------------------------------------
(* The other daemon, as TemporalStore, KernelApi and RelationStore have it. *)

Write(ids) ==
  /\ pc # "answered" /\ writes > 0
  /\ writes' = writes - 1
  /\ touched' = touched \cup ids
  /\ UNCHANGED <<request, start, handlerVars>>

\* A delta on one continuation; Close and Retire release its commitment.
Assimilate(id, status) ==
  /\ Write({id})
  /\ db' = [db EXCEPT !.row[id].status = status,
                      !.at[id] = db.now, !.now = @ + 1,
                      !.pact[id] = IF status \in {"closed", "retired"} /\ @ = "active"
                                   THEN "released" ELSE @]

Grown(f, id, v) == [i \in DOMAIN f \cup {id} |-> IF i = id THEN v ELSE f[i]]

\* A continuation is created, with the id nobody has yet.
CreateContinuation(id) ==
  /\ id \notin DOMAIN db.row
  /\ Write({id})
  /\ db' = [db EXCEPT !.row = Grown(@, id, NewRow[id]),
                      !.at = Grown(@, id, db.now), !.now = @ + 1,
                      !.pact = Grown(@, id, "none"), !.age = Grown(@, id, 0)]

\* The second half of a commit.
CreateCommitment(id) ==
  /\ id \in DOMAIN NewRow
  /\ db.pact[id] = "none" /\ db.row[id].type = "obligation"
  /\ Write({id})
  /\ db' = [db EXCEPT !.pact[id] = "active", !.age[id] = db.now, !.now = @ + 1]

Relate(e) ==
  /\ e \notin db.edges
  /\ {e.from, e.to} \subseteq DOMAIN db.row
  /\ Write({e.from, e.to})
  /\ db' = [db EXCEPT !.edges = @ \cup {e}]

OtherDaemon ==
  \/ \E id \in DOMAIN db.row : \/ \E status \in Deltas : Assimilate(id, status)
                               \/ CreateCommitment(id)
  \/ \E id \in DOMAIN NewRow : CreateContinuation(id)
  \/ \E e \in NewEdges : Relate(e)

LensNext == (HandlerStep /\ Read) \/ OtherDaemon

LensSpec == LensInit /\ [][LensNext]_lensVars
-----------------------------------------------------------------------------
Answered == pc = "answered"
Shown == {a.id : a \in card.active}
Untouched(id) == id \in DOMAIN start.row /\ id \notin touched

(***************************************************************************)
(* Commitments bind the lens exactly while they hold: no constraint had    *)
(* been released before the request came, none is about a continuation     *)
(* that the answer does not name, and none is missing that was active on a *)
(* continuation of the card from the request to the answer.                *)
(***************************************************************************)
ConstraintsHold ==
  Answered =>
    /\ \A c \in constraints : c \in DOMAIN start.row => start.pact[c] # "released"
    /\ constraints \subseteq provenance.continuations
    /\ \A c \in Shown : Untouched(c) /\ Constrains(db, c) => c \in constraints

(***************************************************************************)
(* A continuation that another one blocks, or that is in conflict with     *)
(* another one, is not advanced: a card that shows it asks to verify and   *)
(* prefers no action, as long as both ends were active all the time.       *)
(***************************************************************************)
BlockedNotAdvanced ==
  Answered =>
    \A e \in start.edges :
      /\ \A id \in {e.from, e.to} : Untouched(id) /\ db.row[id].status = "active"
      /\ \/ e.kind = "conflicts" /\ {e.from, e.to} \cap Shown # {}
         \/ e.kind = "blocks" /\ e.to \in Shown
      => card.preferred = Nothing /\ card.stance = "verify"

(***************************************************************************)
(* The answer rests on what it names.  What the card shows is named as its *)
(* provenance; and what is named is shown, if it is living and was not     *)
(* written meanwhile: whatever way a continuation was selected, the engine *)
(* finds the query in it as well.                                          *)
(***************************************************************************)
AnswerIsGrounded ==
  Answered =>
    /\ Shown \subseteq provenance.continuations
    /\ \A id \in provenance.continuations :
         Untouched(id) /\ Living(db.row[id].status) => id \in Shown

Matches(id) ==
  LET tokens == SearchedTokens(request)
  IN \/ db.row[id].phrase
     \/ tokens # <<>> /\ TokenHits(db, id, tokens) >= Least(Len(tokens), 2)

\* The rows that may take a place in the search: closed ones only if written.
Rivals(ids) == {id \in ids : id \in touched \/ Living(db.row[id].status)}

(***************************************************************************)
(* Below its limits the search is complete, and closed continuations do    *)
(* not count towards them: every living continuation that matches the      *)
(* query and is not written meanwhile is on the card, if no more than      *)
(* twenty living ones match and no token is in more than fifty of them.    *)
(***************************************************************************)
LivingMatchesShown ==
  LET ids == DOMAIN db.row IN
  /\ Answered /\ ~request.blank
  /\ Cardinality(Rivals({id \in ids : Matches(id)})) <= ResultLimit
  /\ \A t \in ToSet(SearchedTokens(request)) :
       Cardinality(Rivals({id \in ids : t \in db.row[id].tokens})) <= TokenCandidateLimit
  => \A id \in ids :
       Untouched(id) /\ Living(db.row[id].status) /\ Matches(id) => id \in Shown

(***************************************************************************)
(* Raw recall hides nothing, at no limit: an answer from raw events, or    *)
(* from nothing, leaves out no living continuation that contained the      *)
(* query all the time and no active one linked to an event it names.       *)
(***************************************************************************)
RecallHidesNothing ==
  Answered /\ provenance.continuations = {} =>
    \A id \in DOMAIN db.row :
      Untouched(id) =>
        /\ ~ (Living(db.row[id].status) /\ db.row[id].phrase /\ ~request.blank)
        /\ ~ (db.row[id].status = "active" /\ db.row[id].event \in provenance.events)

(***************************************************************************)
(* A deferred continuation never leads an active one of its type if the    *)
(* query is in the text of both, however well it matches the one and badly *)
(* the other; only explicit relations may change that.                     *)
(***************************************************************************)
DeferredYields ==
  Answered =>
    \A a, b \in card.active :
      LET InText(id) == \A c \in ToSet(picked) :
                          c.id = id => SemanticMatch(Projection(c), request) > 0
      IN ~ (/\ Precedes(a, b)
            /\ a.type = b.type /\ a.status = "deferred" /\ b.status = "active"
            /\ InText(a.id) /\ InText(b.id)
            /\ \A e \in edges : {e.from, e.to} \cap {a.id, b.id} = {})
=============================================================================
