------------------------- MODULE RelationStoreProofs ------------------------
(***************************************************************************)
(* Theorems about RelationStore, for any triples, daemons, legacy tables   *)
(* and row bound.                                                          *)
(***************************************************************************)
EXTENDS RelationStore, TLAPS, WellFoundedInduction

Unique == \A t \in Triple : \A i, j \in With(t) : i = j

\* Uniqueness is reached by a DELETE and made permanent by the index, which
\* every serving daemon has seen.
IgnoredInv == \A d \in Daemon :
    proc[d] = "ignored" => asked[d] \in Edge /\ With(asked[d].t) # {}

RelInv == /\ RelTypeOK
          /\ indexed => Unique
          /\ \A d \in Daemon :
                /\ proc[d] = "deduplicated" => Unique
                /\ proc[d] \in {"ready", "ignored"} => indexed
          /\ IgnoredInv
-----------------------------------------------------------------------------
\* A set of rowids that is not empty has a least element.
LEMMA LeastRowid ==
    ASSUME NEW ids \in SUBSET Nat, ids # {}
    PROVE  \E i \in ids : \A j \in ids : i <= j
<1>1. PICK i \in ids : \A j \in ids : ~ (<<j, i>> \in OpToRel(<, Nat))
  BY NatLessThanWellFounded, WFMin, Zenon
<1>2. \A j \in ids : <<j, i>> \in OpToRel(<, Nat) <=> j < i
  BY DEF OpToRel
<1>3. \A j \in ids : ~ (j < i)
  BY <1>1, <1>2, Zenon
<1>4. \A j \in ids : j \in Nat
  OBVIOUS
<1>. QED
  BY <1>3, <1>4

LEMMA Rowids ==
    ASSUME RelTypeOK
    PROVE  /\ DOMAIN rows \subseteq 1 .. MaxRowid
           /\ \A i \in DOMAIN rows : rows[i] \in Edge
           /\ \A t \in Triple : With(t) \subseteq DOMAIN rows /\ With(t) \subseteq Nat
<1>1. PICK ids \in SUBSET (1 .. MaxRowid) : rows \in [ids -> Edge]
  BY DEF RelTypeOK, Table
<1>2. DOMAIN rows \subseteq 1 .. MaxRowid /\ \A i \in DOMAIN rows : rows[i] \in Edge
  BY <1>1
<1>. QED
  BY <1>2, RelationAssumption DEF With

LEMMA FirstIsFirst ==
    ASSUME RelTypeOK, NEW t \in Triple, With(t) # {}
    PROVE  /\ FirstOf(t) \in With(t)
           /\ \A j \in With(t) : FirstOf(t) <= j
<1>1. With(t) \in SUBSET Nat
  BY Rowids
<1>2. \E i \in With(t) : \A j \in With(t) : i <= j
  BY <1>1, LeastRowid
<1>. QED
  BY <1>2 DEF FirstOf

\* A table is typed by its rowids and its edges.
LEMMA TableOf ==
    ASSUME NEW f, NEW ids \in SUBSET (1 .. MaxRowid), f \in [ids -> Edge]
    PROVE  f \in Table
BY DEF Table

LEMMA TypeStep == RelTypeOK /\ [RelNext]_relationVars => RelTypeOK'
<1> SUFFICES ASSUME RelTypeOK, [RelNext]_relationVars PROVE RelTypeOK'
  OBVIOUS
<1> USE DEF RelTypeOK, Stage
<1>1. ASSUME NEW d \in Daemon, OpenStore(d) PROVE RelTypeOK'
  BY <1>1 DEF OpenStore, Goto
<1>2. ASSUME NEW d \in Daemon, Deduplicate(d) PROVE RelTypeOK'
  <2>1. PICK ids \in SUBSET (DOMAIN rows) : rows' = [i \in ids |-> rows[i]]
    BY <1>2 DEF Deduplicate, Keep
  <2>2. rows' \in [ids -> Edge] /\ ids \in SUBSET (1 .. MaxRowid)
    BY <2>1, Rowids
  <2>3. rows' \in Table
    BY <2>2, TableOf
  <2>. QED
    BY <1>2, <2>3 DEF Deduplicate, Goto
<1>3. ASSUME NEW d \in Daemon, CreateIndex(d) PROVE RelTypeOK'
  BY <1>3 DEF CreateIndex, Goto
<1>4. ASSUME NEW d \in Daemon, NEW c \in Continuation, AddContinuation(d, c) PROVE RelTypeOK'
  BY <1>4 DEF AddContinuation
<1>5. ASSUME NEW d \in Daemon, NEW e \in Edge, InsertNew(d, e) PROVE RelTypeOK'
  <2>1. PICK id \in NewRowid : Append(id, e)
    BY <1>5 DEF InsertNew
  <2>2. PICK ids \in SUBSET (1 .. MaxRowid) : ids = DOMAIN rows \cup {id}
    BY <2>1, Rowids DEF NewRowid
  <2>3. rows' \in [ids -> Edge]
    BY <2>1, <2>2, Rowids DEF Append
  <2>4. rows' \in Table
    BY <2>3, TableOf
  <2>. QED
    BY <1>5, <2>4 DEF InsertNew
<1>6. ASSUME NEW d \in Daemon, NEW e \in Edge, InsertIgnored(d, e) PROVE RelTypeOK'
  BY <1>6 DEF InsertIgnored, Goto
<1>7. ASSUME NEW d \in Daemon, SelectExisting(d) PROVE RelTypeOK'
  <2>1. asked[d] = NoEdge \/ asked[d].t \in Triple
    BY DEF Edge
  <2>2. CASE With(asked[d].t) = {}
    BY <1>7, <2>2 DEF SelectExisting, Goto
  <2>3. CASE With(asked[d].t) # {}
    <3>1. asked[d].t \in Triple
      BY <2>3, Rowids DEF With, Edge
    <3>2. PICK e : e = rows[FirstOf(asked[d].t)]
      OBVIOUS
    <3>3. e \in Edge
      BY <2>3, <3>1, <3>2, FirstIsFirst, Rowids
    <3>. QED
      BY <1>7, <2>3, <3>2, <3>3 DEF SelectExisting, Goto
  <2>. QED
    BY <2>2, <2>3
<1>8. ASSUME NEW d \in Daemon, Die(d) PROVE RelTypeOK'
  BY <1>8 DEF Die, Goto
<1>9. CASE UNCHANGED relationVars
  BY <1>9 DEF relationVars
<1>. QED
  BY <1>1, <1>2, <1>3, <1>4, <1>5, <1>6, <1>7, <1>8, <1>9 DEF RelNext

\* The DELETE leaves the first edge of every triple, and nothing else.
LEMMA KeepsFirst ==
    ASSUME RelTypeOK, NEW d \in Daemon, Deduplicate(d), NEW t \in Triple
    PROVE  /\ With(t)' = IF With(t) = {} THEN {} ELSE {FirstOf(t)}
           /\ \A i \in With(t)' : rows'[i] = rows[i]
<1> DEFINE Least == {i \in DOMAIN rows : \A j \in With(rows[i].t) : i <= j}
<1>1. PICK least : least = Least
  OBVIOUS
<1>2. rows' = [i \in least |-> rows[i]]
  BY <1>1 DEF Deduplicate, Keep
<1>3. With(t)' = {i \in least : rows[i].t = t}
  BY <1>2 DEF With
<1>4. CASE With(t) = {}
  BY <1>1, <1>2, <1>3, <1>4 DEF With
<1>5. CASE With(t) # {}
  <2>1. /\ FirstOf(t) \in With(t) /\ \A j \in With(t) : FirstOf(t) <= j
        /\ With(t) \subseteq Nat
    BY <1>5, FirstIsFirst, Rowids
  <2>2. PICK f : f = FirstOf(t)
    OBVIOUS
  <2>3. f \in least /\ rows[f].t = t
    BY <1>1, <2>1, <2>2 DEF With
  <2>4. ASSUME NEW i \in least, rows[i].t = t PROVE i = f
    <3>1. i \in With(t) /\ \A j \in With(t) : i <= j
      BY <1>1, <2>4 DEF With
    <3>. QED
      BY <2>1, <2>2, <3>1
  <2>5. With(t)' = {f}
    BY <1>3, <2>3, <2>4
  <2>. QED
    BY <1>2, <1>5, <2>2, <2>3, <2>5
<1>. QED
  BY <1>4, <1>5

LEMMA DeduplicateUnique ==
    ASSUME RelTypeOK, NEW d \in Daemon, Deduplicate(d)
    PROVE  Unique' /\ \A t \in Triple : With(t) # {} => With(t)' # {}
BY KeepsFirst DEF Unique

\* An INSERT that the index lets through adds its triple's only edge.
LEMMA InsertNewEdge ==
    ASSUME RelTypeOK, NEW d \in Daemon, NEW e \in Edge, InsertNew(d, e), indexed,
           NEW t \in Triple
    PROVE  /\ With(e.t) = {} /\ e.t \in Triple
           /\ t # e.t => With(t)' = With(t) /\ \A i \in With(t) : rows'[i] = rows[i]
           /\ t = e.t => \E id \in Nat : With(t)' = {id} /\ rows'[id] = e
<1>1. PICK id \in NewRowid : Append(id, e)
  BY DEF InsertNew
<1>2. id \in Nat /\ \A j \in DOMAIN rows : j < id
  BY <1>1, RelationAssumption DEF NewRowid
<1>3. id \notin DOMAIN rows
  BY <1>2, Rowids, RelationAssumption
<1>4. /\ DOMAIN rows' = DOMAIN rows \cup {id}
      /\ rows'[id] = e
      /\ \A i \in DOMAIN rows : rows'[i] = rows[i]
  BY <1>1, <1>3 DEF Append
<1>5. With(e.t) = {} /\ e.t \in Triple
  BY DEF InsertNew, Edge
<1>6. With(t)' = {i \in DOMAIN rows \cup {id} : rows'[i].t = t}
  BY <1>4 DEF With
<1>7. CASE t # e.t
  BY <1>3, <1>4, <1>5, <1>6, <1>7 DEF With
<1>8. CASE t = e.t
  BY <1>2, <1>3, <1>4, <1>5, <1>6, <1>8 DEF With
<1>. QED
  BY <1>5, <1>7, <1>8

LEMMA InvStep == RelInv /\ [RelNext]_relationVars => RelInv'
<1> SUFFICES ASSUME RelInv, [RelNext]_relationVars PROVE RelInv'
  OBVIOUS
<1>0. RelTypeOK /\ RelTypeOK'
  BY TypeStep DEF RelInv
<1> USE DEF Goto
<1>1. ASSUME NEW d \in Daemon, OpenStore(d) PROVE RelInv'
  BY <1>0, <1>1 DEF OpenStore, RelInv, IgnoredInv, RelTypeOK, Unique, With
<1>2. ASSUME NEW d \in Daemon, Deduplicate(d) PROVE RelInv'
  <2>1. Unique' /\ \A t \in Triple : With(t) # {} => With(t)' # {}
    BY <1>0, <1>2, DeduplicateUnique
  <2>2. /\ proc' = [proc EXCEPT ![d] = "deduplicated"]
        /\ UNCHANGED <<indexed, asked>>
    BY <1>2 DEF Deduplicate
  <2>3. ASSUME NEW c \in Daemon, proc'[c] = "ignored"
        PROVE  asked'[c] \in Edge /\ With(asked[c].t)' # {}
    <3>1. proc[c] = "ignored" /\ asked[c] \in Edge /\ With(asked[c].t) # {}
      BY <1>0, <2>2, <2>3 DEF RelInv, IgnoredInv, RelTypeOK
    <3>2. PICK t \in Triple : t = asked[c].t
      BY <3>1 DEF Edge
    <3>3. With(t)' # {}
      BY <2>1, <3>1, <3>2
    <3>4. asked'[c].t = t
      BY <2>2, <3>2
    <3>. QED
      BY <2>2, <3>1, <3>2, <3>3 DEF With
  <2>4. \A c \in Daemon : proc'[c] \in {"ready", "ignored"} => indexed'
    BY <1>0, <2>2 DEF RelInv, RelTypeOK
  <2>5. IgnoredInv'
    BY <2>3 DEF IgnoredInv
  <2>. QED
    BY <1>0, <2>1, <2>4, <2>5 DEF RelInv
<1>3. ASSUME NEW d \in Daemon, CreateIndex(d) PROVE RelInv'
  <2>1. Unique
    BY <1>3 DEF RelInv, CreateIndex
  <2>2. Unique' /\ \A t \in Triple : With(t)' = With(t)
    BY <1>3, <2>1 DEF CreateIndex, Unique, With
  <2>. QED
    BY <1>0, <1>3, <2>2 DEF CreateIndex, RelInv, IgnoredInv, RelTypeOK, With
<1>4. ASSUME NEW d \in Daemon, NEW c \in Continuation, AddContinuation(d, c) PROVE RelInv'
  BY <1>0, <1>4 DEF AddContinuation, RelInv, IgnoredInv, Unique, With
<1>5. ASSUME NEW d \in Daemon, NEW e \in Edge, InsertNew(d, e) PROVE RelInv'
  <2>1. indexed /\ Unique
    BY <1>5 DEF InsertNew, RelInv
  <2>2. UNCHANGED <<indexed, proc, asked>>
    BY <1>5 DEF InsertNew
  <2>3. Unique'
    BY <1>0, <1>5, <2>1, InsertNewEdge DEF Unique
  <2>4. \A t \in Triple : With(t) # {} => With(t)' # {}
    BY <1>0, <1>5, <2>1, InsertNewEdge
  <2>5. \A c \in Daemon : proc[c] = "ignored" => With(asked[c].t)' # {}
    <3> SUFFICES ASSUME NEW c \in Daemon, proc[c] = "ignored" PROVE With(asked[c].t)' # {}
      OBVIOUS
    <3>1. PICK t \in Triple : t = asked[c].t /\ With(t) # {}
      BY DEF RelInv, IgnoredInv, Edge
    <3>2. With(t)' # {}
      BY <2>4, <3>1
    <3>. QED
      BY <2>2, <3>1, <3>2 DEF With
  <2>. QED
    BY <1>0, <2>2, <2>3, <2>5 DEF RelInv, IgnoredInv, With
<1>6. ASSUME NEW d \in Daemon, NEW e \in Edge, InsertIgnored(d, e) PROVE RelInv'
  BY <1>0, <1>6 DEF InsertIgnored, RelInv, IgnoredInv, RelTypeOK, Unique, With
<1>7. ASSUME NEW d \in Daemon, SelectExisting(d) PROVE RelInv'
  BY <1>0, <1>7 DEF SelectExisting, RelInv, IgnoredInv, RelTypeOK, Unique, With
<1>8. ASSUME NEW d \in Daemon, Die(d) PROVE RelInv'
  BY <1>0, <1>8 DEF Die, RelInv, IgnoredInv, RelTypeOK, Unique, With
<1>9. CASE UNCHANGED relationVars
  BY <1>0, <1>9 DEF relationVars, RelInv, IgnoredInv, Unique, With
<1>. QED
  BY <1>1, <1>2, <1>3, <1>4, <1>5, <1>6, <1>7, <1>8, <1>9 DEF RelNext

LEMMA InitInv == RelInit => RelInv
<1> SUFFICES ASSUME RelInit PROVE RelInv
  OBVIOUS
<1>1. rows \in Table /\ answered = {} /\ indexed = FALSE
  BY RelationAssumption DEF RelInit
<1>2. ASSUME NEW i \in DOMAIN rows PROVE Endpoints[rows[i].t] \subseteq Continuation
  <2>1. PICK ids \in SUBSET (1 .. MaxRowid) : rows \in [ids -> Edge]
    BY <1>1 DEF Table
  <2>2. rows[i].t \in Triple
    BY <1>2, <2>1 DEF Edge
  <2>. QED
    BY <2>2, RelationAssumption
<1>3. conts \subseteq Continuation
  BY <1>2 DEF RelInit
<1>. QED
  BY <1>1, <1>3 DEF RelInit, RelInv, IgnoredInv, RelTypeOK, Stage

\* RelInv is an invariant.
LEMMA Invariant == RelSpec => []RelInv
BY InitInv, InvStep, PTL DEF RelSpec

(***************************************************************************)
(* The SELECT behind an ignored INSERT always finds its edge.              *)
(***************************************************************************)
THEOREM IgnoredFindsEdge == RelSpec => []IgnoredHasEdge
<1>1. RelInv => IgnoredHasEdge
  BY DEF RelInv, IgnoredInv, IgnoredHasEdge
<1>. QED
  BY <1>1, Invariant, PTL

(***************************************************************************)
(* Behind the first DELETE of any daemon every triple has one edge.        *)
(***************************************************************************)
THEOREM EdgesUnique == RelSpec => []MigratedEdgesUnique
<1>1. RelInv => MigratedEdgesUnique
  BY DEF RelInv, MigratedEdgesUnique, Unique
<1>. QED
  BY <1>1, Invariant, PTL
-----------------------------------------------------------------------------
LEMMA SameRowsSameReasons == UNCHANGED rows => UNCHANGED FirstReason
BY DEF FirstReason, With, FirstOf

LEMMA FirstReasonType == RelTypeOK => FirstReason \in [Triple -> Reason \cup {NoReason}]
<1> SUFFICES ASSUME RelTypeOK, NEW t \in Triple, With(t) # {}
             PROVE  rows[FirstOf(t)].r \in Reason
  BY DEF FirstReason
<1>. QED
  BY FirstIsFirst, Rowids DEF Edge

LEMMA DeduplicateKeepsReasons ==
    ASSUME RelTypeOK, NEW d \in Daemon, Deduplicate(d)
    PROVE  UNCHANGED FirstReason
<1> SUFFICES ASSUME NEW t \in Triple
             PROVE  FirstReason'[t] = FirstReason[t]
  BY DEF FirstReason
<1>1. CASE With(t) = {}
  <2>1. With(t)' = {}
    BY <1>1, KeepsFirst
  <2>. QED
    BY <1>1, <2>1 DEF FirstReason
<1>2. CASE With(t) # {}
  <2>1. PICK f \in Nat : f = FirstOf(t)
    BY <1>2, FirstIsFirst, Rowids
  <2>2. With(t)' = {f} /\ rows'[f] = rows[f]
    BY <1>2, <2>1, KeepsFirst
  <2>3. FirstOf(t)' = f
    BY <2>2 DEF FirstOf
  <2>. QED
    BY <1>2, <2>1, <2>2, <2>3 DEF FirstReason
<1>. QED
  BY <1>1, <1>2

LEMMA RefinementStep ==
    RelInv /\ [RelNext]_relationVars => [Edges!WriteOnceNext]_<<FirstReason, answered>>
<1> SUFFICES ASSUME RelInv, [RelNext]_relationVars
             PROVE  Edges!WriteOnceNext \/ UNCHANGED <<FirstReason, answered>>
  OBVIOUS
<1>0. RelTypeOK /\ FirstReason \in [Triple -> Reason \cup {NoReason}]
  BY FirstReasonType DEF RelInv
<1>1. ASSUME NEW d \in Daemon,
             \/ OpenStore(d) \/ CreateIndex(d) \/ Die(d)
             \/ \E c \in Continuation : AddContinuation(d, c)
             \/ \E e \in Edge : InsertIgnored(d, e)
      PROVE  UNCHANGED <<FirstReason, answered>>
  <2>1. UNCHANGED <<rows, answered>>
    BY <1>1 DEF OpenStore, CreateIndex, Die, AddContinuation, InsertIgnored
  <2>. QED
    BY <2>1, SameRowsSameReasons
<1>2. ASSUME NEW d \in Daemon, Deduplicate(d) PROVE UNCHANGED <<FirstReason, answered>>
  <2>1. UNCHANGED answered
    BY <1>2 DEF Deduplicate
  <2>. QED
    BY <1>0, <1>2, <2>1, DeduplicateKeepsReasons
<1>3. ASSUME NEW d \in Daemon, NEW e \in Edge, InsertNew(d, e) PROVE Edges!WriteOnceNext
  <2>1. indexed /\ e.t \in Triple /\ e.r \in Reason /\ e = [t |-> e.t, r |-> e.r]
    BY <1>3 DEF InsertNew, RelInv, Edge
  <2>2. FirstReason[e.t] = NoReason
    BY <1>0, <1>3, <2>1, InsertNewEdge DEF FirstReason
  <2>3. FirstReason' = [FirstReason EXCEPT ![e.t] = e.r]
    <3> SUFFICES ASSUME NEW t \in Triple
                 PROVE  FirstReason'[t] = IF t = e.t THEN e.r ELSE FirstReason[t]
      BY <2>1 DEF FirstReason
    <3>1. CASE t = e.t
      <4>1. PICK id \in Nat : With(t)' = {id} /\ rows'[id] = e
        BY <1>0, <1>3, <2>1, <3>1, InsertNewEdge
      <4>2. FirstOf(t)' = id
        BY <4>1 DEF FirstOf
      <4>. QED
        BY <3>1, <4>1, <4>2 DEF FirstReason
    <3>2. CASE t # e.t
      <4>1. With(t)' = With(t) /\ \A i \in With(t) : rows'[i] = rows[i]
        BY <1>0, <1>3, <2>1, <3>2, InsertNewEdge
      <4>2. FirstOf(t)' = FirstOf(t)
        BY <4>1 DEF FirstOf
      <4>3. With(t) # {} => FirstOf(t) \in With(t)
        BY <1>0, FirstIsFirst
      <4>. QED
        BY <3>2, <4>1, <4>2, <4>3 DEF FirstReason
    <3>. QED
      BY <3>1, <3>2
  <2>4. Edges!Create(e.t, e.r)
    BY <2>2, <2>3 DEF Edges!Create
  <2>5. FirstReason'[e.t] = e.r /\ e.r # NoReason
    BY <1>0, <2>1, <2>3, RelationAssumption
  <2>6. CASE answered' = answered
    BY <2>1, <2>4, <2>6 DEF Edges!WriteOnceNext
  <2>7. CASE answered' = answered \cup {e}
    <3>1. Edges!Answer(e.t)
      BY <2>1, <2>5, <2>7 DEF Edges!Answer
    <3>. QED
      BY <2>1, <2>4, <3>1 DEF Edges!WriteOnceNext
  <2>. QED
    BY <1>3, <2>6, <2>7 DEF InsertNew
<1>4. ASSUME NEW d \in Daemon, SelectExisting(d) PROVE Edges!WriteOnceNext
  <2>1. PICK t \in Triple : t = asked[d].t /\ With(t) # {}
    BY <1>4 DEF SelectExisting, RelInv, IgnoredInv, Edge
  <2>2. FirstOf(t) \in With(t) /\ rows[FirstOf(t)] \in Edge
    BY <1>0, <2>1, FirstIsFirst, Rowids
  <2>3. PICK e \in Edge : e = rows[FirstOf(t)]
    BY <2>2
  <2>4. e = [t |-> t, r |-> FirstReason[t]] /\ FirstReason[t] \in Reason
    BY <2>1, <2>2, <2>3 DEF FirstReason, With, Edge
  <2>5. UNCHANGED FirstReason
    BY <1>4, SameRowsSameReasons DEF SelectExisting
  <2>6. answered' = answered \cup {e}
    BY <1>4, <2>1, <2>3 DEF SelectExisting
  <2>7. Edges!Answer(t)
    BY <2>4, <2>5, <2>6, RelationAssumption DEF Edges!Answer
  <2>. QED
    BY <2>5, <2>7 DEF Edges!WriteOnceNext
<1>5. CASE UNCHANGED relationVars
  BY <1>5, SameRowsSameReasons DEF relationVars
<1>. QED
  BY <1>1, <1>2, <1>3, <1>4, <1>5 DEF RelNext

(***************************************************************************)
(* Relations implement WriteOnce: whoever opens, migrates, inserts or dies *)
(* in whatever order, the first edge of a triple is the one that every     *)
(* answer for the triple returns, and it is never lost.                    *)
(***************************************************************************)
THEOREM ImplementsWriteOnce == RelSpec => EdgesSpec
<1>1. RelInit => Edges!WriteOnceInit
  <2>1. RelInit => RelTypeOK
    BY InitInv DEF RelInv
  <2>. QED
    BY <2>1, FirstReasonType DEF RelInit, Edges!WriteOnceInit
<1>. QED
  BY <1>1, Invariant, RefinementStep, PTL DEF RelSpec, EdgesSpec, Edges!WriteOnceSpec
=============================================================================
