----------------------------- MODULE QueriesProofs -----------------------------
(***************************************************************************)
(* What holds of the two reads for whatever the three sources write: the   *)
(* canonical answer is current, the total of a page covers it, and paging  *)
(* with offsets misses nothing but entries of equal created_at.            *)
(***************************************************************************)
EXTENDS Queries, FiniteSetTheorems, TLAPS

-------------------------------------------------------------------------------
(* The inductive invariant *)

\* A source that was active throughout is so in the rows that were read, and no
\* row that was read comes to grant access later.
QuerySound ==
    /\ query.pc = "asked" => /\ query.steady \subseteq ActiveAt(rows, clock)
                             /\ ActiveAt(rows, clock) \subseteq query.seen
    /\ query.pc = "read" => /\ query.steady \subseteq ActiveAt(query.rows, clock)
                            /\ ActiveAt(query.rows, clock) \subseteq query.seen
                            /\ \A s \in query.steady : query.rows[s] = rows[s]

\* The number of transitions that are listed before id for certain.
Rank(log, id) == Cardinality({o \in DOMAIN log : log[o] > log[id]})

NextOffset(t) == t.offset + Len(t.page)

\* What the client has still to see.
Unseen(t) == {id \in t.start \ t.seen : ~Tied(id)}
Missing(t) == Unseen(t) \ Range(t.page)

\* The listing only grows, so what the client has not seen is never moved to
\* before the next offset.
UnseenLieAhead(t) ==
    /\ \A id \in Unseen(t) : t.offset <= Rank(audit, id)
    /\ \A id \in Missing(t) : NextOffset(t) <= Rank(audit, id)

WalkSound(t) ==
    /\ t.pc \in {"asked", "paged", "answered"} => UnseenLieAhead(t)
    /\ t.pc \in {"asked", "done"} => t.page = <<>>
    /\ t.pc \in {"paged", "answered"} /\ t.page = <<>> => Missing(t) = {}
    /\ t.pc = "answered" /\ t.total <= NextOffset(t) => Missing(t) = {}

PageFits ==
    timeline.pc \in {"paged", "answered"} /\ timeline.page # <<>> =>
        NextOffset(timeline) <= Len(audit)

IInv == /\ TypeOK
        /\ QuerySound
        /\ CanonicalIsCurrent
        /\ WalkSound(timeline)
        /\ PageFits
        /\ TotalCoversPage
        /\ PagingMissesNothing

-------------------------------------------------------------------------------
(* The audit log *)

LEMMA BatchSize ==
    ASSUME NEW batch \in SUBSET Sources
    PROVE  Cardinality(batch) \in Nat
  <1>1. IsFiniteSet({"STORE"})
    BY FS_Singleton
  <1>2. IsFiniteSet({"STORE"} \cup {"CARRIER"})
    BY <1>1, FS_AddElement
  <1>3. IsFiniteSet(({"STORE"} \cup {"CARRIER"}) \cup {"MARKETPLACE"})
    BY <1>2, FS_AddElement
  <1>4. Sources = ({"STORE"} \cup {"CARRIER"}) \cup {"MARKETPLACE"}
    BY DEF Sources
  <1>5. IsFiniteSet(Sources)
    BY <1>3, <1>4
  <1>. QED
    BY <1>5, FS_Subset, FS_CardinalityType

LEMMA RankBounds ==
    ASSUME NEW log \in Seq(Nat), NEW id \in DOMAIN log
    PROVE  Rank(log, id) \in Nat /\ Rank(log, id) < Len(log)
  <1>. DEFINE Above == {o \in DOMAIN log : log[o] > log[id]}
  <1>1. /\ IsFiniteSet(DOMAIN log)
        /\ Cardinality(DOMAIN log) = Len(log)
    <2>1. DOMAIN log = 1..Len(log) /\ Len(log) \in Nat
      OBVIOUS
    <2>2. \A n \in Nat : IsFiniteSet(1..n) /\ Cardinality(1..n) = n
      BY FS_Interval
    <2>. QED
      BY <2>1, <2>2
  <1>2. /\ IsFiniteSet(DOMAIN log \ {id})
        /\ Cardinality(DOMAIN log \ {id}) = Len(log) - 1
    BY <1>1, FS_RemoveElement
  <1>3. Above \subseteq DOMAIN log \ {id}
    BY DEF Above
  <1>4. IsFiniteSet(Above) /\ Cardinality(Above) <= Len(log) - 1
    BY <1>2, <1>3, FS_Subset
  <1>5. Cardinality(Above) \in Nat
    BY <1>4, FS_CardinalityType
  <1>. QED
    BY <1>4, <1>5 DEF Rank, Above

LEMMA RankGrows ==
    ASSUME NEW log \in Seq(Nat), NEW more \in Seq(Nat),
           Len(log) <= Len(more),
           \A i \in DOMAIN log : more[i] = log[i],
           NEW id \in DOMAIN log
    PROVE  Rank(log, id) <= Rank(more, id)
  <1>. DEFINE Above == {o \in DOMAIN log : log[o] > log[id]}
              AboveNow == {o \in DOMAIN more : more[o] > more[id]}
  <1>1. DOMAIN log \subseteq DOMAIN more
    OBVIOUS
  <1>2. Above \subseteq AboveNow
    BY <1>1
  <1>3. IsFiniteSet(DOMAIN more)
    <2>1. DOMAIN more = 1..Len(more) /\ Len(more) \in Nat
      OBVIOUS
    <2>. QED
      BY <2>1, FS_Interval
  <1>4. IsFiniteSet(AboveNow)
    BY <1>3, FS_Subset
  <1>. QED
    BY <1>2, <1>4, FS_Subset DEF Rank

\* In a listing an entry whose created_at nobody shares is where its rank says.
LEMMA ListedByRank ==
    ASSUME NEW log \in Seq(Nat), NEW id \in DOMAIN log,
           NEW list \in Injection(DOMAIN log, DOMAIN log),
           \A i, j \in DOMAIN list : i < j => log[list[i]] >= log[list[j]],
           \A o \in DOMAIN log \ {id} : log[o] # log[id]
    PROVE  \E k \in DOMAIN log : list[k] = id /\ Rank(log, id) = k - 1
  <1>. DEFINE Above == {o \in DOMAIN log : log[o] > log[id]}
  <1>1. DOMAIN log = 1..Len(log) /\ Len(log) \in Nat
    OBVIOUS
  <1>2. IsFiniteSet(DOMAIN log)
    BY <1>1, FS_Interval
  <1>3. list \in Surjection(DOMAIN log, DOMAIN log)
    BY <1>2, FS_Injection
  <1>4. PICK k \in DOMAIN log : list[k] = id
    BY <1>3 DEF Surjection
  <1>5. /\ list \in [DOMAIN log -> DOMAIN log]
        /\ \A a, b \in DOMAIN log : list[a] = list[b] => a = b
    BY DEF Injection, IsInjective
  <1>. DEFINE front == [i \in 1..(k - 1) |-> list[i]]
  <1>6. ASSUME NEW i \in 1..(k - 1)
        PROVE  list[i] \in Above
    <2>1. i \in DOMAIN log /\ i < k
      BY <1>1
    <2>2. list[i] \in DOMAIN log /\ list[i] # id
      BY <2>1, <1>4, <1>5
    <2>3. log[list[i]] >= log[id]
      BY <2>1, <1>4, <1>5
    <2>4. log[list[i]] # log[id]
      BY <2>2
    <2>5. log[list[i]] \in Nat /\ log[id] \in Nat
      BY <2>2
    <2>. QED
      BY <2>2, <2>3, <2>4, <2>5
  <1>7. ASSUME NEW o \in Above
        PROVE  \E i \in 1..(k - 1) : list[i] = o
    <2>1. PICK i \in DOMAIN log : list[i] = o
      BY <1>3 DEF Surjection
    <2>2. log[o] \in Nat /\ log[id] \in Nat /\ log[o] > log[id]
      OBVIOUS
    <2>3. ~ k < i
      BY <2>1, <2>2, <1>4, <1>5
    <2>4. i # k
      BY <2>1, <2>2, <1>4
    <2>. QED
      BY <2>1, <2>3, <2>4, <1>1
  <1>8. front \in Bijection(1..(k - 1), Above)
    <2>1. front \in [1..(k - 1) -> Above]
      BY <1>6
    <2>2. \A a, b \in 1..(k - 1) : front[a] = front[b] => a = b
      <3>1. \A a \in 1..(k - 1) : a \in DOMAIN log /\ front[a] = list[a]
        BY <1>1
      <3>. QED
        BY <3>1, <1>5
    <2>3. \A o \in Above : \E i \in 1..(k - 1) : front[i] = o
      BY <1>7
    <2>. HIDE DEF front, Above
    <2>. QED
      BY <2>1, <2>2, <2>3 DEF Bijection, Injection, Surjection, IsInjective
  <1>9. Cardinality(Above) = k - 1
    <2>1. k - 1 \in Nat
      BY <1>1
    <2>2. ExistsBijection(1..(k - 1), Above)
      BY <1>8 DEF ExistsBijection
    <2>. HIDE DEF Above
    <2>. QED
      BY <2>1, <2>2, FS_CountingElements
  <1>. QED
    BY <1>4, <1>9 DEF Rank

LEMMA AppendKeeps ==
    ASSUME NEW log \in Seq(Nat), NEW t \in Nat
    PROVE  /\ Append(log, t) \in Seq(Nat)
           /\ Len(Append(log, t)) = Len(log) + 1
           /\ \A i \in DOMAIN log : Append(log, t)[i] = log[i]
  OBVIOUS

LEMMA ConcatKeeps ==
    ASSUME NEW log \in Seq(Nat), NEW tail \in Seq(Nat)
    PROVE  /\ log \o tail \in Seq(Nat)
           /\ Len(log \o tail) = Len(log) + Len(tail) /\ Len(tail) \in Nat
           /\ \A i \in DOMAIN log : (log \o tail)[i] = log[i]
  OBVIOUS

\* Nothing is ever deleted from the log or changed in it.
LEMMA LogGrows ==
    ASSUME TypeOK, Writing
    PROVE  /\ audit' \in Seq(Nat)
           /\ Len(audit) <= Len(audit')
           /\ \A i \in DOMAIN audit : audit'[i] = audit[i]
           /\ DOMAIN audit \subseteq DOMAIN audit'
           /\ clock' \in Nat /\ clock <= clock'
  <1>. USE DEF TypeOK
  <1>1. CASE Tick
    BY <1>1 DEF Tick
  <1>2. ASSUME NEW w \in Writes, Write(w)
        PROVE  /\ audit' \in Seq(Nat) /\ Len(audit) <= Len(audit')
               /\ \A i \in DOMAIN audit : audit'[i] = audit[i]
               /\ clock' = clock
    <2>1. clock' = clock /\ \E t \in Started : audit' \in {audit, Append(audit, t)}
      BY <1>2 DEF Write
    <2>2. PICK t \in Nat : audit' \in {audit, Append(audit, t)}
      BY <2>1 DEF Started
    <2>3. CASE audit' = audit
      BY <2>1, <2>3
    <2>4. CASE audit' = Append(audit, t)
      BY <2>1, <2>4, AppendKeeps
    <2>. QED
      BY <2>2, <2>3, <2>4
  <1>3. ASSUME NEW batch \in SUBSET Sources, Sweep(batch)
        PROVE  /\ audit' \in Seq(Nat) /\ Len(audit) <= Len(audit')
               /\ \A i \in DOMAIN audit : audit'[i] = audit[i]
               /\ clock' = clock
    <2>. DEFINE n == Cardinality(batch)
    <2>1. n \in Nat
      BY BatchSize
    <2>2. PICK t \in Started : audit' = audit \o [i \in 1..n |-> t]
      BY <1>3 DEF Sweep
    <2>3. t \in Nat
      BY DEF Started
    <2>. HIDE DEF n
    <2>4. [i \in 1..n |-> t] \in Seq(Nat)
      BY <2>1, <2>3
    <2>5. clock' = clock
      BY <1>3 DEF Sweep
    <2>6. PICK tail \in Seq(Nat) : audit' = audit \o tail
      BY <2>2, <2>4
    <2>7. audit' \in Seq(Nat) /\ \A i \in DOMAIN audit : audit'[i] = audit[i]
      BY <2>6, ConcatKeeps
    <2>8. Len(audit) <= Len(audit')
      <3>1. Len(audit') = Len(audit) + Len(tail) /\ Len(tail) \in Nat
        BY <2>6, ConcatKeeps
      <3>. QED
        BY <3>1
    <2>. QED
      BY <2>5, <2>7, <2>8
  <1>. QED
    BY <1>1, <1>2, <1>3 DEF Writing

-------------------------------------------------------------------------------
(* Types *)

LEMMA ExpiredType ==
    ASSUME NEW row \in EntitlementRow \cup {NULL}, NEW now \in Nat,
           Expirable(row, now)
    PROVE  Expired(row) \in EntitlementRow
  BY DEF Expirable, Expired, EntitlementRow

LEMMA TypeInit == Init => TypeOK
  <1>1. IdleTimeline.page \in Seq(DOMAIN <<>>)
    BY DEF IdleTimeline
  <1>. QED
    BY <1>1, QueryAssumption DEF Init, TypeOK, IdleQuery, IdleTimeline, Ids, Sources

LEMMA WritingType ==
    ASSUME TypeOK, Writing
    PROVE  TypeOK'
  <1>. USE DEF TypeOK
  <1>1. rows' \in [Sources -> EntitlementRow \cup {NULL}]
    <2>1. CASE Tick
      BY <2>1 DEF Tick
    <2>2. ASSUME NEW w \in Writes, Write(w)
          PROVE  rows' \in [Sources -> EntitlementRow \cup {NULL}]
      <3>1. w.source \in Sources /\ w.row \in EntitlementRow
        BY QueryAssumption
      <3>. QED
        BY <2>2, <3>1 DEF Write
    <2>3. ASSUME NEW batch \in SUBSET Sources, Sweep(batch)
          PROVE  rows' \in [Sources -> EntitlementRow \cup {NULL}]
      <3>1. PICK t \in Nat : \A s \in batch : Expirable(rows[s], t)
        BY <2>3 DEF Sweep, Started
      <3>2. \A s \in batch : Expired(rows[s]) \in EntitlementRow
        BY <3>1, ExpiredType
      <3>. QED
        BY <2>3, <3>2 DEF Sweep
    <2>. QED
      BY <2>1, <2>2, <2>3 DEF Writing
  <1>2. query' \in [pc     : {"idle", "asked", "read", "answered"},
                    rows   : [Sources -> EntitlementRow \cup {NULL}],
                    source : Sources \cup {"NONE"},
                    steady : SUBSET Sources,
                    seen   : SUBSET Sources]
    <2>1. query' = query \/ \E st, se \in SUBSET Sources :
                              query' = [query EXCEPT !.steady = st, !.seen = se]
      BY DEF Writing, Observe, ActiveAt
    <2>. QED
      BY <2>1
  <1>3. Ids \subseteq Ids'
    BY LogGrows DEF Ids
  <1>4. timeline' = timeline
    BY DEF Writing, Observe
  <1>5. Seq(Ids) \subseteq Seq(Ids')
    BY <1>3
  <1>. QED
    BY <1>1, <1>2, <1>3, <1>4, <1>5, LogGrows

\* The loop ends at a source that grants access, if there is one, and none that
\* does has a higher priority.
LEMMA CanonicalPicks ==
    ASSUME NEW held, NEW now
    PROVE  /\ Canonical(held, now) \in ActiveAt(held, now) \cup {"NONE"}
           /\ \A s \in ActiveAt(held, now) :
                 Priority[Canonical(held, now)] >= Priority[s]
  <1>. DEFINE C == IsActive(held["CARRIER"], now)
              M == IsActive(held["MARKETPLACE"], now)
              S == IsActive(held["STORE"], now)
  <1>1. Canonical(held, now) = IF S THEN "STORE" ELSE IF C THEN "CARRIER"
                               ELSE IF M THEN "MARKETPLACE" ELSE "NONE"
    BY DEF Canonical, Better, Priority
  <1>2. ActiveAt(held, now) = {s \in Sources : IsActive(held[s], now)}
    BY DEF ActiveAt
  <1>3. /\ "STORE" \in ActiveAt(held, now) <=> S
        /\ "CARRIER" \in ActiveAt(held, now) <=> C
        /\ "MARKETPLACE" \in ActiveAt(held, now) <=> M
    BY <1>2 DEF Sources
  <1>4. ActiveAt(held, now) \subseteq Sources
    BY <1>2
  <1>5. /\ Priority["STORE"] = 3 /\ Priority["CARRIER"] = 2
        /\ Priority["MARKETPLACE"] = 1 /\ Priority["NONE"] = 0
    BY DEF Priority
  <1>. HIDE DEF C, M, S
  <1>. QED
    BY <1>1, <1>3, <1>4, <1>5 DEF Sources

LEMMA QueryingType ==
    ASSUME TypeOK, Querying
    PROVE  TypeOK'
  <1>. USE DEF TypeOK, Ids
  <1>1. query' \in [pc     : {"idle", "asked", "read", "answered"},
                    rows   : [Sources -> EntitlementRow \cup {NULL}],
                    source : Sources \cup {"NONE"},
                    steady : SUBSET Sources,
                    seen   : SUBSET Sources]
    <2>1. IdleQuery \in [pc     : {"idle", "asked", "read", "answered"},
                         rows   : [Sources -> EntitlementRow \cup {NULL}],
                         source : Sources \cup {"NONE"},
                         steady : SUBSET Sources,
                         seen   : SUBSET Sources]
      BY DEF IdleQuery
    <2>2. CASE AskEntitlement
      BY <2>1, <2>2 DEF AskEntitlement, ActiveAt
    <2>3. CASE ReadRows
      BY <2>3 DEF ReadRows
    <2>4. CASE AnswerEntitlement
      <3>1. Canonical(query.rows, clock) \in Sources \cup {"NONE"}
        BY CanonicalPicks DEF ActiveAt
      <3>. QED
        BY <2>4, <3>1 DEF AnswerEntitlement
    <2>5. CASE EndQuery
      BY <2>1, <2>5 DEF EndQuery
    <2>. QED
      BY <2>2, <2>3, <2>4, <2>5 DEF Querying
  <1>2. UNCHANGED <<clock, rows, audit, timeline>>
    BY DEF Querying
  <1>. QED
    BY <1>1, <1>2

Walk == [pc     : {"idle", "asked", "paged", "answered", "done"},
         limit  : Nat \ {0},
         offset : Nat,
         page   : Seq(Ids),
         total  : Nat,
         start  : SUBSET Ids,
         seen   : SUBSET Ids]

\* A page holds entries, no more than were asked for or are left.
LEMMA PageType ==
    ASSUME TypeOK, ReadPage
    PROVE  /\ timeline'.page \in Seq(Ids)
           /\ timeline'.page # <<>> =>
                 NextOffset(timeline') <= Len(audit)
           /\ timeline'.page = <<>> => Len(audit) <= timeline.offset
           /\ timeline' = [timeline EXCEPT !.pc = "paged", !.page = timeline'.page]
           /\ \E list \in Listings :
                 \A k \in Ids : /\ k > timeline.offset
                               /\ k <= NextOffset(timeline')
                               => list[k] \in Range(timeline'.page)
  <1>. DEFINE o == timeline.offset
              length == PageLength(Len(audit), timeline.limit, o)
  <1>1. o \in Nat /\ timeline.limit \in Nat \ {0} /\ Len(audit) \in Nat
    BY DEF TypeOK
  <1>2. PICK list \in Listings :
            timeline' = [timeline EXCEPT
                           !.pc = "paged",
                           !.page = [i \in 1..length |-> list[o + i]]]
    BY DEF ReadPage
  <1>3. /\ length \in Nat
        /\ length # 0 => o + length <= Len(audit)
        /\ length = 0 => Len(audit) <= o
    BY <1>1 DEF PageLength
  <1>. DEFINE page == [i \in 1..length |-> list[o + i]]
  <1>4. list \in [Ids -> Ids] /\ Ids = 1..Len(audit)
    BY DEF Listings, Injection, Ids, TypeOK
  <1>. HIDE DEF length
  <1>5. \A i \in 1..length : o + i \in Ids
    BY <1>1, <1>3, <1>4
  <1>6. page \in Seq(Ids) /\ Len(page) = length
    BY <1>3, <1>4, <1>5
  <1>7. timeline'.page = page /\ timeline'.offset = o
    BY <1>2 DEF TypeOK
  <1>8. page = <<>> <=> length = 0
    BY <1>3, <1>6
  <1>9. \A k \in Ids : k > o /\ k <= o + length => list[k] \in Range(page)
    <2>1. ASSUME NEW k \in Ids, k > o, k <= o + length
          PROVE  list[k] \in Range(page)
      <3>1. k - o \in 1..length /\ o + (k - o) = k
        BY <2>1, <1>1, <1>3, <1>4
      <3>2. page[k - o] = list[k] /\ k - o \in DOMAIN page
        BY <3>1
      <3>. QED
        BY <3>2 DEF Range
    <2>. QED
      BY <2>1
  <1>10. NextOffset(timeline') = o + length
    BY <1>6, <1>7 DEF NextOffset
  <1>11. timeline' = [timeline EXCEPT !.pc = "paged", !.page = timeline'.page]
    BY <1>2, <1>7
  <1>. HIDE DEF page
  <1>. QED
    BY <1>3, <1>6, <1>7, <1>8, <1>9, <1>10, <1>11

LEMMA PagingType ==
    ASSUME TypeOK, Paging
    PROVE  TypeOK'
  <1>1. timeline \in Walk
    BY DEF TypeOK, Walk
  <1>2. IdleTimeline \in Walk
    BY DEF IdleTimeline, Walk
  <1>0. <<>> \in Seq(Ids)
    OBVIOUS
  <1>3. timeline' \in Walk
    <2>1. ASSUME NEW limit \in Limits, NEW offset \in Offsets,
                 AskTimeline(limit, offset)
          PROVE  timeline' \in Walk
      <3>1. limit \in Nat \ {0} /\ offset \in Nat
        BY <2>1, QueryAssumption DEF AskTimeline, ValidPage
      <3>. QED
        BY <2>1, <3>1, <1>2 DEF AskTimeline, Walk
    <2>2. CASE ReadPage
      BY <2>2, <1>1, PageType DEF Walk
    <2>3. CASE CountTotal
      <3>1. Len(audit) \in Nat
        BY DEF TypeOK
      <3>. QED
        BY <2>3, <3>1, <1>1 DEF CountTotal, Walk
    <2>4. CASE TimelineFails
      BY <2>4, <1>0, <1>1 DEF TimelineFails, Walk
    <2>5. CASE TurnPage
      <3>1. /\ timeline.page \in Seq(Ids)
            /\ timeline.offset + Len(timeline.page) \in Nat
        BY <1>1 DEF Walk
      <3>2. Range(timeline.page) \subseteq Ids
        BY <3>1 DEF Range
      <3>3. PICK pc \in {"asked", "done"} :
                timeline' = [timeline EXCEPT
                               !.pc     = pc,
                               !.offset = timeline.offset + Len(timeline.page),
                               !.page   = <<>>,
                               !.seen   = timeline.seen \cup Range(timeline.page)]
        BY <2>5 DEF TurnPage
      <3>. QED
        BY <3>1, <3>2, <3>3, <1>0, <1>1 DEF Walk
    <2>6. CASE CloseTimeline
      BY <2>6, <1>2 DEF CloseTimeline
    <2>. QED
      BY <2>1, <2>2, <2>3, <2>4, <2>5, <2>6 DEF Paging
  <1>4. UNCHANGED <<clock, rows, audit, query>>
    BY DEF Paging
  <1>. QED
    BY <1>3, <1>4 DEF TypeOK, Walk, Ids

LEMMA TypeNext ==
    ASSUME TypeOK, [Next]_vars
    PROVE  TypeOK'
  <1>1. CASE UNCHANGED vars
    BY <1>1 DEF vars, TypeOK, Ids
  <1>. QED
    BY <1>1, WritingType, QueryingType, PagingType DEF Next

-------------------------------------------------------------------------------
(* The canonical entitlement *)

\* A row does not come to grant access by the passing of time.
LEMMA ActiveShrinks ==
    ASSUME NEW held \in [Sources -> EntitlementRow \cup {NULL}],
           NEW now \in Nat, NEW later \in Nat, now <= later
    PROVE  ActiveAt(held, later) \subseteq ActiveAt(held, now)
  <1>1. ASSUME NEW s \in Sources, IsActive(held[s], later)
        PROVE  IsActive(held[s], now)
    <2>1. held[s] # NULL => held[s].expires \in Nat \cup {NULL}
      BY DEF EntitlementRow
    <2>. QED
      BY <1>1, <2>1 DEF IsActive
  <1>. QED
    BY <1>1 DEF ActiveAt

LEMMA QueryNext ==
    ASSUME TypeOK, QuerySound, CanonicalIsCurrent, [Next]_vars
    PROVE  QuerySound' /\ CanonicalIsCurrent'
  <1>. DEFINE Query == [pc     : {"idle", "asked", "read", "answered"},
                        rows   : [Sources -> EntitlementRow \cup {NULL}],
                        source : Sources \cup {"NONE"},
                        steady : SUBSET Sources,
                        seen   : SUBSET Sources]
  <1>0. query \in Query /\ clock \in Nat
    BY DEF TypeOK
  <1>1. CASE Writing
    <2>. DEFINE now == ActiveAt(rows', clock')
    <2>1. clock' \in Nat /\ clock <= clock'
      BY <1>1, LogGrows
    <2>2. CASE query.pc \in {"asked", "read"}
      <3>1. query' = [query EXCEPT
                        !.steady = {s \in query.steady \cap now : rows'[s] = rows[s]},
                        !.seen   = query.seen \cup now]
        BY <1>1, <2>2 DEF Writing, Observe
      <3>2. /\ query'.pc = query.pc /\ query'.rows = query.rows
            /\ query'.steady = {s \in query.steady \cap now : rows'[s] = rows[s]}
            /\ query'.seen = query.seen \cup now
        BY <3>1, <1>0
      <3>3. CASE query.pc = "asked"
        BY <3>2, <3>3 DEF QuerySound, CanonicalIsCurrent
      <3>4. CASE query.pc = "read"
        <4>1. ActiveAt(query.rows, clock') \subseteq query.seen
          BY <3>4, <2>1, <1>0, ActiveShrinks DEF QuerySound
        <4>2. \A s \in query'.steady :
                  query.rows[s] = rows'[s] /\ s \in ActiveAt(query.rows, clock')
          BY <3>2, <3>4 DEF QuerySound, ActiveAt
        <4>. QED
          BY <3>2, <3>4, <4>1, <4>2 DEF QuerySound, CanonicalIsCurrent
      <3>. QED
        BY <2>2, <3>3, <3>4
    <2>3. CASE query.pc \notin {"asked", "read"}
      <3>1. query' = query
        BY <1>1, <2>3 DEF Writing, Observe
      <3>. QED
        BY <2>3, <3>1 DEF QuerySound, CanonicalIsCurrent
    <2>. QED
      BY <2>2, <2>3
  <1>2. CASE Querying
    <2>0. rows' = rows /\ clock' = clock
      BY <1>2 DEF Querying
    <2>1. CASE AskEntitlement
      <3>1. /\ query'.pc = "asked"
            /\ query'.steady = ActiveAt(rows, clock)
            /\ query'.seen = ActiveAt(rows, clock)
        BY <2>1 DEF AskEntitlement, IdleQuery
      <3>. QED
        BY <2>0, <3>1 DEF QuerySound, CanonicalIsCurrent
    <2>2. CASE ReadRows
      <3>1. /\ query'.pc = "read" /\ query'.rows = rows
            /\ query'.steady = query.steady /\ query'.seen = query.seen
        BY <2>2, <1>0 DEF ReadRows
      <3>2. query.pc = "asked"
        BY <2>2 DEF ReadRows
      <3>. QED
        BY <2>0, <3>1, <3>2 DEF QuerySound, CanonicalIsCurrent
    <2>3. CASE AnswerEntitlement
      <3>1. /\ query'.pc = "answered"
            /\ query'.source = Canonical(query.rows, clock)
            /\ query'.steady = query.steady /\ query'.seen = query.seen
        BY <2>3, <1>0 DEF AnswerEntitlement
      <3>2. query.pc = "read"
        BY <2>3 DEF AnswerEntitlement
      <3>3. /\ query.steady \subseteq ActiveAt(query.rows, clock)
            /\ ActiveAt(query.rows, clock) \subseteq query.seen
        BY <3>2 DEF QuerySound
      <3>4. /\ query'.source \in query'.seen \cup {"NONE"}
            /\ \A s \in query'.steady : Priority[query'.source] >= Priority[s]
        BY <3>1, <3>3, CanonicalPicks
      <3>. QED
        BY <3>1, <3>4 DEF QuerySound, CanonicalIsCurrent
    <2>4. CASE EndQuery
      <3>1. query'.pc = "idle"
        BY <2>4 DEF EndQuery, IdleQuery
      <3>. QED
        BY <3>1 DEF QuerySound, CanonicalIsCurrent
    <2>. QED
      BY <1>2, <2>1, <2>2, <2>3, <2>4 DEF Querying
  <1>3. CASE Paging \/ UNCHANGED vars
    <2>1. rows' = rows /\ clock' = clock /\ query' = query
      BY <1>3 DEF Paging, vars
    <2>. QED
      BY <2>1 DEF QuerySound, CanonicalIsCurrent
  <1>. QED
    BY <1>1, <1>2, <1>3 DEF Next

-------------------------------------------------------------------------------
(* The timeline *)

WalkInv == /\ WalkSound(timeline)
           /\ PageFits
           /\ TotalCoversPage
           /\ PagingMissesNothing

\* Growth of the log keeps what is tied so, and what is ahead ahead.
LEMMA WritingWalk ==
    ASSUME TypeOK, WalkInv, Writing
    PROVE  WalkInv'
  <1>1. timeline' = timeline
    BY DEF Writing, Observe
  <1>2. /\ audit \in Seq(Nat) /\ audit' \in Seq(Nat)
        /\ Len(audit) <= Len(audit')
        /\ \A i \in Ids : audit'[i] = audit[i]
        /\ Ids \subseteq Ids'
    BY LogGrows DEF Ids, TypeOK
  <1>3. timeline.start \subseteq Ids
    BY DEF TypeOK
  <1>4. \A id \in Ids : Tied(id) => Tied(id)'
    BY <1>2 DEF Tied
  <1>5. \A id \in Ids : Rank(audit, id) <= Rank(audit', id)
    BY <1>2, RankGrows DEF Ids
  <1>6. Unseen(timeline)' \subseteq Unseen(timeline)
    BY <1>1, <1>3, <1>4 DEF Unseen
  <1>7. Missing(timeline)' \subseteq Missing(timeline)
    BY <1>1, <1>6 DEF Missing
  <1>8. UnseenLieAhead(timeline) => UnseenLieAhead(timeline)'
    <2>. SUFFICES ASSUME UnseenLieAhead(timeline)
                  PROVE  UnseenLieAhead(timeline)'
      OBVIOUS
    <2>1. timeline.offset \in Nat /\ NextOffset(timeline) \in Nat
      BY DEF TypeOK, NextOffset
    <2>2. ASSUME NEW id \in Ids, NEW n \in Nat, n <= Rank(audit, id)
          PROVE  n <= Rank(audit', id)
      <3>1. Rank(audit, id) \in Nat /\ Rank(audit', id) \in Nat
        BY <1>2, RankBounds DEF Ids
      <3>. QED
        BY <2>2, <3>1, <1>5
    <2>3. Unseen(timeline) \subseteq Ids /\ Missing(timeline) \subseteq Ids
      BY <1>3 DEF Unseen, Missing
    <2>. QED
      BY <1>1, <1>6, <1>7, <2>1, <2>2, <2>3 DEF UnseenLieAhead, NextOffset
  <1>9. WalkSound(timeline)'
    BY <1>1, <1>7, <1>8 DEF WalkInv, WalkSound, NextOffset
  <1>10. PageFits'
    <2>1. NextOffset(timeline) \in Nat /\ Len(audit) \in Nat /\ Len(audit') \in Nat
      BY <1>2 DEF TypeOK, NextOffset
    <2>. QED
      BY <1>1, <1>2, <2>1 DEF WalkInv, PageFits, NextOffset
  <1>11. TotalCoversPage' /\ PagingMissesNothing'
    BY <1>1, <1>3, <1>4 DEF WalkInv, TotalCoversPage, PagingMissesNothing
  <1>. QED
    BY <1>9, <1>10, <1>11 DEF WalkInv

\* A page brings every entry up to its end that the client has still to see.
LEMMA ReadPageWalk ==
    ASSUME TypeOK, WalkInv, ReadPage, audit' = audit
    PROVE  WalkInv'
  <1>0. timeline \in Walk /\ audit \in Seq(Nat)
    BY DEF TypeOK, Walk
  <1>1. /\ timeline'.pc = "paged" /\ timeline'.offset = timeline.offset
        /\ timeline'.start = timeline.start /\ timeline'.seen = timeline.seen
    BY <1>0, PageType DEF Walk
  <1>2. UnseenLieAhead(timeline)
    BY DEF ReadPage, WalkInv, WalkSound
  <1>3. \A id \in Ids : Tied(id)' <=> Tied(id)
    BY DEF Tied, Ids
  <1>4. Unseen(timeline)' = Unseen(timeline) /\ Unseen(timeline) \subseteq Ids
    BY <1>0, <1>1, <1>3 DEF Unseen, Walk
  <1>5. \A id \in Unseen(timeline) : /\ timeline.offset <= Rank(audit, id)
                                     /\ Rank(audit, id) \in Nat
                                     /\ Rank(audit, id) < Len(audit)
    BY <1>0, <1>2, <1>4, RankBounds DEF UnseenLieAhead, Ids
  <1>6. PICK list \in Listings :
            \A k \in Ids : k > timeline.offset /\ k <= NextOffset(timeline')
                           => list[k] \in Range(timeline'.page)
    BY PageType
  <1>7. ASSUME NEW id \in Missing(timeline)'
        PROVE  NextOffset(timeline') <= Rank(audit, id)
    <2>1. id \in Unseen(timeline) /\ id \notin Range(timeline'.page)
      BY <1>4 DEF Missing
    <2>2. /\ list \in Injection(DOMAIN audit, DOMAIN audit)
          /\ \A i, j \in DOMAIN list : i < j => audit[list[i]] >= audit[list[j]]
      BY DEF Listings, InOrder, Ids
    <2>3. \A other \in DOMAIN audit \ {id} : audit[other] # audit[id]
      BY <2>1 DEF Unseen, Tied, Ids
    <2>4. PICK k \in DOMAIN audit : list[k] = id /\ Rank(audit, id) = k - 1
      BY <1>0, <1>4, <2>1, <2>2, <2>3, ListedByRank DEF Ids
    <2>5. k \in Nat /\ k > timeline.offset
      BY <1>0, <1>5, <2>1, <2>4 DEF Walk
    <2>6. ~ k <= NextOffset(timeline')
      BY <1>6, <2>1, <2>4, <2>5 DEF Ids
    <2>7. NextOffset(timeline') \in Nat
      BY <1>0, <1>1, PageType DEF NextOffset, Walk
    <2>. QED
      BY <2>4, <2>5, <2>6, <2>7
  <1>8. UnseenLieAhead(timeline)'
    BY <1>1, <1>4, <1>5, <1>7 DEF UnseenLieAhead, NextOffset
  <1>9. timeline'.page = <<>> => Missing(timeline)' = {}
    <2>1. timeline'.page = <<>> => Unseen(timeline) = {}
      <3>1. timeline.offset \in Nat /\ Len(audit) \in Nat
        BY <1>0 DEF Walk
      <3>. QED
        BY <1>5, <3>1, PageType
    <2>. QED
      BY <2>1, <1>4 DEF Missing
  <1>10. WalkSound(timeline)'
    BY <1>1, <1>8, <1>9 DEF WalkSound
  <1>11. PageFits'
    BY PageType DEF PageFits
  <1>. QED
    BY <1>1, <1>10, <1>11 DEF WalkInv, TotalCoversPage, PagingMissesNothing

\* From the front, everything is still ahead; from elsewhere, nothing is owed.
LEMMA AskTimelineWalk ==
    ASSUME TypeOK, audit' = audit,
           NEW limit \in Limits, NEW offset \in Offsets, AskTimeline(limit, offset)
    PROVE  WalkInv'
  <1>1. /\ timeline'.pc = "asked" /\ timeline'.offset = offset
        /\ timeline'.page = <<>>
        /\ timeline'.start = IF offset = 0 THEN Ids ELSE {}
    BY DEF AskTimeline, IdleTimeline
  <1>2. NextOffset(timeline') = timeline'.offset
    BY <1>1, QueryAssumption DEF NextOffset
  <1>3. Unseen(timeline)' \subseteq timeline'.start
        /\ Missing(timeline)' \subseteq timeline'.start
    BY DEF Unseen, Missing
  <1>4. \A id \in timeline'.start : timeline'.offset <= Rank(audit', id)
    <2>1. ASSUME NEW id \in timeline'.start
          PROVE  timeline'.offset <= Rank(audit', id)
      <3>1. offset = 0 /\ id \in DOMAIN audit
        BY <1>1 DEF Ids
      <3>2. Rank(audit, id) \in Nat
        BY <3>1, RankBounds DEF TypeOK
      <3>. QED
        BY <1>1, <3>1, <3>2
    <2>. QED
      BY <2>1
  <1>5. UnseenLieAhead(timeline)'
    BY <1>2, <1>3, <1>4 DEF UnseenLieAhead
  <1>. QED
    BY <1>1, <1>5 DEF WalkInv, WalkSound, PageFits, TotalCoversPage,
                      PagingMissesNothing

\* A total that is not beyond the page leaves nothing ahead of it.
LEMMA CountTotalWalk ==
    ASSUME TypeOK, WalkInv, CountTotal, audit' = audit
    PROVE  WalkInv'
  <1>0. timeline \in Walk /\ audit \in Seq(Nat)
    BY DEF TypeOK, Walk
  <1>1. /\ timeline'.pc = "answered" /\ timeline'.offset = timeline.offset
        /\ timeline'.page = timeline.page
        /\ timeline'.start = timeline.start /\ timeline'.seen = timeline.seen
        /\ timeline'.total = Len(audit)
    BY <1>0 DEF CountTotal, Walk
  <1>2. timeline.pc = "paged"
    BY DEF CountTotal
  <1>3. \A id \in Ids : Tied(id)' <=> Tied(id)
    BY DEF Tied, Ids
  <1>4. /\ Unseen(timeline)' = Unseen(timeline) /\ Unseen(timeline) \subseteq Ids
        /\ Missing(timeline)' = Missing(timeline)
        /\ Missing(timeline) \subseteq Ids
    BY <1>0, <1>1, <1>3 DEF Unseen, Missing, Walk
  <1>5. NextOffset(timeline') = NextOffset(timeline)
        /\ NextOffset(timeline) \in Nat
    BY <1>0, <1>1 DEF NextOffset, Walk
  <1>6. UnseenLieAhead(timeline)
    BY <1>2 DEF WalkInv, WalkSound
  <1>7. UnseenLieAhead(timeline)'
    BY <1>1, <1>4, <1>5, <1>6 DEF UnseenLieAhead
  <1>8. Len(audit) <= NextOffset(timeline) => Missing(timeline) = {}
    <2>1. ASSUME NEW id \in Missing(timeline)
          PROVE  ~(Len(audit) <= NextOffset(timeline))
      <3>1. Rank(audit, id) \in Nat /\ Rank(audit, id) < Len(audit)
        BY <1>0, <1>4, RankBounds DEF Ids
      <3>2. NextOffset(timeline) <= Rank(audit, id)
        BY <1>6 DEF UnseenLieAhead
      <3>3. Len(audit) \in Nat
        BY <1>0
      <3>. QED
        BY <1>5, <3>1, <3>2, <3>3
    <2>. QED
      BY <2>1
  <1>9. timeline.page = <<>> => Missing(timeline) = {}
    BY <1>2 DEF WalkInv, WalkSound
  <1>10. WalkSound(timeline)'
    BY <1>1, <1>4, <1>5, <1>7, <1>8, <1>9 DEF WalkSound
  <1>11. timeline.page # <<>> => NextOffset(timeline) <= Len(audit)
    BY <1>2 DEF WalkInv, PageFits
  <1>12. PageFits'
    BY <1>1, <1>5, <1>11 DEF PageFits
  <1>13. TotalCoversPage'
    BY <1>1, <1>11 DEF TotalCoversPage, NextOffset
  <1>. QED
    BY <1>1, <1>10, <1>12, <1>13 DEF WalkInv, PagingMissesNothing

\* The page is lost, and everything it held is still ahead of its offset.
LEMMA TimelineFailsWalk ==
    ASSUME TypeOK, WalkInv, TimelineFails, audit' = audit
    PROVE  WalkInv'
  <1>0. timeline \in Walk
    BY DEF TypeOK, Walk
  <1>1. /\ timeline'.pc = "asked" /\ timeline'.offset = timeline.offset
        /\ timeline'.page = <<>>
        /\ timeline'.start = timeline.start /\ timeline'.seen = timeline.seen
    BY <1>0 DEF TimelineFails, Walk
  <1>2. UnseenLieAhead(timeline)
    BY DEF TimelineFails, WalkInv, WalkSound
  <1>3. \A id \in Ids : Tied(id)' <=> Tied(id)
    BY DEF Tied, Ids
  <1>4. Unseen(timeline)' = Unseen(timeline)
    BY <1>0, <1>1, <1>3 DEF Unseen, Walk
  <1>5. Missing(timeline)' \subseteq Unseen(timeline)
    BY <1>4 DEF Missing
  <1>6. NextOffset(timeline') = timeline.offset
    BY <1>0, <1>1 DEF NextOffset, Walk
  <1>7. UnseenLieAhead(timeline)'
    BY <1>1, <1>2, <1>4, <1>5, <1>6 DEF UnseenLieAhead
  <1>. QED
    BY <1>1, <1>7 DEF WalkInv, WalkSound, PageFits, TotalCoversPage,
                      PagingMissesNothing

\* What was missing is ahead of the next page, and the walk ends only when
\* nothing is.
LEMMA TurnPageWalk ==
    ASSUME TypeOK, WalkInv, TurnPage, audit' = audit
    PROVE  WalkInv'
  <1>. DEFINE more == timeline.page # <<>> /\ NextOffset(timeline) < timeline.total
  <1>0. timeline \in Walk
    BY DEF TypeOK, Walk
  <1>1. /\ timeline'.pc = IF more THEN "asked" ELSE "done"
        /\ timeline'.offset = NextOffset(timeline)
        /\ timeline'.page = <<>>
        /\ timeline'.start = timeline.start
        /\ timeline'.seen = timeline.seen \cup Range(timeline.page)
    BY <1>0 DEF TurnPage, NextOffset, Walk
  <1>2. timeline.pc = "answered"
    BY DEF TurnPage
  <1>3. \A id \in Ids : Tied(id)' <=> Tied(id)
    BY DEF Tied, Ids
  <1>4. timeline.start \subseteq Ids
    BY <1>0 DEF Walk
  <1>5. Unseen(timeline)' = Missing(timeline)
    BY <1>1, <1>3, <1>4 DEF Unseen, Missing
  <1>6. Missing(timeline)' \subseteq Missing(timeline)
    BY <1>5 DEF Missing
  <1>7. NextOffset(timeline) \in Nat /\ timeline.total \in Nat
    BY <1>0 DEF NextOffset, Walk
  <1>8. NextOffset(timeline') = NextOffset(timeline)
    BY <1>1, <1>7 DEF NextOffset
  <1>9. UnseenLieAhead(timeline)
    BY <1>2 DEF WalkInv, WalkSound
  <1>10. UnseenLieAhead(timeline)'
    BY <1>1, <1>5, <1>6, <1>8, <1>9 DEF UnseenLieAhead
  <1>11. ~more => Missing(timeline) = {}
    BY <1>2, <1>7 DEF WalkInv, WalkSound
  <1>12. WalkSound(timeline)'
    BY <1>1, <1>10 DEF WalkSound
  <1>13. PagingMissesNothing'
    <2>1. ~more => Unseen(timeline)' = {}
      BY <1>5, <1>11
    <2>. QED
      BY <1>1, <2>1 DEF PagingMissesNothing, Unseen
  <1>. QED
    BY <1>1, <1>12, <1>13 DEF WalkInv, PageFits, TotalCoversPage

LEMMA WalkNext ==
    ASSUME TypeOK, WalkInv, [Next]_vars
    PROVE  WalkInv'
  <1>1. CASE Writing
    BY <1>1, WritingWalk
  <1>2. CASE Querying \/ UNCHANGED vars
    <2>1. timeline' = timeline /\ audit' = audit
      BY <1>2 DEF Querying, vars
    <2>2. \A id : Tied(id)' <=> Tied(id)
      BY <2>1 DEF Tied, Ids
    <2>3. Unseen(timeline)' = Unseen(timeline) /\ Missing(timeline)' = Missing(timeline)
      BY <2>1, <2>2 DEF Unseen, Missing
    <2>4. UnseenLieAhead(timeline)' <=> UnseenLieAhead(timeline)
      BY <2>1, <2>3 DEF UnseenLieAhead
    <2>5. WalkSound(timeline)' <=> WalkSound(timeline)
      BY <2>1, <2>3, <2>4 DEF WalkSound
    <2>. QED
      BY <2>1, <2>2, <2>5 DEF WalkInv, PageFits, TotalCoversPage, PagingMissesNothing
  <1>3. CASE Paging
    <2>1. audit' = audit
      BY <1>3 DEF Paging
    <2>2. CASE CloseTimeline
      <3>1. timeline'.pc = "idle"
        BY <2>2 DEF CloseTimeline, IdleTimeline
      <3>. QED
        BY <3>1 DEF WalkInv, WalkSound, PageFits, TotalCoversPage,
                    PagingMissesNothing
    <2>. QED
      BY <1>3, <2>1, <2>2, AskTimelineWalk, ReadPageWalk, CountTotalWalk,
         TimelineFailsWalk, TurnPageWalk DEF Paging
  <1>. QED
    BY <1>1, <1>2, <1>3 DEF Next

-------------------------------------------------------------------------------
(* Theorems *)

LEMMA InitIInv == Init => IInv
  <1>. SUFFICES ASSUME Init PROVE IInv
    OBVIOUS
  <1>1. query.pc = "idle" /\ timeline.pc = "idle"
    BY DEF Init, IdleQuery, IdleTimeline
  <1>. QED
    BY <1>1, TypeInit DEF IInv, QuerySound, CanonicalIsCurrent, WalkSound,
                          PageFits, TotalCoversPage, PagingMissesNothing

LEMMA NextIInv == IInv /\ [Next]_vars => IInv'
  <1>. SUFFICES ASSUME IInv, [Next]_vars PROVE IInv'
    OBVIOUS
  <1>1. TypeOK'
    BY TypeNext DEF IInv
  <1>2. QuerySound' /\ CanonicalIsCurrent'
    BY QueryNext DEF IInv
  <1>3. WalkInv'
    BY WalkNext DEF IInv, WalkInv
  <1>. QED
    BY <1>1, <1>2, <1>3 DEF IInv, WalkInv

\* What each read has seen so far stays true of the tables as they change.
THEOREM Invariance == Spec => []IInv
  BY InitIInv, NextIInv, PTL DEF Spec

\* Tables and reads keep their types.
THEOREM TypeCorrectness == Spec => []TypeOK
  BY Invariance, PTL DEF IInv

\* The entitlement a query answers with granted access while it ran, and no
\* source of higher priority did so throughout.
THEOREM CanonicalIsAlwaysCurrent == Spec => []CanonicalIsCurrent
  BY Invariance, PTL DEF IInv

\* The count of a timeline response, taken after the page, is never less than
\* what the page reaches.
THEOREM TotalsCoverPages == Spec => []TotalCoversPage
  BY Invariance, PTL DEF IInv

\* A client that pages through a timeline with offsets, while the listing
\* grows, misses no transition it should see but those of equal created_at.
THEOREM PagingIsComplete == Spec => []PagingMissesNothing
  BY Invariance, PTL DEF IInv
===============================================================================
