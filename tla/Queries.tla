-------------------------------- MODULE Queries --------------------------------
(***************************************************************************)
(* The two reads of the API: the canonical entitlement of a user, and a    *)
(* page of the user's timeline.  Neither takes a lock or opens a           *)
(* transaction.  The first reads the rows and then the clock, the second   *)
(* runs two statements; upserts of the three sources and the sweep commit  *)
(* between any two of these.                                               *)
(*                                                                         *)
(* Only one user appears, since reads are by user, and one reader, who     *)
(* does one thing after the other, since reads share nothing with each     *)
(* other.  The writers commit in one step here;                            *)
(* StoreReconciler, CarrierPolling and Marketplace have their statements.  *)
(* What matters of them is which rows they write, and that audit_logs      *)
(* takes created_at from the start of a transaction: MaxWait is how long   *)
(* one may take.  A client of the timeline pages through it with offsets.  *)
(***************************************************************************)
EXTENDS Entitlements, FiniteSets, Functions

CONSTANTS
    Writes,        \* what the three sources may write
    Limits,        \* page sizes a client may ask for: up to 1000 in the code
    Offsets,       \* offsets it may start from
    MaxLimit,      \* 1000 in the code
    MaxWait,       \* how long a transaction may wait for its locks
    MaxAudit,      \* bound on the audit rows of the user
    StartClock,    \* the time at which the database is empty
    MaxClock       \* bound on the clock

Sources == {"STORE", "CARRIER", "MARKETPLACE"}

ASSUME QueryAssumption ==
    /\ Writes \subseteq [source : Sources, row : EntitlementRow]
    /\ Limits \subseteq Int
    /\ Offsets \subseteq Int
    /\ {MaxLimit, MaxWait, MaxAudit, StartClock} \subseteq Nat

VARIABLES
    clock,         \* wall-clock time
    rows,          \* user_entitlements: source -> row of the user, or NULL
    audit,         \* created_at of the user's audit_logs rows, by id
    query,         \* the reader's entitlement query
    timeline       \* the reader's walk through the timeline

vars == <<clock, rows, audit, query, timeline>>

-------------------------------------------------------------------------------
(* Records *)

IdleQuery == [pc |-> "idle", rows |-> [s \in Sources |-> NULL],
              source |-> "NONE", steady |-> {}, seen |-> {}]

IdleTimeline == [pc |-> "idle", limit |-> 1, offset |-> 0, page |-> <<>>,
                 total |-> 0, start |-> {}, seen |-> {}]

Init == /\ clock    = StartClock
        /\ rows     = [s \in Sources |-> NULL]
        /\ audit    = <<>>
        /\ query    = IdleQuery
        /\ timeline = IdleTimeline

-------------------------------------------------------------------------------
(* The writers *)

\* The created_at of a transaction that commits now.
Started == {t \in 0..clock : clock <= t + MaxWait}

\* UpsertEntitlement by any of the sources.
Write(w) ==
    LET old == rows[w.source]
        new == IF Newer(old, w.row.lastEvent) THEN w.row ELSE old
    IN  /\ Len(audit) < MaxAudit
        /\ w.row.lastEvent <= clock
        /\ rows' = [rows EXCEPT ![w.source] = new]
        /\ \E t \in Started :
              audit' = IF StateChanged(old, new) THEN Append(audit, t) ELSE audit
        /\ UNCHANGED clock

\* The sweep closes what had expired when it began; locks and the batch size
\* decide how much of it.  Its audit rows all have the same created_at.
Sweep(batch) ==
    /\ batch # {}
    /\ Len(audit) + Cardinality(batch) <= MaxAudit
    /\ \E t \in Started :
          /\ \A s \in batch : Expirable(rows[s], t)
          /\ audit' = audit \o [i \in 1..Cardinality(batch) |-> t]
    /\ rows' = [s \in Sources |-> IF s \in batch THEN Expired(rows[s]) ELSE rows[s]]
    /\ UNCHANGED clock

Tick == /\ clock < MaxClock
        /\ clock' = clock + 1
        /\ UNCHANGED <<rows, audit>>

-------------------------------------------------------------------------------
(* The canonical entitlement *)

Priority == [STORE |-> 3, CARRIER |-> 2, MARKETPLACE |-> 1, NONE |-> 0]

\* Variant of Better that trusts the persisted flag.
BetterByFlag(best, held, s, now) ==
    IF held[s] # NULL /\ held[s].active /\ Priority[s] > Priority[best]
    THEN s ELSE best

\* One iteration of the loop over the rows.
Better(best, held, s, now) ==
    IF IsActive(held[s], now) /\ Priority[s] > Priority[best] THEN s ELSE best

\* The loop, over the rows ORDER BY source; a user has one per source at most.
Canonical(held, now) ==
    Better(Better(Better("NONE", held, "CARRIER", now),
                  held, "MARKETPLACE", now), held, "STORE", now)

\* The sources that grant access at an instant.
ActiveAt(held, now) == {s \in Sources : IsActive(held[s], now)}

AtRest == query.pc = "idle" /\ timeline.pc = "idle"

AskEntitlement ==
    /\ AtRest
    /\ query' = [IdleQuery EXCEPT !.pc = "asked",
                                  !.steady = ActiveAt(rows, clock),
                                  !.seen = ActiveAt(rows, clock)]

\* GetEntitlementsByUser: one statement, so one snapshot.
ReadRows ==
    /\ query.pc = "asked"
    /\ query' = [query EXCEPT !.pc = "read", !.rows = rows]

\* time.Now(), the loop, and the answer.
AnswerEntitlement ==
    /\ query.pc = "read"
    /\ query' = [query EXCEPT !.pc = "answered",
                              !.source = Canonical(query.rows, clock)]

\* The reader takes the answer, or the statement failed and that is a 500.
EndQuery ==
    /\ query.pc \in {"asked", "answered"}
    /\ query' = IdleQuery

\* History: which rows stayed as they were and active, and which were active,
\* while the query was under way.
Observe ==
    /\ query' = IF query.pc \in {"asked", "read"}
                THEN [query EXCEPT
                        !.steady = {s \in @ \cap ActiveAt(rows', clock') :
                                      rows'[s] = rows[s]},
                        !.seen   = @ \cup ActiveAt(rows', clock')]
                ELSE query
    /\ UNCHANGED timeline

-------------------------------------------------------------------------------
(* The timeline *)

Ids == DOMAIN audit

\* Variant of InOrder for a query without its ORDER BY.
InAnyOrder(list) == TRUE

\* ORDER BY created_at DESC, which leaves rows of equal created_at in any order.
InOrder(list) == \A i, j \in DOMAIN list :
                    i < j => audit[list[i]] >= audit[list[j]]

Listings == {list \in Injection(Ids, Ids) : InOrder(list)}

\* What LIMIT and OFFSET leave of n rows.
PageLength(n, limit, offset) == IF n <= offset THEN 0
                                ELSE IF n - offset < limit THEN n - offset
                                ELSE limit

\* What the handler requires of the parameters; the service's own defaults and
\* limits are then without effect.
ValidPage(limit, offset) == /\ limit \in 1..MaxLimit
                            /\ offset >= 0

\* A client begins to page through the timeline.  From the front, it wants to
\* see what is there by now.
AskTimeline(limit, offset) ==
    /\ AtRest
    /\ ValidPage(limit, offset)
    /\ timeline' = [IdleTimeline EXCEPT
                       !.pc = "asked", !.limit = limit, !.offset = offset,
                       !.start = IF offset = 0 THEN Ids ELSE {}]

\* LIMIT and OFFSET on one listing.
ReadPage ==
    /\ timeline.pc = "asked"
    /\ \E list \in Listings :
          LET length == PageLength(Len(audit), timeline.limit, timeline.offset)
          IN  timeline' = [timeline EXCEPT
                  !.pc = "paged",
                  !.page = [i \in 1..length |-> list[timeline.offset + i]]]

\* Variant that counts for the first page of a walk only.
CountOnce ==
    /\ timeline.pc = "paged"
    /\ timeline' = [timeline EXCEPT
                       !.pc = "answered",
                       !.total = IF @ = 0 THEN Len(audit) ELSE @]

\* CountAuditLogsByUser, and the response.
CountTotal ==
    /\ timeline.pc = "paged"
    /\ timeline' = [timeline EXCEPT !.pc = "answered", !.total = Len(audit)]

\* Either statement fails: 500, and the client asks for the page again.
TimelineFails ==
    /\ timeline.pc = "paged"
    /\ timeline' = [timeline EXCEPT !.pc = "asked", !.page = <<>>]

\* The client asks for the next page until it has skipped the total.
TurnPage ==
    LET next == timeline.offset + Len(timeline.page)
        more == timeline.page # <<>> /\ next < timeline.total
    IN  /\ timeline.pc = "answered"
        /\ timeline' = [timeline EXCEPT
                           !.pc     = IF more THEN "asked" ELSE "done",
                           !.offset = next,
                           !.page   = <<>>,
                           !.seen   = @ \cup Range(timeline.page)]

CloseTimeline ==
    /\ timeline.pc = "done"
    /\ timeline' = IdleTimeline

-------------------------------------------------------------------------------

Writing == /\ \/ Tick
              \/ \E w \in Writes : Write(w)
              \/ \E batch \in SUBSET Sources : Sweep(batch)
           /\ Observe

Querying == /\ \/ AskEntitlement
               \/ ReadRows
               \/ AnswerEntitlement
               \/ EndQuery
            /\ UNCHANGED <<clock, rows, audit, timeline>>

Paging == /\ \/ \E limit \in Limits, offset \in Offsets :
                    AskTimeline(limit, offset)
             \/ ReadPage
             \/ CountTotal
             \/ TimelineFails
             \/ TurnPage
             \/ CloseTimeline
          /\ UNCHANGED <<clock, rows, audit, query>>

Next == Writing \/ Querying \/ Paging

Spec == Init /\ [][Next]_vars

-------------------------------------------------------------------------------
(* Types *)

\* Rows and audit log are as in the schema, both reads at a point of the code.
TypeOK ==
    /\ clock \in Nat
    /\ rows  \in [Sources -> EntitlementRow \cup {NULL}]
    /\ audit \in Seq(Nat)
    /\ query \in [pc     : {"idle", "asked", "read", "answered"},
                  rows   : [Sources -> EntitlementRow \cup {NULL}],
                  source : Sources \cup {"NONE"},
                  steady : SUBSET Sources,
                  seen   : SUBSET Sources]
    /\ timeline \in [pc     : {"idle", "asked", "paged", "answered", "done"},
                     limit  : Nat \ {0},
                     offset : Nat,
                     page   : Seq(Ids),
                     total  : Nat,
                     start  : SUBSET Ids,
                     seen   : SUBSET Ids]

-------------------------------------------------------------------------------
(* Safety *)

\* The canonical source granted access at some instant of the query, and it is
\* of no lower priority than any source whose row granted it throughout.  In
\* particular a row that has expired and is not swept yet neither is the answer
\* nor hides another.  (README.md: "an expired higher-priority source cannot
\* hide a lower-priority active source while reconciliation is catching up".)
\* A row renewed after it was read and expired before the clock was read does
\* not count: the answer may be NONE then, though access never lapsed.
CanonicalIsCurrent ==
    query.pc = "answered" =>
        /\ query.source \in query.seen \cup {"NONE"}
        /\ \A s \in query.steady : Priority[query.source] >= Priority[s]

\* The total of a response is at least what its page reaches, though a
\* transition may commit between the two statements.  (The page is read before
\* the count, and audit rows are never deleted.)
TotalCoversPage ==
    timeline.pc = "answered" /\ timeline.page # <<>> =>
        timeline.offset + Len(timeline.page) <= timeline.total

Tied(id) == \E other \in Ids \ {id} : audit[other] = audit[id]

\* A client that pages from the front to the end, while transitions are added
\* anywhere, has seen every transition there was when it began, except one with
\* the created_at of another.  (openapi: offset is the "number of records to
\* skip (for pagination)"; the listing breaks no ties.)
PagingMissesNothing ==
    timeline.pc = "done" =>
        \A id \in timeline.start \ timeline.seen : Tied(id)
===============================================================================
