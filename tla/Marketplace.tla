------------------------------ MODULE Marketplace ------------------------------
(***************************************************************************)
(* Bulk revocations of marketplace access.  A request names many users and *)
(* is processed one user at a time, each in a transaction of its own:      *)
(* insert the user's key for the month, upsert the MARKETPLACE row under   *)
(* the user's advisory lock, mark the event processed.  The first failure  *)
(* ends the request; what it committed before stays, and the marketplace   *)
(* sends the request again.                                                *)
(*                                                                         *)
(* All users of a request are revoked as of the time it was received, and  *)
(* the month of that time is part of their keys.  Meanwhile other requests *)
(* for the same users, new grants and the expiration sweep go on.  Grants  *)
(* come from outside: nothing under src/ writes an active MARKETPLACE row  *)
(* except the tests, by the same UpsertEntitlement.                        *)
(*                                                                         *)
(* A statement that needs a lock waits until nobody has it and adds it to  *)
(* the locks of its request; the end of the transaction gives them back.   *)
(* The sweep closes a row in one step; StoreReconciler shows that it may   *)
(* be seen so.                                                             *)
(***************************************************************************)
EXTENDS Entitlements, FiniteSetsExt

CONSTANTS
    Requests,      \* the lists of users the marketplace may send
    Grants,        \* the grants of access it may make
    Handlers,      \* concurrent API request handlers
    MaxUsers,      \* users a request may name: 10000 in the code
    MonthLength,   \* instants of a calendar month
    StartClock,    \* the time at which the database is empty
    MaxClock       \* bound on the clock

ASSUME RequestAssumption ==
    /\ Requests \subseteq Seq(Users)
    /\ Grants \subseteq [user : Users, time : Nat, expires : Nat \cup {NULL}]
    /\ \A g \in Grants : g.expires # NULL => g.time < g.expires
    /\ MonthLength \in Nat \ {0}
    /\ StartClock \in Nat

VARIABLES
    clock,         \* wall-clock time
    rows,          \* user_entitlements: user -> MARKETPLACE row, or NULL
    revocations,   \* marketplace_revocations; at is the time of the request
    processed,     \* keys in processed_events for source MARKETPLACE
    audit,         \* audit_logs: user -> rows in the order of their commit
    req,           \* handler -> the request it is processing
    reported,      \* sum of the counts in the 202 answers
    answered       \* what the marketplace has seen a 202 for

tables == <<rows, revocations, processed, audit>>
vars   == <<clock, rows, revocations, processed, audit, req, reported, answered>>

-------------------------------------------------------------------------------
(* Records *)

IdleReq == [pc |-> "idle", users |-> <<>>, next |-> 1, at |-> 0, count |-> 0,
            prev |-> NULL, locks |-> {}]

MonthOf(time) == time \div MonthLength

\* The idempotency key marketplace_revoke_<user>_<YYYY-MM>.
Key(user, time) == [user |-> user, month |-> MonthOf(time)]

AuditEntry(from, to, trigger) ==
    [from |-> StateOf(from), to |-> StateOf(to), trigger |-> trigger]

Init == /\ clock       = StartClock
        /\ rows        = [u \in Users |-> NULL]
        /\ revocations = {}
        /\ processed   = {}
        /\ audit       = [u \in Users |-> <<>>]
        /\ req         = [h \in Handlers |-> IdleReq]
        /\ reported    = 0
        /\ answered    = {}

-------------------------------------------------------------------------------
(* Locks *)

InTx == {"inserted", "read", "skipped", "rejected", "written"}

Busy(h) == req[h].pc # "idle"

\* The user the request is at, and the user's key.
Current(h) == req[h].users[req[h].next]

\* Variant that takes the month of each statement's own time.
KeyOfNow(h) == Key(Current(h), clock)

KeyOf(h) == Key(Current(h), req[h].at)

Recorded(key) == \E r \in revocations : Key(r.user, r.at) = key

\* The uncommitted entry of the key in the unique index, the user's advisory
\* lock, and the lock of the user's row.
KeyLock(key) == <<"key", key>>
UserLock(user) == <<"user", user>>
RowLock(user) == <<"row", user>>

KeyLocked(key) == \E h \in Handlers : KeyLock(key) \in req[h].locks
UserLocked(user) == \E h \in Handlers : UserLock(user) \in req[h].locks
RowLocked(user) == \E h \in Handlers : RowLock(user) \in req[h].locks

-------------------------------------------------------------------------------
(* The request *)

ValidRequest(users) == users # <<>> /\ Len(users) <= MaxUsers

\* Decoding, validation and batchTS.  A request that is not valid is answered
\* 400 and changes nothing.
Receive(h, users) ==
    /\ ~Busy(h)
    /\ ValidRequest(users)
    /\ req' = [req EXCEPT ![h] = [pc |-> "next", users |-> users, next |-> 1,
                                  at |-> clock, count |-> 0, prev |-> NULL,
                                  locks |-> {}]]
    /\ UNCHANGED <<clock, tables, reported, answered>>

AtUser(h) == req[h].pc = "next" /\ req[h].next <= Len(req[h].users)

\* Variant with pg_advisory_lock, which lasts to the end of the request.
KeepsUserLock(r, n) ==
    [pc |-> "next", users |-> r.users, next |-> r.next + 1, at |-> r.at,
     count |-> r.count + n, prev |-> NULL,
     locks |-> {lock \in r.locks : lock[1] = "user"}]

\* The request goes on to its next user, having counted n.  The transaction is
\* over and its locks are free.
NextUser(r, n) ==
    [pc |-> "next", users |-> r.users, next |-> r.next + 1, at |-> r.at,
     count |-> r.count + n, prev |-> NULL, locks |-> {}]

\* Variant that inserts the key in a transaction of its own.
InsertOutsideTx(h) ==
    /\ AtUser(h)
    /\ ~Recorded(KeyOf(h))
    /\ revocations' = revocations \cup {[user |-> Current(h), at |-> req[h].at]}
    /\ req' = [req EXCEPT ![h].pc = "inserted"]
    /\ UNCHANGED <<clock, rows, processed, audit, reported, answered>>

\* BEGIN, and INSERT .. ON CONFLICT (event_id) DO NOTHING: it waits for a
\* transaction that holds the same key.
InsertRevocation(h) ==
    /\ AtUser(h)
    /\ ~KeyLocked(KeyOf(h))
    /\ ~Recorded(KeyOf(h))
    /\ req' = [req EXCEPT ![h].pc = "inserted",
                          ![h].locks = @ \cup {KeyLock(KeyOf(h))}]
    /\ UNCHANGED <<clock, tables, reported, answered>>

\* Variant that counts every user of the request.
CountRecorded(h) ==
    /\ AtUser(h)
    /\ Recorded(KeyOf(h))
    /\ req' = [req EXCEPT ![h] = NextUser(@, 1)]
    /\ UNCHANGED <<clock, tables, reported, answered>>

\* Variant that takes a key on record for one still locked, and waits.
AwaitRecorded(h) ==
    /\ AtUser(h)
    /\ Recorded(KeyOf(h))
    /\ UNCHANGED vars

\* The insert found the key: an empty commit, and the user is not counted.
SkipRecorded(h) ==
    /\ AtUser(h)
    /\ Recorded(KeyOf(h))
    /\ req' = [req EXCEPT ![h] = NextUser(@, 0)]
    /\ UNCHANGED <<clock, tables, reported, answered>>

\* The advisory lock, the SELECT under it, and the early return if the row is
\* not older than the request.
LockAndRead(h) ==
    LET row == rows[Current(h)]
    IN  /\ req[h].pc = "inserted"
        /\ ~UserLocked(Current(h))
        /\ req' = [req EXCEPT ![h].prev = row,
                              ![h].pc = IF Newer(row, req[h].at) THEN "read"
                                                                 ELSE "skipped",
                              ![h].locks = @ \cup {UserLock(Current(h))}]
        /\ UNCHANGED <<clock, tables, reported, answered>>

\* Variant without the WHERE: the row that was read decides.
UpsertAsRead(h) ==
    /\ req[h].pc = "read"
    /\ ~RowLocked(Current(h))
    /\ req' = [req EXCEPT ![h].pc = "written",
                          ![h].locks = @ \cup {RowLock(Current(h))}]
    /\ UNCHANGED <<clock, tables, reported, answered>>

\* INSERT .. ON CONFLICT DO UPDATE .. WHERE, on the row as it is by now.  The
\* service ignores whether it changed anything.
Upsert(h) ==
    /\ req[h].pc = "read"
    /\ ~RowLocked(Current(h))
    /\ req' = [req EXCEPT ![h].pc = IF Newer(rows[Current(h)], req[h].at)
                                    THEN "written" ELSE "rejected",
                          ![h].locks = @ \cup {RowLock(Current(h))}]
    /\ UNCHANGED <<clock, tables, reported, answered>>

\* The row a revocation writes.
Revoked(time) == [active |-> FALSE, expires |-> NULL, lastEvent |-> time]

Changes(r) == r.pc = "written" /\ StateChanged(r.prev, Revoked(r.at))

\* The audit row, the processed marker and COMMIT.
Install(h) ==
    LET u == Current(h)
        r == req[h]
    IN  /\ r.pc \in {"skipped", "rejected", "written"}
        /\ revocations' = revocations \cup {[user |-> u, at |-> r.at]}
        /\ processed' = processed \cup {KeyOf(h)}
        /\ rows' = IF r.pc = "written" THEN [rows EXCEPT ![u] = Revoked(r.at)]
                                       ELSE rows
        /\ audit' = IF Changes(r)
                    THEN [audit EXCEPT ![u] =
                            Append(@, AuditEntry(r.prev, Revoked(r.at), KeyOf(h)))]
                    ELSE audit

\* The handler learns of the commit and counts the user.
Commit(h) ==
    /\ Install(h)
    /\ req' = [req EXCEPT ![h] = NextUser(@, 1)]
    /\ UNCHANGED <<clock, reported, answered>>

\* The connection is lost after the commit took effect: to the handler it
\* failed, and the request ends with a 500.
CommitUnseen(h) ==
    /\ Install(h)
    /\ req' = [req EXCEPT ![h] = IdleReq]
    /\ UNCHANGED <<clock, reported, answered>>

\* 202 with the count, after the last user.  The answer may be lost.
Respond(h) ==
    LET r == req[h]
    IN  /\ r.pc = "next"
        /\ r.next > Len(r.users)
        /\ reported' = reported + r.count
        /\ answered' \in {answered, answered \cup {[users |-> r.users, at |-> r.at]}}
        /\ req' = [req EXCEPT ![h] = IdleReq]
        /\ UNCHANGED <<clock, tables>>

\* Variant that goes on to the next user after a failure.
PassOver(h) ==
    /\ req[h].pc \in InTx
    /\ req' = [req EXCEPT ![h] = NextUser(@, 0)]
    /\ UNCHANGED <<clock, tables, reported, answered>>

\* A statement fails, the client goes away, or the process dies: the open
\* transaction is rolled back and the remaining users are not tried.
Abort(h) ==
    /\ Busy(h)
    /\ req' = [req EXCEPT ![h] = IdleReq]
    /\ UNCHANGED <<clock, tables, reported, answered>>

-------------------------------------------------------------------------------
(* The other writers of these rows *)

\* A marketplace grant: an upsert under the advisory lock, ordered by its time.
Grant(g) ==
    LET old == rows[g.user]
        row == [active |-> TRUE, expires |-> g.expires, lastEvent |-> g.time]
        new == IF Newer(old, g.time) THEN row ELSE old
    IN  /\ g.time <= clock
        /\ g.expires \notin 0..clock
        /\ ~UserLocked(g.user)
        /\ ~RowLocked(g.user)
        /\ rows' = [rows EXCEPT ![g.user] = new]
        /\ audit' = IF StateChanged(old, new)
                    THEN [audit EXCEPT ![g.user] =
                            Append(@, AuditEntry(old, new, NULL))]
                    ELSE audit
        /\ UNCHANGED <<clock, revocations, processed, req, reported, answered>>

\* The expiration sweep, which skips locked rows and takes no advisory lock.
Sweep(u) ==
    /\ Expirable(rows[u], clock)
    /\ ~RowLocked(u)
    /\ rows' = [rows EXCEPT ![u] = Expired(@)]
    /\ audit' = [audit EXCEPT ![u] =
                    Append(@, AuditEntry(rows[u], Expired(rows[u]), NULL))]
    /\ UNCHANGED <<clock, revocations, processed, req, reported, answered>>

Tick == /\ clock < MaxClock
        /\ clock' = clock + 1
        /\ UNCHANGED <<tables, req, reported, answered>>

-------------------------------------------------------------------------------

RequestStep(h) ==
    \/ InsertRevocation(h)
    \/ SkipRecorded(h)
    \/ LockAndRead(h)
    \/ Upsert(h)
    \/ Commit(h)
    \/ Respond(h)

Next == \/ Tick
        \/ \E h \in Handlers, users \in Requests : Receive(h, users)
        \/ \E h \in Handlers : RequestStep(h) \/ CommitUnseen(h) \/ Abort(h)
        \/ \E g \in Grants : Grant(g)
        \/ \E u \in Users : Sweep(u)

Spec == Init /\ [][Next]_vars

-------------------------------------------------------------------------------
(* Types *)

Keys == [user : Users, month : Nat]

Locks == ({"key"} \X Keys) \cup ({"user", "row"} \X Users)

Request == [pc    : InTx \cup {"idle", "next"},
            users : Seq(Users),
            next  : Nat \ {0},
            at    : Nat,
            count : Nat,
            prev  : EntitlementRow \cup {NULL},
            locks : SUBSET Locks]

\* Every table holds rows of its schema, every request is at a point of the
\* code that exists, and a transaction is about one of its users.
TypeOK ==
    /\ clock       \in Nat
    /\ rows        \in [Users -> EntitlementRow \cup {NULL}]
    /\ revocations \in SUBSET [user : Users, at : Nat]
    /\ processed   \in SUBSET Keys
    /\ audit       \in [Users -> Seq([from    : RowState \cup {NULL},
                                      to      : RowState \cup {NULL},
                                      trigger : Keys \cup {NULL}])]
    /\ req         \in [Handlers -> Request]
    /\ \A h \in Handlers :
          req[h].pc \in InTx => req[h].next \in DOMAIN req[h].users
    /\ reported    \in Nat
    /\ answered    \in SUBSET [users : Seq(Users), at : Nat]

-------------------------------------------------------------------------------
(* Safety *)

\* A revocation on record has been applied: its marker is there, and the row is
\* at least as new as the request, so that it grants access only if a grant as
\* new as the request does.  A retry may therefore pass the user over.
\* (WithMarketplaceRevocationTransaction: key, row and marker commit together.)
RecordedIsApplied ==
    \A r \in revocations :
        /\ Key(r.user, r.at) \in processed
        /\ rows[r.user] # NULL
        /\ r.at <= rows[r.user].lastEvent

\* A 202 means that every user of the request has a revocation on record for
\* the month of the request, by this attempt or another.  (A failed user ends
\* the request with an error instead.)
AnsweredIsRecorded ==
    \A a \in answered : \A i \in DOMAIN a.users : Recorded(Key(a.users[i], a.at))

\* An audit row triggered by a revocation is that of a revocation on record of
\* the same user, and no other audit row has the same trigger.
\* (migrations/SCHEMA.md: "duplicate delivery does not create a second
\* transition row".)
AuditNamesItsRevocation ==
    \A u \in Users : \A i \in DOMAIN audit[u] :
        LET trigger == audit[u][i].trigger
        IN  trigger # NULL =>
                /\ trigger.user = u
                /\ Recorded(trigger)
                /\ \A j \in DOMAIN audit[u] \ {i} : audit[u][j].trigger # trigger

\* The next statement of request h needs a lock that request g has: of the key
\* it inserts, of the user it is at, of the user's row.
WaitsFor(h, g) ==
    \/ AtUser(h) /\ KeyLock(KeyOf(h)) \in req[g].locks
    \/ req[h].pc = "inserted" /\ UserLock(Current(h)) \in req[g].locks
    \/ req[h].pc = "read" /\ RowLock(Current(h)) \in req[g].locks

\* Requests that name the same users in different orders never wait for each
\* other, or one for itself, in a circle.  (A transaction per user, and locks
\* that end with it: client.go takes pg_advisory_xact_lock, and every transaction
\* takes its locks in the order key, user, row.)
NoCircularWait ==
    ~ \E S \in (SUBSET Handlers) \ {{}} : \A h \in S : \E g \in S : WaitsFor(h, g)

\* The revocations of users that a request has passed.
PassedOf(h) == {r \in revocations :
                   /\ r.at = req[h].at
                   /\ \E i \in 1..(req[h].next - 1) : r.user = req[h].users[i]}

\* What the answers and the requests under way have counted are revocations on
\* record, each counted once: there are as many as the answers say, and besides
\* these, for each request, as many of the users that it has passed.
\* (processed++ only if the insert was the request's own.)
CountsAreRevocations ==
    \E paid \in kSubset(reported, revocations) :
        \E credit \in [Handlers -> SUBSET (revocations \ paid)] :
            /\ \A h \in Handlers : credit[h] \in kSubset(req[h].count, PassedOf(h))
            /\ \A h, g \in Handlers : h # g => credit[h] \cap credit[g] = {}

-------------------------------------------------------------------------------
(* The ledger this implements *)

Ledger == INSTANCE RevocationLedger

\* Seen through the tables and the answers, requests that run at once, stop half
\* way and are sent again behave as if each revocation took effect at one
\* instant, and each answer were given when all its users were revoked.
\* (WithMarketplaceRevocationTransaction, and the answer after the loop.)
ImplementsLedger == Ledger!Spec

-------------------------------------------------------------------------------
(* Liveness *)

Seen(users) == \E a \in answered : a.users = users

Answers(users) == \E h \in Handlers : /\ req[h].users = users
                                      /\ Respond(h)
                                      /\ ~Seen(users)
                                      /\ \E a \in answered' : a.users = users

\* Handlers run and locks are granted in order; the marketplace sends a request
\* again until it has seen a 202 for it, and not every 202 is lost.
Fairness ==
    /\ \A h \in Handlers : WF_vars(RequestStep(h))
    /\ \A users \in {r \in Requests : ValidRequest(r)} :
          /\ SF_vars(\E h \in Handlers : ~Seen(users) /\ Receive(h, users))
          /\ SF_vars(Answers(users))

\* At some time requests stop failing.  A lost commit needs no such bound: each
\* records a key that was not there.
FailuresCease == <>[][\A h \in Handlers : ~Abort(h)]_vars

FairSpec == Spec /\ Fairness /\ FailuresCease

\* Every valid request is answered in the end, however often it failed half
\* way; by AnsweredIsRecorded all its users are revoked by then.
\* (README.md: a failure leaves the key free, "allowing a provider retry to
\* finish the revocation".)
EveryRequestAnswered ==
    \A users \in Requests : ValidRequest(users) => <>Seen(users)
===============================================================================
