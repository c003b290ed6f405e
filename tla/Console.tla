------------------------------- MODULE Console -------------------------------
(***************************************************************************)
(* The console: its sessions, the three tables with soft deletion (buoys,  *)
(* operators, treatments), its work orders and its log, as the handlers of *)
(* httpapi use console.Store.  No handler opens a transaction, so every    *)
(* statement is a step of its own: UserBySession, the write or the query,  *)
(* then the log entry or the count.  A request that is refused by its first *)
(* statement changes nothing and is no step.                                *)
(*                                                                         *)
(* Signal recovery reports are a second table that only grows, like work   *)
(* orders without a status, and are left out with the columns.  The row of *)
(* a kind stands for the rows of its table, which are independent.         *)
(***************************************************************************)
EXTENDS Naturals, FiniteSets

CONSTANTS
  Requests,           \* concurrent requests
  Users, RoleOf,      \* console_users
  Tokens, UserOf,     \* the sessions that logins may create, and whose they are
  Kinds,              \* tables with soft deletion, "buoy" among them, a row in each
  SizeAsked,          \* the page sizes that clients ask for
  DefaultSize, MaxSize,   \* 10 and 100
  MaxOrders,          \* bound on the work orders
  Nobody

ASSUME ConsoleAssumption ==
  /\ UserOf \in [Tokens -> Users]
  /\ SizeAsked \subseteq Nat
  /\ DefaultSize \in Nat \ {0} /\ MaxSize \in Nat
  /\ MaxOrders \in Nat /\ MaxOrders >= 2

Seeds == {1, 2}       \* the orders that the migration inserts, with one created_at

VARIABLES
  active,             \* the users with status 1
  sessions,           \* console_sessions
  rows,               \* the row of each kind and who wrote it last
  orders,             \* console_command_orders by creation: status and version
  log,                \* console_logs, but for its entries of logins: user and operation
  req,                \* the requests in flight
  won, twice,         \* exclusive operations that succeeded, and again
  lost                \* those of them whose log entry could not be written

vars == <<active, sessions, rows, orders, log, req, won, twice, lost>>

(***************************************************************************)
(* Operations: what is done, to which table, order or page size            *)
(***************************************************************************)
RowOps == {"create", "update", "delete"} \X Kinds
OrderOps == {<<"order", "new">>} \cup ({"move"} \X (1 .. MaxOrders) \X (1 .. 3))
PageOps == {"page"} \X SizeAsked
ListOps == {"list"} \X Kinds
Ops == RowOps \cup OrderOps \cup PageOps \cup ListOps \cup {<<"logout">>}

\* registerConsoleRoutes
Allowed(op) ==
  CASE op[1] \in {"create", "update"} /\ op[2] = "treatment" -> {"mission_lead", "reviewer"}
    [] op[1] \in {"create", "update", "delete"} -> {"mission_lead"}
    [] op[1] = "order" -> {"mission_lead", "array_operator"}
    [] OTHER -> {"mission_lead", "array_operator", "reviewer"}

Idle == [pc |-> "idle"]
NoPage == [number |-> 1, records |-> {}, total |-> 0, shown |-> {}, start |-> {}, gone |-> {}]
Running == {"insert", "act", "count"}   \* has been authorised and not answered

Orders == DOMAIN orders

\* what the migration leaves; a row may be one that it inserted
Init ==
  /\ active = Users
  /\ sessions = [t \in Tokens |-> "none"]
  /\ rows \in [Kinds -> [state : {"absent", "live"}, by : {Nobody}]]
  /\ orders = [o \in Seeds |-> [status |-> o - 1, version |-> 1]]
  /\ log = {}
  /\ req = [r \in Requests |-> Idle]
  /\ won = {} /\ twice = {} /\ lost = {}

Begin(r, pc, t, op, p) ==
  req' = [req EXCEPT ![r] = [pc |-> pc, token |-> t, op |-> op, over |-> FALSE, page |-> p]]
Goto(r, pc) == req' = [req EXCEPT ![r].pc = pc]
End(r) == req' = [req EXCEPT ![r] = Idle]
Me(r) == UserOf[req[r].token]
Acting(r, op) == req[r].pc = "act" /\ req[r].op = op
ActingAny(r, name) == req[r].pc = "act" /\ req[r].op[1] = name

\* requests that were let in before their session or user came to an end
Overtaken(ts) ==
  [r \in Requests |-> IF req[r].pc \in Running /\ req[r].token \in ts
                      THEN [req[r] EXCEPT !.over = TRUE] ELSE req[r]]

\* an operation that must succeed for one request only
Wins(x) ==
  /\ won' = won \cup {x} /\ twice' = IF x \in won THEN twice \cup {x} ELSE twice
  /\ UNCHANGED lost
NoRace == UNCHANGED <<won, twice, lost>>

(***************************************************************************)
(* Sessions                                                                *)
(***************************************************************************)
\* Login: the user is read and checked, ...
LoginRead(r, t) ==
  /\ req[r] = Idle
  /\ sessions[t] = "none" /\ UserOf[t] \in active
  /\ \A s \in Requests : req[s] # Idle => req[s].token # t
  /\ Begin(r, "insert", t, <<"login">>, NoPage)
  /\ UNCHANGED <<active, sessions, rows, orders, log>> /\ NoRace

\* ... and the session inserted
LoginInsert(r) ==
  /\ req[r].pc = "insert"
  /\ sessions' = [sessions EXCEPT ![req[r].token] = "live"]
  /\ Goto(r, "log")
  /\ UNCHANGED <<active, rows, orders, log>> /\ NoRace

\* mutant: the session's owner is not looked at
SessionLive(t) == sessions[t] = "live"

UserBySession(t) == sessions[t] = "live" /\ UserOf[t] \in active

PermittedRole(t, op) == RoleOf[UserOf[t]] \in Allowed(op)

Gone == {k \in Kinds : rows[k].state = "deleted"}

\* requireConsoleRole
Authorize(r, t, op) ==
  /\ req[r] = Idle
  /\ UserBySession(t)
  /\ PermittedRole(t, op)
  /\ Begin(r, "act", t, op, IF op[1] = "list" THEN [NoPage EXCEPT !.gone = Gone] ELSE NoPage)
  /\ UNCHANGED <<active, sessions, rows, orders, log>> /\ NoRace

\* mutant: AND revoked_at IS NULL is missing
RevocableAgain(t) == sessions[t] # "none"

Revocable(t) == sessions[t] \in {"live", "expired"}

\* consoleLogout, RevokeSession
Logout(r) ==
  LET t == req[r].token IN
  /\ Acting(r, <<"logout">>)
  /\ Revocable(t)
  /\ sessions' = [sessions EXCEPT ![t] = "revoked"]
  /\ Wins(<<"logout", t>>)
  /\ req' = [Overtaken({t}) EXCEPT ![r] = Idle]
  /\ UNCHANGED <<active, rows, orders, log>>

Expire(t) ==
  /\ sessions[t] = "live"
  /\ sessions' = [sessions EXCEPT ![t] = "expired"]
  /\ req' = Overtaken({t})
  /\ UNCHANGED <<active, rows, orders, log>> /\ NoRace

\* somebody disables a user in the database
Disable(u) ==
  /\ u \in active
  /\ active' = active \ {u}
  /\ req' = Overtaken({t \in Tokens : UserOf[t] = u})
  /\ UNCHANGED <<sessions, rows, orders, log>> /\ NoRace

(***************************************************************************)
(* Rows with soft deletion                                                 *)
(***************************************************************************)
PutRow(r, k, state) ==
  /\ rows' = [rows EXCEPT ![k] = [state |-> state, by |-> Me(r)]]
  /\ Goto(r, "log")
  /\ UNCHANGED <<active, sessions, orders, log>>

CreateRow(r, k) ==
  /\ Acting(r, <<"create", k>>) /\ rows[k].state = "absent"
  /\ PutRow(r, k, "live") /\ NoRace

NotDeleted(k) == rows[k].state = "live"

Updatable(k) == NotDeleted(k)

UpdateRow(r, k) ==
  /\ Acting(r, <<"update", k>>) /\ Updatable(k)
  /\ PutRow(r, k, rows[k].state) /\ NoRace

DeleteRow(r, k) ==
  /\ Acting(r, <<"delete", k>>) /\ NotDeleted(k)
  /\ PutRow(r, k, "deleted")
  /\ Wins(req[r].op)

WriteRow(r, k) == CreateRow(r, k) \/ UpdateRow(r, k) \/ DeleteRow(r, k)

\* The three tables, and the handlers that write to them
AcousticBuoyWrites(r) == "buoy" \in Kinds /\ WriteRow(r, "buoy")
ArrayOperatorWrites(r) == "operator" \in Kinds /\ WriteRow(r, "operator")
TreatmentWrites(r) == "treatment" \in Kinds /\ WriteRow(r, "treatment")

\* mutant: the WHERE clause of the rows is forgotten
RowsAll(k) == {k}

RowsOf(k) == IF NotDeleted(k) THEN {k} ELSE {}

\* The rows of a table, and then their number: CountPage
ListRows(r, k) ==
  /\ Acting(r, <<"list", k>>)
  /\ req' = [req EXCEPT ![r].pc = "count", ![r].page.records = RowsOf(k)]
  /\ UNCHANGED <<active, sessions, rows, orders, log>> /\ NoRace

AcousticBuoyPage(r) == "buoy" \in Kinds /\ ListRows(r, "buoy")
ArrayOperatorPage(r) == "operator" \in Kinds /\ ListRows(r, "operator")
TreatmentPage(r) == "treatment" \in Kinds /\ ListRows(r, "treatment")

(***************************************************************************)
(* Work orders                                                             *)
(***************************************************************************)
\* The foreign keys ask for a buoy and a treatment, deleted or not.
CreateWorkOrder(r) ==
  LET n == Cardinality(Orders) + 1 IN
  /\ Acting(r, <<"order", "new">>) /\ n <= MaxOrders
  /\ \A k \in Kinds \cap {"buoy", "treatment"} : rows[k].state # "absent"
  /\ orders' = [o \in 1 .. n |-> IF o = n THEN [status |-> 0, version |-> 1] ELSE orders[o]]
  /\ Goto(r, "log")
  /\ UNCHANGED <<active, sessions, rows, log>> /\ NoRace

\* mutant: status=ANY($3) admits a status too many
MovedFromBusy(next) == CASE next = 1 -> {0} [] next = 2 -> {1} [] next = 3 -> {0, 1}

\* the map `allowed`
MovedFrom(next) == CASE next = 1 -> {0} [] next = 2 -> {1} [] next = 3 -> {0}

UpdateWorkOrderStatus(r) ==
  LET o == req[r].op[2]
      next == req[r].op[3] IN
  /\ ActingAny(r, "move") /\ o \in Orders
  /\ orders[o].status \in MovedFrom(next)
  /\ orders' = [orders EXCEPT ![o] = [status |-> next, version |-> @.version + 1]]
  /\ Wins(req[r].op)
  /\ Goto(r, "log")
  /\ UNCHANGED <<active, sessions, rows, log>>

(***************************************************************************)
(* Pages: a client reads one after the other until one is empty            *)
(***************************************************************************)
pageBounds(current, size) ==
  LET c == IF current < 1 THEN 1 ELSE current
      s == IF size < 1 \/ size > MaxSize THEN DefaultSize ELSE size IN
  [size |-> s, offset |-> (c - 1) * s]

\* ORDER BY created_at DESC: the newest first.  The seeds have one time, and
\* may come in either order in every query.
Listed(i, swapped) ==
  LET n == Cardinality(Orders) IN
  IF swapped /\ i >= n - 1 THEN i + 2 - n ELSE n + 1 - i

\* mutant: deleted buoys take their orders off the list
JoinedLive == IF rows["buoy"].state = "deleted" THEN {} ELSE Orders

\* the orders that the JOINs of WorkOrderPage keep
Joined == Orders

WorkOrderPage(r, swapped) ==
  LET p == req[r].page
      b == pageBounds(p.number, req[r].op[2])
      found == {Listed(i, swapped) : i \in (b.offset + 1 .. b.offset + b.size) \cap Orders}
                 \cap Joined IN
  /\ ActingAny(r, "page")
  /\ req' = [req EXCEPT ![r].pc = "count",
                        ![r].page = [p EXCEPT !.records = found,
                                              !.shown = @ \cup found,
                                              !.start = IF p.number = 1 THEN Orders ELSE @]]
  /\ UNCHANGED <<active, sessions, rows, orders, log>> /\ NoRace

\* mutant: orders that are done are not counted
TotalOpen(op) == Cardinality({o \in Orders : orders[o].status = 0})

\* SELECT count(*), after the rows have been read
Total(op) == Cardinality(IF op[1] = "list" THEN {k \in {op[2]} : NotDeleted(k)} ELSE Orders)

CountPage(r) ==
  /\ req[r].pc = "count"
  /\ req' = [req EXCEPT ![r].pc = "answered", ![r].page.total = Total(req[r].op)]
  /\ UNCHANGED <<active, sessions, rows, orders, log>> /\ NoRace

\* the client asks for the next page, as a new request
NextPage(r) ==
  LET q == req[r] IN
  /\ q.pc = "answered" /\ q.op[1] = "page" /\ q.page.records # {}
  /\ UserBySession(q.token) /\ PermittedRole(q.token, q.op)
  /\ Begin(r, "act", q.token, q.op, [q.page EXCEPT !.number = @ + 1])
  /\ UNCHANGED <<active, sessions, rows, orders, log>> /\ NoRace

(***************************************************************************)
(* The log and the end of a request                                        *)
(***************************************************************************)
\* mutant: only logins are logged
LoggedLogins(r) == log

\* recordConsoleOperation's entry
Logged(r) == log \cup ({Me(r)} \X ({req[r].op} \cap Ops))

\* recordConsoleOperation, after the write
WriteLog(r) ==
  /\ req[r].pc = "log"
  /\ log' = Logged(r)
  /\ End(r)
  /\ UNCHANGED <<active, sessions, rows, orders>> /\ NoRace

\* mutant: a failed write is logged like the others
AnswerFailedLogged(r) == Goto(r, "log")

AnswerFailed(r) == End(r)

\* The write matches no row, the statement fails or the client goes away; or
\* the log entry fails, which nobody is told; or a client is content.
Fail(r) ==
  /\ req[r] # Idle
  /\ IF req[r].pc = "act" THEN AnswerFailed(r) ELSE End(r)
  /\ lost' = IF req[r].pc = "log" THEN lost \cup ({req[r].op} \cap won) ELSE lost
  /\ UNCHANGED <<active, sessions, rows, orders, log, won, twice>>

Act(r) ==
  \/ Logout(r)
  \/ AcousticBuoyWrites(r) \/ ArrayOperatorWrites(r) \/ TreatmentWrites(r)
  \/ AcousticBuoyPage(r) \/ ArrayOperatorPage(r) \/ TreatmentPage(r)
  \/ CreateWorkOrder(r) \/ UpdateWorkOrderStatus(r)
  \/ \E swapped \in BOOLEAN : WorkOrderPage(r, swapped)

Next ==
  \/ \E r \in Requests :
       \/ \E t \in Tokens : LoginRead(r, t) \/ (\E op \in Ops : Authorize(r, t, op))
       \/ LoginInsert(r)
       \/ Act(r)
       \/ CountPage(r)
       \/ NextPage(r)
       \/ WriteLog(r)
       \/ Fail(r)
  \/ \E t \in Tokens : Expire(t)
  \/ \E u \in Users : Disable(u)

Spec == Init /\ [][Next]_vars

(***************************************************************************)
(* Properties                                                              *)
(***************************************************************************)

\* After a logout, an expiry or the disabling of a user, only requests that
\* were let in before go on: no new one is authorised, not even one whose
\* login was half way.
InFlightOnly ==
  \A r \in Requests :
    req[r].pc \in {"act", "count"}
      /\ (sessions[req[r].token] # "live" \/ Me(r) \notin active) => req[r].over

\* What an operation that succeeded leaves behind
Done(op) ==
  /\ op[1] \in {"create", "update"} => rows[op[2]].state # "absent"
  /\ op[1] = "delete" => rows[op[2]].state = "deleted"
  /\ op[1] = "order" => Orders # Seeds
  /\ op[1] = "move" => op \in won

\* The log tells the truth: what an entry says was done, by somebody whose role
\* permits it.
LogTrue ==
  \A e \in log : Done(e[2]) /\ RoleOf[e[1]] \in Allowed(e[2])

\* The log leaves out no deletion and no move of an order that succeeded, but
\* for the entries that are still to come and those that could not be written:
\* recordConsoleOperation drops the error.
LogTold ==
  \A op \in won \cap (RowOps \cup OrderOps) :
    \/ \E e \in log : e[2] = op
    \/ \E r \in Requests : req[r].pc = "log" /\ req[r].op = op
    \/ op \in lost

\* Of racing logouts, deletions or moves of an order one succeeds, the others
\* are told that somebody was faster.
OneWinner == twice = {}

\* first status, status and the moves between them
Paths ==
  {<<0, 0, {}>>, <<0, 1, {1}>>, <<0, 2, {1, 2}>>, <<0, 3, {3}>>, <<1, 1, {}>>, <<1, 2, {2}>>}

\* Requests that race to move an order leave it in a status that one path from
\* 0 reaches, with a version that counts the steps of that path: 0, 1, 2 or 0, 3.
OrderPath ==
  \A o \in Orders :
    LET first == IF o \in Seeds THEN o - 1 ELSE 0
        moved == {next \in 1 .. 3 : <<"move", o, next>> \in won} IN
    /\ orders[o].version = 1 + Cardinality(moved)
    /\ <<first, orders[o].status, moved>> \in Paths

\* A page of the work orders never shows more than its total, although the
\* total is counted later.
PageWithinTotal ==
  \A r \in Requests :
    req[r].pc = "answered" /\ req[r].op[1] = "page" /\ req[r].page.records # {} =>
      LET b == pageBounds(req[r].page.number, req[r].op[2]) IN
      b.offset + Cardinality(req[r].page.records) <= req[r].page.total

\* A list shows no row that was deleted when its request was let in, and its
\* total misses a row only when that has been deleted since.
ListCurrent ==
  \A r \in Requests :
    req[r].pc = "answered" /\ req[r].op[1] = "list" =>
      LET p == req[r].page IN
      /\ p.records \cap p.gone = {}
      /\ Cardinality(p.records) > p.total => p.records \subseteq Gone

\* A client that reads page after page sees every order that existed when it
\* began, whatever is created in the meantime, except for those that share
\* their time of creation with another one.
SweepComplete ==
  \A r \in Requests :
    req[r].pc = "answered" /\ req[r].op[1] = "page" /\ req[r].page.records = {} =>
      req[r].page.start \ Seeds \subseteq req[r].page.shown

\* What the log and the orders say of requests that raced is true.
Settled == OneWinner /\ OrderPath /\ LogTrue

\* Requests that race end as one of them alone would have, the log tells of
\* those that won unless it cannot be written, and of nobody else.
RacesSettled == Settled /\ LogTold

\* SPEC_FREEZE.md: "command dispatch, and audit writes use cross-entity SQL
\* transactions with rollback on failure".  When no request is in flight, every
\* move of a command order is in the log.
DispatchAudited ==
  (\A r \in Requests : req[r] = Idle) =>
    \A op \in won : op[1] = "move" => \E e \in log : e[2] = op

\* What pages, lists and their totals show fits together, although each is read
\* by statements of its own while rows come and go.
PagesAgree == PageWithinTotal /\ ListCurrent /\ SweepComplete

(***************************************************************************)
(* Why: the inductive invariant                                            *)
(***************************************************************************)
\* A page shows rows of a table or orders, told apart by the operation.
Page(records) ==
  [number : Nat \ {0}, records : {records}, total : Nat,
   shown : SUBSET Nat, start : SUBSET Nat, gone : SUBSET Kinds]

Typed(r) ==
  req[r] # Idle =>
    req[r] \in [pc : Running \cup {"answered", "log"}, token : Tokens,
               op : Ops \cup {<<"login">>}, over : BOOLEAN, page : Page(req[r].page.records)]

TablesOK ==
  /\ active \subseteq Users
  /\ sessions \in [Tokens -> {"none", "live", "expired", "revoked"}]
  /\ rows \in [Kinds -> [state : {"absent", "live", "deleted"}, by : Users \cup {Nobody}]]
  /\ \E n \in 2 .. MaxOrders : orders \in [1 .. n -> [status : 0 .. 3, version : Nat]]
  /\ log \subseteq Users \X Ops

TypeOK == TablesOK /\ DOMAIN req = Requests /\ \A r \in Requests : Typed(r)

\* A session that is being inserted is nobody else's yet.
LoginFresh ==
  \A r \in Requests : req[r].pc = "insert" =>
    /\ req[r].op = <<"login">> /\ sessions[req[r].token] = "none"
    /\ \A s \in Requests \ {r} : req[s] # Idle => req[s].token # req[r].token

\* What was won cannot be won again.
WonForGood ==
  /\ \A t \in Tokens : <<"logout", t>> \in won => sessions[t] = "revoked"
  /\ \A k \in Kinds : <<"delete", k>> \in won => rows[k].state = "deleted"
  /\ \A o \in (1 .. MaxOrders) \ Orders, next \in 1 .. 3 : <<"move", o, next>> \notin won

\* A client has seen the orders of its start that have not moved past the pages
\* it has read, and new ones only move them further down.
Swept(p, n) == \A o \in p.start \ Seeds : Cardinality(Orders) + 1 - o <= n => o \in p.shown

PageRead(q) ==
  LET p == q.page
      b == pageBounds(p.number, q.op[2]) IN
  /\ p.start \subseteq Orders
  /\ q.pc = "act" => Swept(p, b.offset)
  /\ q.pc \in {"count", "answered"} =>
       /\ p.records \subseteq Orders
       /\ Swept(p, b.offset + b.size)
       /\ p.records = {} => p.start \ Seeds \subseteq p.shown
       /\ p.records # {} =>
            b.offset + Cardinality(p.records) <= IF q.pc = "count" THEN Cardinality(Orders) ELSE p.total

ListRead(q) ==
  LET p == q.page IN
  /\ p.gone \subseteq Gone
  /\ q.pc \in {"count", "answered"} =>
       /\ p.records \subseteq {q.op[2]} \ p.gone
       /\ \A k \in p.records : rows[k].state # "absent"
  /\ q.pc = "answered" /\ Cardinality(p.records) > p.total => p.records \subseteq Gone

\* Who is let in has the role for it, what is about to be logged was done, and
\* what was read is no more than what is there.
Sound(r) ==
  req[r] # Idle =>
    /\ req[r].op # <<"login">> => PermittedRole(req[r].token, req[r].op)
    /\ req[r].pc = "log" => Done(req[r].op)
    /\ req[r].op[1] = "page" => PageRead(req[r])
    /\ req[r].op[1] = "list" => ListRead(req[r])

ConsoleInv ==
  /\ TypeOK /\ InFlightOnly /\ LoginFresh /\ WonForGood /\ Settled
  /\ \A r \in Requests : Sound(r)
=============================================================================
